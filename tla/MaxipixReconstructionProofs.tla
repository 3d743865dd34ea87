--------------------- MODULE MaxipixReconstructionProofs ---------------------
(***************************************************************************)
(* Proofs about the reconstruction, in place or not, for chips of any size,*)
(* gaps of any width, every fill type and frames of any pixels.            *)
(*                                                                         *)
(* L_5x1: both pointers are functions of the lines left and of the chips   *)
(* left in the line, the destination is ahead of the source by a gap for   *)
(* each chip that has one, and so a move and the gap before it reach no    *)
(* pixel that is still to be read (Inv5x1).                                *)
(*                                                                         *)
(* L_FREE and L_GENERAL: the pixels of the chips have each a place of their*)
(* own, in the frame (ReadOutOnce) and, for the positions of a detector, in*)
(* the image (PlaceOnce), and the pointer walks of each angle go over the  *)
(* chip as quarter turns see it (SourceIs, GeneralSourceIs).               *)
(*                                                                         *)
(* L_2x2: pixels are named by column and line, and every pixel has its own *)
(* place (OneSpot).  A run is one column of one chip (RunIs) and leaves the*)
(* pointer where the next begins (RunMoves); then it is at one column of   *)
(* one line, those before it done and those after it as seen (AtLine), and *)
(* the lines between keep that (MiddleDone, for each type).                *)
(***************************************************************************)
EXTENDS MaxipixReconstruction, Sequences, WellFoundedInduction, TLAPS

\* How many lines of chips are left, less one.
Steps == 5 * (aNbLine - 1) + chips

\* The pointers, the size of a move and the buffer, before each move.
Walk ==
  /\ m_xgap \in Nat /\ inPlace \in BOOLEAN /\ m_type \in R5!Types
  /\ raw \in [0 .. 5 * N * N - 1 -> Nat]
  /\ aNbLine \in 0 .. N /\ chips \in 0 .. 4
  /\ aNbLine = 0 => chips = 4
  /\ srcPt = N * Steps
  /\ dstPt = (5 * N + 4 * m_xgap) * (aNbLine - 1) + chips * (N + m_xgap)
  /\ size = IF chips = 4 THEN N ELSE R5!SizeAfter
  /\ DOMAIN data = 0 .. (5 * N + 4 * m_xgap) * N - 1

\* The inductive invariant: the walk, what is still to be read, what is done.
Inv5x1 == m_layout = "L_5x1" => Walk /\ R5!SourceIntact /\ R5!DoneIsRight

\* A chip has two columns at least.
LEMMA NType == N \in Nat /\ N >= 2
BY SizeAssumption DEF R5!Assumptions

\* The destination is ahead of the source by one gap for each gap that is left
\* to open, and a move is at most a line of a chip.
LEMMA Ahead ==
  ASSUME Walk
  PROVE  /\ dstPt - srcPt = m_xgap * (4 * (aNbLine - 1) + chips)
         /\ srcPt \in Int /\ dstPt \in Int /\ size \in Nat /\ size >= 1 /\ size <= N
<1>1. N \in Nat /\ N >= 2 /\ m_xgap \in Nat /\ aNbLine \in Int /\ chips \in Int
  BY NType DEF Walk
<1>2. size \in Nat /\ size >= 1 /\ size <= N
  BY <1>1 DEF Walk, R5!SizeAfter
<1>3. srcPt = N * (5 * (aNbLine - 1) + chips)
  BY DEF Walk, Steps
<1>4. dstPt = (5 * N + 4 * m_xgap) * (aNbLine - 1) + chips * (N + m_xgap)
  BY DEF Walk
<1>5. ASSUME NEW n \in Int, NEW g \in Int, NEW a \in Int, NEW c \in Int
      PROVE  /\ (5 * n + 4 * g) * a + c * (n + g) - n * (5 * a + c) = g * (4 * a + c)
             /\ n * (5 * a + c) \in Int /\ (5 * n + 4 * g) * a + c * (n + g) \in Int
  OBVIOUS
<1> QED BY <1>1, <1>2, <1>3, <1>4, <1>5


-----------------------------------------------------------------------------
\* A number is in one way a multiple and a rest.
LEMMA DivIs ==
  ASSUME NEW n \in Nat, n > 0, NEW q \in Int, NEW r \in Int, 0 <= r, r < n, NEW x, x = n * q + r
  PROVE  x \div n = q /\ x % n = r
<1> DEFINE u == x \div n
           v == x % n
<1>1. x \in Int /\ u \in Int /\ v \in Int /\ 0 <= v /\ v < n /\ x = n * u + v
  OBVIOUS
<1> HIDE DEF u, v
<1>2. n * (u - q) = r - v  BY <1>1
<1>3. CASE u - q >= 1
  <2>1. n * (u - q) >= n  BY <1>1, <1>3
  <2> QED  BY <1>1, <1>2, <2>1
<1>4. CASE u - q <= -1
  <2>1. n * (u - q) <= -n  BY <1>1, <1>4
  <2> QED  BY <1>1, <1>2, <2>1
<1>5. CASE u = q  BY <1>1, <1>2, <1>5 DEF u, v
<1> QED  BY <1>1, <1>3, <1>4, <1>5

\* The pixel k of the image is in column i of chip c, or of the gap after it.
At(k, line, c, i) ==
  /\ line \in Int /\ line >= 0 /\ c \in Int /\ 0 <= c /\ c <= 4 /\ i \in Int /\ 0 <= i
  /\ (c < 4 => i < N + m_xgap) /\ (c = 4 => i < N)
  /\ k = (5 * N + 4 * m_xgap) * line + (c * (N + m_xgap) + i)

\* There, the geometry asks for a pixel of chip c or for one of the gap.
LEMMA ExpectedIs ==
  ASSUME m_xgap \in Nat, NEW line, NEW c, NEW i, NEW k, At(k, line, c, i)
  PROVE  R5!Expected(k) =
           IF i = 0 /\ c > 0 THEN R5!Across(line, c - 1, 0)
           ELSE IF i >= N - 1 /\ c < 4 THEN R5!Across(line, c, N + m_xgap - i)
           ELSE R5!Pixel(line, c, i)
<1> DEFINE wide == 5 * N + 4 * m_xgap
           one  == N + m_xgap
           x    == c * one + i
<1>0. /\ line \in Int /\ line >= 0 /\ c \in Int /\ 0 <= c /\ c <= 4 /\ i \in Int /\ 0 <= i
      /\ (c < 4 => i < N + m_xgap) /\ (c = 4 => i < N)
  BY DEF At
<1>1. N \in Nat /\ N >= 2  BY NType
<1>2. wide \in Nat /\ wide > 0 /\ one \in Nat /\ one > 0  BY <1>1
<1>3. x \in Int /\ 0 <= x /\ x < wide
  <2>1. c = 0 \/ c = 1 \/ c = 2 \/ c = 3 \/ c = 4  BY <1>0
  <2> QED  BY <1>0, <1>1, <2>1
<1>4. i < one  BY <1>0, <1>1
<1>5. R5!Width(m_xgap) = wide  BY <1>1 DEF R5!Width, R5!NbChips
<1>6. k = wide * line + x  BY DEF At
<1>7. x = one * c + i  BY <1>0, <1>1
<1> HIDE DEF wide, one, x
<1>8. k \div wide = line /\ k % wide = x  BY <1>0, <1>2, <1>3, <1>6, DivIs
<1>9. x \div one = c /\ x % one = i  BY <1>0, <1>2, <1>4, <1>7, DivIs
<1>10. one = N + m_xgap  BY DEF one
<1> QED  BY <1>5, <1>8, <1>9, <1>10 DEF R5!Expected, R5!NbChips

\* What the geometry asks for depends on the frame and the gap only.
LEMMA ExpectedStays ==
  ASSUME UNCHANGED <<raw, m_type, m_xgap>>, NEW k
  PROVE  R5!Expected(k)' = R5!Expected(k)
BY DEF R5!Expected, R5!Across, R5!Pixel, R5!LeftShare, R5!RightShare, R5!NbShared, R5!Width

\* The first pixel of the image that a gap of each type sets.
First(d) == IF m_type = "RAW" THEN d - m_xgap ELSE d - m_xgap - 1

\* How the pointers stand before a line of a chip is moved.
LEMMA Pointers ==
  ASSUME Walk, aNbLine > 0
  PROVE  /\ m_xgap * (4 * (aNbLine - 1) + chips) >= m_xgap * chips
         /\ dstPt >= 0 /\ srcPt >= 0 /\ dstPt + N <= (5 * N + 4 * m_xgap) * N
         /\ chips > 0 => dstPt - m_xgap >= srcPt /\ srcPt >= N
         /\ dstPt >= srcPt
<1> DEFINE a == aNbLine - 1
           wide == 5 * N + 4 * m_xgap
<1>1. N \in Nat /\ N >= 2 /\ m_xgap \in Nat /\ a \in Nat /\ a + 1 <= N /\ chips \in 0 .. 4
  BY NType DEF Walk
<1>2. dstPt - srcPt = m_xgap * (4 * a + chips) /\ srcPt \in Int /\ dstPt \in Int
  BY Ahead
<1>3. srcPt = N * (5 * a + chips) /\ dstPt = wide * a + chips * (N + m_xgap)
  BY DEF Walk, Steps
<1>4. wide \in Nat  BY <1>1
<1> HIDE DEF a, wide
<1>5. wide * (a + 1) <= wide * N
  <2>1. ASSUME NEW w \in Nat, NEW p \in Nat, NEW q \in Nat, p <= q PROVE w * p <= w * q
    <3>1. q - p \in Nat  BY <2>1
    <3>2. w * (q - p) \in Nat  BY <3>1
    <3> QED  BY <3>2
  <2>2. a + 1 \in Nat /\ N \in Nat /\ a + 1 <= N  BY <1>1
  <2> QED  BY <1>4, <2>1, <2>2
<1>6. chips * (N + m_xgap) + N <= wide /\ chips * (N + m_xgap) >= 0
  <2>1. chips = 0 \/ chips = 1 \/ chips = 2 \/ chips = 3 \/ chips = 4  BY <1>1
  <2> QED  BY <1>1, <2>1 DEF wide
<1>7. m_xgap * (4 * a + chips) = 4 * (m_xgap * a) + m_xgap * chips
      /\ wide * (a + 1) = wide * a + wide
      /\ N * (5 * a + chips) = 5 * (N * a) + N * chips
  BY <1>1, <1>4
<1>8. m_xgap * a >= 0 /\ N * a >= 0 /\ wide * a >= 0 /\ N * chips >= 0 /\ m_xgap * chips >= 0
  BY <1>1, <1>4
<1>9. chips > 0 => m_xgap * chips >= m_xgap /\ N * chips >= N
  <2>1. chips = 0 \/ chips = 1 \/ chips = 2 \/ chips = 3 \/ chips = 4  BY <1>1
  <2> QED  BY <1>1, <2>1
<1>10. wide * a \in Int /\ wide * N \in Int /\ chips * (N + m_xgap) \in Int /\ m_xgap * a \in Int
       /\ m_xgap * chips \in Int /\ N * a \in Int /\ N * chips \in Int
  BY <1>1, <1>4
<1>11. dstPt + N <= wide * N
  BY <1>1, <1>2, <1>3, <1>4, <1>5, <1>6, <1>7, <1>10
<1>12. m_xgap * (4 * a + chips) >= m_xgap * chips  BY <1>7, <1>8, <1>10
<1>13. dstPt >= 0 /\ srcPt >= 0 /\ dstPt >= srcPt
  BY <1>1, <1>2, <1>3, <1>6, <1>7, <1>8, <1>10
<1>14. chips > 0 => dstPt - m_xgap >= srcPt /\ srcPt >= N
  BY <1>1, <1>2, <1>3, <1>7, <1>8, <1>9, <1>10
<1> QED  BY <1>11, <1>12, <1>13, <1>14 DEF a, wide

-----------------------------------------------------------------------------
\* The line of a chip that is moved.
LEMMA LineMoved ==
  ASSUME Walk, R5!SourceIntact, aNbLine > 0
  PROVE  /\ DOMAIN R5!Moved = DOMAIN data
         /\ \A k \in DOMAIN data :
              R5!Moved[k] = IF dstPt <= k /\ k < dstPt + size THEN raw[srcPt + (k - dstPt)] ELSE data[k]
<1>1. srcPt \in Int /\ dstPt \in Int /\ size \in Int  BY Ahead
<1>2. srcPt >= 0  BY Pointers
<1>3. DOMAIN data \subseteq Int  BY NType DEF Walk
<1>4. ASSUME NEW k \in DOMAIN data, dstPt <= k, k < dstPt + size
      PROVE  R5!Src(data, srcPt + k - dstPt) = raw[srcPt + (k - dstPt)]
  <2>1. srcPt + k - dstPt = srcPt + (k - dstPt)  BY <1>1, <1>3
  <2>2. srcPt + (k - dstPt) \in 0 .. srcPt + size - 1  BY <1>1, <1>2, <1>3, <1>4
  <2> QED  BY <2>1, <2>2 DEF R5!Src, R5!SourceIntact
<1>5. \A k \in DOMAIN data : k \in dstPt .. dstPt + size - 1 <=> dstPt <= k /\ k < dstPt + size
  BY <1>1, <1>3
<1> QED  BY <1>4, <1>5 DEF R5!Moved

\* What a gap of each type does to the image.
Around(b, from, to, image) ==
  /\ DOMAIN image = DOMAIN b
  /\ \A k \in DOMAIN b : k < from \/ k > to => image[k] = b[k]

\* RAW sets the gap alone, to 0.
LEMMA RawGapIs ==
  ASSUME NEW b, DOMAIN b \subseteq Int, dstPt \in Int, m_xgap \in Nat
  PROVE  /\ Around(b, dstPt - m_xgap, dstPt - 1, R5!RawGap(b))
         /\ \A k \in DOMAIN b : dstPt - m_xgap <= k /\ k < dstPt => R5!RawGap(b)[k] = 0
BY DEF R5!RawGap, R5!With, Around

\* ZERO sets the two pixels beside it too.
LEMMA ZeroGapIs ==
  ASSUME NEW b, DOMAIN b \subseteq Int, dstPt \in Int, m_xgap \in Nat
  PROVE  /\ Around(b, dstPt - m_xgap - 1, dstPt, R5!ZeroGap(b))
         /\ \A k \in DOMAIN b : dstPt - m_xgap - 1 <= k /\ k <= dstPt => R5!ZeroGap(b)[k] = 0
BY DEF R5!ZeroGap, R5!With, Around

\* DISPATCH gives half of an even gap the share of each of the two pixels.
LEMMA DispatchGapIs ==
  ASSUME NEW b, DOMAIN b \subseteq Int, dstPt \in Int, m_xgap \in Nat,
         srcPt \in Int, srcPt - 1 < dstPt - m_xgap, NEW last, last = R5!Src(b, srcPt - 1), srcPt - 1 \in DOMAIN b
  PROVE  /\ Around(b, dstPt - m_xgap - 1, dstPt, R5!DispatchGap(b))
         /\ m_xgap % 2 = 0 => \A k \in DOMAIN b : dstPt - m_xgap - 1 <= k /\ k <= dstPt =>
              R5!DispatchGap(b)[k] = IF 2 * (dstPt - k) <= m_xgap THEN b[dstPt] \div R5!NbShared(m_xgap)
                                     ELSE last \div R5!NbShared(m_xgap)
<1> DEFINE n  == R5!NbShared(m_xgap)
           b1 == [k \in DOMAIN b |-> IF k \in dstPt - n + 1 .. dstPt THEN b[dstPt] \div n ELSE b[k]]
<1>1. n \in Int /\ 2 * n <= m_xgap + 2 /\ n >= 1 /\ (m_xgap % 2 = 0 => 2 * n = m_xgap + 2)
      /\ 2 * n > m_xgap
  BY DEF R5!NbShared
<1>2. R5!Src(b1, srcPt - 1) = last
  <2>1. srcPt - 1 \notin dstPt - n + 1 .. dstPt  BY <1>1
  <2> QED  BY <2>1 DEF R5!Src
<1>3. R5!DispatchGap(b) = [k \in DOMAIN b |-> IF k \in dstPt - 2 * n + 1 .. dstPt - n
                                              THEN last \div n ELSE b1[k]]
  BY <1>2 DEF R5!DispatchGap, R5!With
<1> HIDE DEF n
<1>4. \A k \in DOMAIN b : k \in Int  OBVIOUS
<1> QED  BY <1>1, <1>3, <1>4 DEF Around, n

\* MEAN goes from the share of one pixel to that of the other in even steps.
LEMMA MeanGapIs ==
  ASSUME NEW b, DOMAIN b \subseteq Int, dstPt \in Int, m_xgap \in Nat,
         srcPt \in Int, srcPt - 1 # dstPt, NEW last, last = R5!Src(b, srcPt - 1), srcPt - 1 \in DOMAIN b,
         dstPt \in DOMAIN b, NEW lshare, lshare = last \div R5!NbShared(m_xgap),
         NEW rshare, rshare = b[dstPt] \div R5!NbShared(m_xgap), lshare \in Int, rshare \in Int
  PROVE  /\ Around(b, dstPt - m_xgap - 1, dstPt, R5!MeanGap(b))
         /\ \A k \in DOMAIN b : dstPt - m_xgap - 1 <= k /\ k <= dstPt =>
              R5!MeanGap(b)[k] = rshare + (dstPt - k) * R5!Quotient(lshare - rshare, m_xgap + 1)
<1> DEFINE b1   == [k \in DOMAIN b |-> IF k \in {dstPt} THEN rshare ELSE b[k]]
           step == R5!Quotient(lshare - rshare, m_xgap + 1)
<1>1. R5!Src(b1, srcPt - 1) = last  BY DEF R5!Src
<1>2. R5!MeanGap(b) = [k \in DOMAIN b |-> IF k \in dstPt - m_xgap - 1 .. dstPt - 1
                                          THEN rshare + step * (dstPt - k) ELSE b1[k]]
  BY <1>1 DEF R5!MeanGap, R5!With
<1>3. step \in Int  BY DEF R5!Quotient
<1> HIDE DEF step
<1>4. \A k \in DOMAIN b : k \in Int /\ step * (dstPt - k) = (dstPt - k) * step  BY <1>3
<1>5. rshare + (dstPt - dstPt) * step = rshare  BY <1>3
<1> QED  BY <1>2, <1>4, <1>5 DEF Around, step

\* The pixels read are those of the frame.
LEMMA InFrame ==
  ASSUME Walk, aNbLine > 0
  PROVE  srcPt + N <= 5 * N * N
<1> DEFINE a == aNbLine - 1
<1>1. N \in Nat /\ a \in Nat /\ a <= N - 1 /\ chips \in Int /\ chips <= 4
  BY NType DEF Walk
<1>2. srcPt = N * (5 * a + chips)  BY DEF Walk, Steps
<1> HIDE DEF a
<1>3. 5 * N - (5 * a + chips + 1) \in Nat  BY <1>1
<1>4. N * (5 * N - (5 * a + chips + 1)) >= 0  BY <1>1, <1>3
<1>5. N * (5 * N - (5 * a + chips + 1)) = 5 * N * N - (N * (5 * a + chips) + N)  BY <1>1
<1>6. 5 * N * N \in Int /\ N * (5 * a + chips) \in Int  BY <1>1
<1> QED  BY <1>1, <1>2, <1>4, <1>5, <1>6

\* A line of a chip moved, with the gap before it.
LEMMA GapIs ==
  ASSUME Walk, R5!SourceIntact, aNbLine > 0, chips > 0, NEW image, image = R5!GapCopy(R5!Moved)
  PROVE  /\ Around(data, First(dstPt), dstPt + size - 1, image)
         /\ \A k \in DOMAIN data :
              dstPt < k /\ k < dstPt + size => image[k] = raw[srcPt + (k - dstPt)]
         /\ ~(m_type = "DISPATCH" /\ m_xgap % 2 = 1) =>
              \A k \in DOMAIN data : First(dstPt) <= k /\ k <= dstPt =>
                image[k] = R5!Across(aNbLine - 1, chips - 1, dstPt - k)
<1> DEFINE b == R5!Moved
<1>1. /\ srcPt \in Int /\ dstPt \in Int /\ size \in Int /\ size >= 1 /\ size <= N
      /\ N \in Nat /\ N >= 2 /\ m_xgap \in Nat /\ chips \in Int /\ aNbLine \in Int
  BY Ahead, NType DEF Walk
<1>2. dstPt >= 0 /\ srcPt >= N /\ dstPt - m_xgap >= srcPt /\ dstPt + N <= (5 * N + 4 * m_xgap) * N
  BY Pointers
<1>3. DOMAIN data = 0 .. (5 * N + 4 * m_xgap) * N - 1 /\ (5 * N + 4 * m_xgap) * N \in Int
  BY <1>1 DEF Walk
<1>4. DOMAIN b = DOMAIN data /\ DOMAIN b \subseteq Int  BY <1>3, LineMoved
<1>5. \A k \in DOMAIN data :
        b[k] = IF dstPt <= k /\ k < dstPt + size THEN raw[srcPt + (k - dstPt)] ELSE data[k]
  BY LineMoved
<1>6. dstPt \in DOMAIN data /\ srcPt - 1 \in DOMAIN data
  BY <1>1, <1>2, <1>3
<1>7. b[dstPt] = raw[srcPt]
  <2>1. srcPt + (dstPt - dstPt) = srcPt  BY <1>1
  <2> QED  BY <1>1, <1>5, <1>6, <2>1
<1>8. R5!Src(b, srcPt - 1) = raw[srcPt - 1]
  <2>1. b[srcPt - 1] = data[srcPt - 1]  BY <1>1, <1>2, <1>5, <1>6
  <2>2. srcPt - 1 \in 0 .. srcPt + size - 1  BY <1>1, <1>2
  <2> QED  BY <2>1, <2>2 DEF R5!Src, R5!SourceIntact
<1>9. raw[srcPt] \in Nat /\ raw[srcPt - 1] \in Nat
  <2>1. srcPt + N <= 5 * N * N  BY InFrame
  <2>2. srcPt \in 0 .. 5 * N * N - 1 /\ srcPt - 1 \in 0 .. 5 * N * N - 1  BY <1>1, <1>2, <2>1
  <2> QED  BY <2>2 DEF Walk
<1>10. R5!Pixel(aNbLine - 1, (chips - 1) + 1, 0) = raw[srcPt]
  <2>1. ((aNbLine - 1) * 5 + ((chips - 1) + 1)) * N + 0 = srcPt  BY <1>1 DEF Walk, Steps
  <2> QED  BY <2>1 DEF R5!Pixel, R5!NbChips
<1>11. R5!Pixel(aNbLine - 1, chips - 1, N - 1) = raw[srcPt - 1]
  <2>1. ((aNbLine - 1) * 5 + (chips - 1)) * N + (N - 1) = srcPt - 1  BY <1>1 DEF Walk, Steps
  <2> QED  BY <2>1 DEF R5!Pixel, R5!NbChips
<1> HIDE DEF b
<1>12. ASSUME NEW d \in Int, Around(b, d, dstPt, image), d >= First(dstPt)
       PROVE  /\ Around(data, First(dstPt), dstPt + size - 1, image)
              /\ \A k \in DOMAIN data :
                   dstPt < k /\ k < dstPt + size => image[k] = raw[srcPt + (k - dstPt)]
  <2>1. First(dstPt) \in Int /\ First(dstPt) <= dstPt  BY <1>1 DEF First
  <2> QED  BY <1>1, <1>4, <1>5, <1>12, <2>1 DEF Around
<1>13. CASE m_type = "RAW"
  <2>1. image = R5!RawGap(b)  BY <1>13 DEF R5!GapCopy, b
  <2>2. /\ Around(b, dstPt - m_xgap, dstPt - 1, image)
        /\ \A k \in DOMAIN b : dstPt - m_xgap <= k /\ k < dstPt => image[k] = 0
    BY <1>1, <1>4, <2>1, RawGapIs
  <2>3. Around(b, dstPt - m_xgap, dstPt, image)  BY <1>1, <1>4, <2>2 DEF Around
  <2>4. image[dstPt] = raw[srcPt]  BY <1>1, <1>4, <1>6, <1>7, <2>2 DEF Around
  <2>5. \A k \in DOMAIN data : First(dstPt) <= k /\ k <= dstPt =>
          image[k] = R5!Across(aNbLine - 1, chips - 1, dstPt - k)
    <3> SUFFICES ASSUME NEW k \in DOMAIN data, First(dstPt) <= k, k <= dstPt
                 PROVE  image[k] = R5!Across(aNbLine - 1, chips - 1, dstPt - k)
      OBVIOUS
    <3>1. dstPt - k # m_xgap + 1 /\ (dstPt - k = 0 <=> k = dstPt)
      BY <1>1, <1>3, <1>13 DEF First
    <3>2. R5!Across(aNbLine - 1, chips - 1, dstPt - k) = IF k = dstPt THEN raw[srcPt] ELSE 0
      BY <1>10, <1>13, <3>1 DEF R5!Across
    <3> QED  BY <1>1, <1>3, <1>4, <1>13, <2>2, <2>4, <3>2 DEF First
  <2>6. dstPt - m_xgap >= First(dstPt)  BY <1>1, <1>13 DEF First
  <2> QED  BY <1>1, <1>12, <2>3, <2>5, <2>6
<1>14. CASE m_type = "ZERO"
  <2>1. image = R5!ZeroGap(b)  BY <1>14 DEF R5!GapCopy, b
  <2>2. /\ Around(b, dstPt - m_xgap - 1, dstPt, image)
        /\ \A k \in DOMAIN b : dstPt - m_xgap - 1 <= k /\ k <= dstPt => image[k] = 0
    BY <1>1, <1>4, <2>1, ZeroGapIs
  <2>3. First(dstPt) = dstPt - m_xgap - 1  BY <1>14 DEF First
  <2>4. \A k : R5!Across(aNbLine - 1, chips - 1, dstPt - k) = 0  BY <1>14 DEF R5!Across
  <2> QED  BY <1>1, <1>4, <1>12, <2>2, <2>3, <2>4
<1>15. CASE m_type = "DISPATCH"
  <2>1. image = R5!DispatchGap(b)  BY <1>15 DEF R5!GapCopy, b
  <2>2. srcPt - 1 < dstPt - m_xgap  BY <1>1, <1>2
  <2>3. /\ Around(b, dstPt - m_xgap - 1, dstPt, image)
        /\ m_xgap % 2 = 0 => \A k \in DOMAIN b : dstPt - m_xgap - 1 <= k /\ k <= dstPt =>
             image[k] = IF 2 * (dstPt - k) <= m_xgap THEN b[dstPt] \div R5!NbShared(m_xgap)
                      ELSE raw[srcPt - 1] \div R5!NbShared(m_xgap)
    BY <1>1, <1>4, <1>6, <1>8, <2>1, <2>2, DispatchGapIs
  <2>4. First(dstPt) = dstPt - m_xgap - 1  BY <1>15 DEF First
  <2>5. \A k : R5!Across(aNbLine - 1, chips - 1, dstPt - k) =
                 IF 2 * (dstPt - k) <= m_xgap THEN raw[srcPt] \div R5!NbShared(m_xgap)
                 ELSE raw[srcPt - 1] \div R5!NbShared(m_xgap)
    BY <1>10, <1>11, <1>15 DEF R5!Across, R5!LeftShare, R5!RightShare
  <2>6. m_xgap % 2 = 1 \/ m_xgap % 2 = 0  BY <1>1
  <2> QED  BY <1>1, <1>4, <1>7, <1>12, <1>15, <2>3, <2>4, <2>5, <2>6
<1>16. CASE m_type = "MEAN"
  <2> DEFINE lshare == raw[srcPt - 1] \div R5!NbShared(m_xgap)
             rshare == raw[srcPt] \div R5!NbShared(m_xgap)
  <2>1. image = R5!MeanGap(b)  BY <1>16 DEF R5!GapCopy, b
  <2>2. lshare \in Int /\ rshare \in Int
    <3>1. R5!NbShared(m_xgap) \in Nat /\ R5!NbShared(m_xgap) > 0  BY <1>1 DEF R5!NbShared
    <3> QED  BY <1>9, <3>1
  <2>3. srcPt - 1 # dstPt  BY <1>1, <1>2
  <2>4. rshare = b[dstPt] \div R5!NbShared(m_xgap)  BY <1>7
  <2>5. lshare = R5!Src(b, srcPt - 1) \div R5!NbShared(m_xgap)  BY <1>8
  <2> HIDE DEF lshare, rshare
  <2>6. /\ Around(b, dstPt - m_xgap - 1, dstPt, image)
        /\ \A k \in DOMAIN b : dstPt - m_xgap - 1 <= k /\ k <= dstPt =>
             image[k] = rshare + (dstPt - k) * R5!Quotient(lshare - rshare, m_xgap + 1)
    BY <1>1, <1>4, <1>6, <2>1, <2>2, <2>3, <2>4, <2>5, MeanGapIs
  <2>7. First(dstPt) = dstPt - m_xgap - 1  BY <1>16 DEF First
  <2>8. \A k : R5!Across(aNbLine - 1, chips - 1, dstPt - k) =
                 rshare + (dstPt - k) * R5!Quotient(lshare - rshare, m_xgap + 1)
    BY <1>10, <1>11, <1>16 DEF R5!Across, R5!LeftShare, R5!RightShare, lshare, rshare
  <2> QED  BY <1>1, <1>4, <1>12, <2>6, <2>7, <2>8
<1> QED  BY <1>13, <1>14, <1>15, <1>16 DEF Walk, R5!Types

-----------------------------------------------------------------------------
\* The pointers after a line of a chip.
LEMMA WalkKept ==
  ASSUME Walk, R5!CopyWithGap \/ R5!CopyFirst, DOMAIN data' = DOMAIN data
  PROVE  Walk'
<1>1. N \in Nat /\ N >= 2 /\ m_xgap \in Nat /\ chips \in 0 .. 4 /\ aNbLine \in 0 .. N
  BY NType DEF Walk
<1>2. UNCHANGED <<raw, inPlace, m_type, m_xgap>>
  BY DEF R5!CopyWithGap, R5!CopyFirst, R5!params
<1>3. srcPt = N * (5 * (aNbLine - 1) + chips)
      /\ dstPt = (5 * N + 4 * m_xgap) * (aNbLine - 1) + chips * (N + m_xgap)
  BY DEF Walk, Steps
<1>4. CASE R5!CopyWithGap
  <2>1. aNbLine > 0 /\ chips > 0 /\ chips' = chips - 1 /\ aNbLine' = aNbLine
        /\ srcPt' = srcPt - N /\ dstPt' = dstPt - (N + m_xgap) /\ size' = R5!SizeAfter
    BY <1>4 DEF R5!CopyWithGap
  <2>2. srcPt' = N * (5 * (aNbLine - 1) + (chips - 1))  BY <1>1, <1>3, <2>1
  <2>3. dstPt' = (5 * N + 4 * m_xgap) * (aNbLine - 1) + (chips - 1) * (N + m_xgap)
    BY <1>1, <1>3, <2>1
  <2>4. chips' \in 0 .. 4 /\ chips' # 4 /\ aNbLine # 0  BY <1>1, <2>1
  <2>5. R5!SizeAfter' = R5!SizeAfter  BY <1>2 DEF R5!SizeAfter
  <2> QED  BY <1>2, <2>1, <2>2, <2>3, <2>4, <2>5 DEF Walk, Steps
<1>5. CASE R5!CopyFirst
  <2>1. aNbLine > 0 /\ chips = 0 /\ chips' = 4 /\ aNbLine' = aNbLine - 1
        /\ srcPt' = srcPt - N /\ dstPt' = dstPt - N /\ size' = N
    BY <1>5 DEF R5!CopyFirst, R5!NbChips
  <2>2. srcPt' = N * (5 * ((aNbLine - 1) - 1) + 4)  BY <1>1, <1>3, <2>1
  <2>3. dstPt' = (5 * N + 4 * m_xgap) * ((aNbLine - 1) - 1) + 4 * (N + m_xgap)
    BY <1>1, <1>3, <2>1
  <2>4. aNbLine - 1 \in 0 .. N  BY <1>1, <2>1
  <2> QED  BY <1>2, <2>1, <2>2, <2>3, <2>4 DEF Walk, Steps
<1> QED  BY <1>4, <1>5

\* Column i of the line of a chip that is moved, as the frame has it.
LEMMA PixelMoved ==
  ASSUME Walk, NEW i \in Int
  PROVE  R5!Pixel(aNbLine - 1, chips, i) = raw[srcPt + i]
<1>1. ((aNbLine - 1) * 5 + chips) * N + i = srcPt + i  BY NType DEF Walk, Steps
<1> QED  BY <1>1 DEF R5!Pixel, R5!NbChips

\* ... and in the image it should be.
LEMMA ExpectedMoved ==
  ASSUME Walk, aNbLine > 0, NEW k \in Int, dstPt <= k, k < dstPt + size, chips > 0 => k # dstPt
  PROVE  R5!Expected(k) = raw[srcPt + (k - dstPt)]
<1> DEFINE i == k - dstPt
<1>1. /\ N \in Nat /\ N >= 2 /\ m_xgap \in Nat /\ chips \in 0 .. 4 /\ aNbLine \in 0 .. N
      /\ srcPt \in Int /\ dstPt \in Int /\ size \in Int /\ size <= N
  BY Ahead, NType DEF Walk
<1>2. i \in Int /\ 0 <= i /\ i < N /\ (chips > 0 => i # 0)  BY <1>1
<1>3. k = (5 * N + 4 * m_xgap) * (aNbLine - 1) + (chips * (N + m_xgap) + i)
  <2>1. dstPt = (5 * N + 4 * m_xgap) * (aNbLine - 1) + chips * (N + m_xgap)  BY DEF Walk
  <2>2. (5 * N + 4 * m_xgap) * (aNbLine - 1) \in Int /\ chips * (N + m_xgap) \in Int  BY <1>1
  <2> QED  BY <1>1, <2>1, <2>2
<1>4. i >= N - 1 /\ chips < 4 => m_type = "RAW"
  BY <1>1, <1>2 DEF Walk, R5!SizeAfter
<1> HIDE DEF i
<1>5. At(k, aNbLine - 1, chips, i)  BY <1>1, <1>2, <1>3 DEF At
<1>6. R5!Expected(k) =
        IF i = 0 /\ chips > 0 THEN R5!Across(aNbLine - 1, chips - 1, 0)
        ELSE IF i >= N - 1 /\ chips < 4 THEN R5!Across(aNbLine - 1, chips, N + m_xgap - i)
        ELSE R5!Pixel(aNbLine - 1, chips, i)
  BY <1>1, <1>5, ExpectedIs
<1>7. ASSUME i >= N - 1, chips < 4
      PROVE  R5!Across(aNbLine - 1, chips, N + m_xgap - i) = R5!Pixel(aNbLine - 1, chips, i)
  <2>1. i = N - 1 /\ N + m_xgap - i = m_xgap + 1 /\ m_xgap + 1 # 0  BY <1>1, <1>2, <1>7
  <2> QED  BY <1>4, <1>7, <2>1 DEF R5!Across
<1>8. R5!Expected(k) = R5!Pixel(aNbLine - 1, chips, i)  BY <1>2, <1>6, <1>7
<1> QED  BY <1>2, <1>8, PixelMoved DEF i

\* The gap before the line of a chip in the image.
LEMMA ExpectedGap ==
  ASSUME Walk, aNbLine > 0, chips > 0, NEW k \in Int, First(dstPt) <= k, k <= dstPt
  PROVE  R5!Expected(k) = R5!Across(aNbLine - 1, chips - 1, dstPt - k)
<1>1. /\ N \in Nat /\ N >= 2 /\ m_xgap \in Nat /\ chips \in 0 .. 4 /\ aNbLine \in 0 .. N
      /\ dstPt \in Int
  BY Ahead, NType DEF Walk
<1>2. dstPt = (5 * N + 4 * m_xgap) * (aNbLine - 1) + chips * (N + m_xgap)  BY DEF Walk
<1>3. (5 * N + 4 * m_xgap) * (aNbLine - 1) \in Int /\ chips * (N + m_xgap) \in Int  BY <1>1
<1>4. aNbLine - 1 \in Int /\ aNbLine - 1 >= 0  BY <1>1
<1>5. CASE k = dstPt
  <2>1. k = (5 * N + 4 * m_xgap) * (aNbLine - 1) + (chips * (N + m_xgap) + 0)
    BY <1>2, <1>3, <1>5
  <2>2. At(k, aNbLine - 1, chips, 0)  BY <1>1, <1>4, <2>1 DEF At
  <2>3. R5!Expected(k) =
          IF 0 = 0 /\ chips > 0 THEN R5!Across(aNbLine - 1, chips - 1, 0)
          ELSE IF 0 >= N - 1 /\ chips < 4 THEN R5!Across(aNbLine - 1, chips, N + m_xgap - 0)
          ELSE R5!Pixel(aNbLine - 1, chips, 0)
    BY <1>1, <2>2, ExpectedIs
  <2>4. dstPt - k = 0  BY <1>1, <1>5
  <2> QED  BY <2>3, <2>4
<1>6. CASE k # dstPt
  <2> DEFINE i == k - dstPt + N + m_xgap
             c == chips - 1
  <2>1. i \in Int /\ i >= N - 1 /\ i < N + m_xgap /\ i # 0 /\ N + m_xgap - i = dstPt - k
    BY <1>1, <1>6 DEF First
  <2>2. chips * (N + m_xgap) = c * (N + m_xgap) + (N + m_xgap)  BY <1>1
  <2>3. c \in Int /\ 0 <= c /\ c <= 4 /\ c < 4 /\ 0 <= i  BY <1>1, <2>1
  <2>4. c * (N + m_xgap) \in Int  BY <1>1
  <2>5. k = (5 * N + 4 * m_xgap) * (aNbLine - 1) + (c * (N + m_xgap) + i)
    BY <1>1, <1>2, <1>3, <2>2, <2>4
  <2> HIDE DEF i, c
  <2>8. At(k, aNbLine - 1, c, i)  BY <1>1, <1>4, <2>1, <2>3, <2>5 DEF At
  <2>6. R5!Expected(k) =
          IF i = 0 /\ c > 0 THEN R5!Across(aNbLine - 1, c - 1, 0)
          ELSE IF i >= N - 1 /\ c < 4 THEN R5!Across(aNbLine - 1, c, N + m_xgap - i)
          ELSE R5!Pixel(aNbLine - 1, c, i)
    BY <1>1, <2>8, ExpectedIs
  <2>7. R5!Expected(k) = R5!Across(aNbLine - 1, c, dstPt - k)  BY <2>1, <2>3, <2>6
  <2> QED  BY <2>7 DEF c
<1> QED  BY <1>5, <1>6

-----------------------------------------------------------------------------
\* What is left to read lies before what a move and its gap have written.
LEMMA LeftToRead ==
  ASSUME NEW n \in Nat, NEW s \in Int, NEW z \in Int, NEW t \in Int, NEW w \in Int,
         z >= 1, t = s - n, w <= n,
         NEW d \in Int, NEW from \in Int, t + w <= from, from <= d,
         NEW k \in 0 .. t + w - 1
  PROVE  /\ k \in Int /\ 0 <= k /\ k < from /\ k < d
         /\ k \in 0 .. s + z - 1
OBVIOUS

\* What a line of a chip leaves of the frame and of the image: it writes, from
\* "from" on, what the geometry asks for, and not what is still to be read.
LEMMA LineKeeps ==
  ASSUME Inv5x1, m_layout = "L_5x1", NEW from \in Int, NEW image,
         R5!CopyWithGap \/ R5!CopyFirst, data' = image, aNbLine > 0,
         Around(data, from, dstPt + size - 1, image),
         srcPt' + size' <= from, from = dstPt' + size', from <= dstPt,
         ~(m_type = "DISPATCH" /\ m_xgap % 2 = 1) =>
           \A k \in DOMAIN data : from <= k /\ k < dstPt + size => image[k] = R5!Expected(k)
  PROVE  Walk' /\ R5!SourceIntact' /\ R5!DoneIsRight'
<1>1. Walk /\ R5!SourceIntact /\ R5!DoneIsRight  BY DEF Inv5x1
<1>2. UNCHANGED <<raw, inPlace, m_type, m_xgap>>
  BY DEF R5!CopyWithGap, R5!CopyFirst, R5!params
<1>3. DOMAIN data' = DOMAIN data  BY DEF Around
<1>4. Walk'  BY <1>1, <1>3, WalkKept
<1>5. /\ srcPt \in Int /\ dstPt \in Int /\ size \in Int /\ size >= 1
      /\ srcPt' \in Int /\ dstPt' \in Int /\ size' \in Int /\ N \in Nat /\ N >= 2
  <2>1. srcPt \in Int /\ dstPt \in Int /\ size \in Int /\ size >= 1  BY <1>1, Ahead
  <2>2. srcPt' = srcPt - N /\ size' \in Int /\ N \in Nat /\ N >= 2
    BY NType DEF R5!CopyWithGap, R5!CopyFirst, R5!SizeAfter
  <2>3. dstPt' \in Int
    BY <1>1, <2>1, <2>2 DEF R5!CopyWithGap, R5!CopyFirst, Walk
  <2> QED  BY <2>1, <2>2, <2>3
<1>6. DOMAIN data \subseteq Int  BY <1>1, NType DEF Walk
<1>7. R5!SourceIntact'
  <2> SUFFICES ASSUME inPlace', NEW k \in 0 .. srcPt' + size' - 1 PROVE data'[k] = raw'[k]
    BY DEF R5!SourceIntact
  <2>0. srcPt' = srcPt - N /\ size' <= N
    BY <1>5, NType DEF R5!CopyWithGap, R5!CopyFirst, R5!SizeAfter
  <2>1. /\ k \in Int /\ 0 <= k /\ k < from /\ k < dstPt
        /\ k \in 0 .. srcPt + size - 1
    <3>1. PICK n \in Nat, s \in Int, z \in Int, t \in Int, w \in Int, d \in Int :
            n = N /\ s = srcPt /\ z = size /\ t = srcPt' /\ w = size' /\ d = dstPt
      BY <1>5, Zenon
    <3>2. z >= 1 /\ t = s - n /\ w <= n /\ t + w <= from /\ from <= d
      BY <1>5, <2>0, <3>1, Zenon
    <3>3. k \in 0 .. t + w - 1  BY <3>1, Zenon
    <3>4. k \in Int /\ 0 <= k /\ k < from /\ k < d /\ k \in 0 .. s + z - 1
      BY <3>2, <3>3, LeftToRead
    <3> QED  BY <3>1, <3>4, Zenon
  <2>3. data[k] = raw[k]  BY <1>1, <1>2, <2>1 DEF R5!SourceIntact
  <2>4. k \in DOMAIN data
    <3>1. dstPt + N <= (5 * N + 4 * m_xgap) * N /\ (5 * N + 4 * m_xgap) * N \in Int
      BY <1>1, <1>5, Pointers DEF Walk
    <3> QED  BY <1>1, <1>5, <2>1, <3>1 DEF Walk
  <2> QED  BY <1>2, <2>1, <2>3, <2>4 DEF Around
<1>8. R5!DoneIsRight'
  <2> SUFFICES ASSUME ~(m_type = "DISPATCH" /\ m_xgap % 2 = 1), NEW k \in DOMAIN data, k >= from
               PROVE  image[k] = R5!Expected(k)
    BY <1>2, <1>3, ExpectedStays DEF R5!DoneIsRight, R5!IsDone
  <2>1. CASE k < dstPt + size  BY <2>1
  <2>2. CASE ~(k < dstPt + size)
    <3>1. k >= dstPt + size /\ k > dstPt + size - 1  BY <1>5, <1>6, <2>2
    <3>2. data[k] = R5!Expected(k)  BY <1>1, <3>1 DEF R5!DoneIsRight, R5!IsDone
    <3> QED  BY <3>1, <3>2 DEF Around
  <2> QED  BY <2>1, <2>2
<1> QED  BY <1>4, <1>7, <1>8

\* A chip moved with the gap before it keeps the invariant ...
LEMMA WithGapKeeps ==
  ASSUME Inv5x1, m_layout = "L_5x1", R5!CopyWithGap
  PROVE  Walk' /\ R5!SourceIntact' /\ R5!DoneIsRight'
<1>1. Walk /\ R5!SourceIntact /\ aNbLine > 0 /\ chips > 0  BY DEF Inv5x1, R5!CopyWithGap
<1>2. PICK image : image = R5!GapCopy(R5!Moved)  OBVIOUS
<1>3. data' = image  BY <1>2 DEF R5!CopyWithGap
<1>4. /\ Around(data, First(dstPt), dstPt + size - 1, image)
      /\ \A k \in DOMAIN data :
           dstPt < k /\ k < dstPt + size => image[k] = raw[srcPt + (k - dstPt)]
      /\ ~(m_type = "DISPATCH" /\ m_xgap % 2 = 1) =>
           \A k \in DOMAIN data : First(dstPt) <= k /\ k <= dstPt =>
             image[k] = R5!Across(aNbLine - 1, chips - 1, dstPt - k)
  BY <1>1, <1>2, GapIs
<1>5. /\ srcPt \in Int /\ dstPt \in Int /\ size \in Int /\ size >= 1
      /\ N \in Nat /\ N >= 2 /\ m_xgap \in Nat
  BY <1>1, Ahead, NType DEF Walk
<1>6. dstPt - m_xgap >= srcPt  BY <1>1, Pointers
<1>7. srcPt' = srcPt - N /\ dstPt' = dstPt - (N + m_xgap) /\ size' = R5!SizeAfter
  BY DEF R5!CopyWithGap
<1>8. First(dstPt) \in Int /\ srcPt' + size' <= First(dstPt) /\ First(dstPt) = dstPt' + size'
      /\ First(dstPt) <= dstPt
  BY <1>5, <1>6, <1>7 DEF First, R5!SizeAfter
<1>9. DOMAIN data \subseteq Int  BY <1>1, NType DEF Walk
<1>10. ~(m_type = "DISPATCH" /\ m_xgap % 2 = 1) =>
         \A k \in DOMAIN data : First(dstPt) <= k /\ k < dstPt + size => image[k] = R5!Expected(k)
  <2> SUFFICES ASSUME ~(m_type = "DISPATCH" /\ m_xgap % 2 = 1),
                      NEW k \in DOMAIN data, First(dstPt) <= k, k < dstPt + size
               PROVE  image[k] = R5!Expected(k)
    OBVIOUS
  <2>1. k \in Int  BY <1>9
  <2>2. CASE k <= dstPt  BY <1>1, <1>4, <2>1, <2>2, ExpectedGap
  <2>3. CASE k > dstPt
    <3>1. dstPt <= k /\ k # dstPt /\ dstPt < k  BY <1>5, <2>1, <2>3
    <3> QED  BY <1>1, <1>4, <2>1, <3>1, ExpectedMoved
  <2> QED  BY <1>5, <2>1, <2>2, <2>3
<1> QED  BY <1>1, <1>3, <1>4, <1>8, <1>10, LineKeeps

\* ... and so does the first chip of a line, which has none.
LEMMA FirstKeeps ==
  ASSUME Inv5x1, m_layout = "L_5x1", R5!CopyFirst
  PROVE  Walk' /\ R5!SourceIntact' /\ R5!DoneIsRight'
<1>1. Walk /\ R5!SourceIntact /\ aNbLine > 0 /\ chips = 0  BY DEF Inv5x1, R5!CopyFirst
<1>2. PICK image : image = R5!Moved  OBVIOUS
<1>3. data' = image  BY <1>2 DEF R5!CopyFirst
<1>4. /\ srcPt \in Int /\ dstPt \in Int /\ size \in Int /\ size >= 1 /\ N \in Nat /\ N >= 2
      /\ dstPt >= srcPt
  BY <1>1, Ahead, NType, Pointers
<1>5. DOMAIN data \subseteq Int  BY <1>1, NType DEF Walk
<1>6. DOMAIN image = DOMAIN data
      /\ \A k \in DOMAIN data :
           image[k] = IF dstPt <= k /\ k < dstPt + size THEN raw[srcPt + (k - dstPt)] ELSE data[k]
  BY <1>1, <1>2, LineMoved
<1>7. Around(data, dstPt, dstPt + size - 1, image)  BY <1>4, <1>5, <1>6 DEF Around
<1>8. srcPt' = srcPt - N /\ dstPt' = dstPt - N /\ size' = N  BY DEF R5!CopyFirst
<1>9. srcPt' + size' <= dstPt /\ dstPt = dstPt' + size' /\ dstPt <= dstPt  BY <1>4, <1>8
<1>10. \A k \in DOMAIN data : dstPt <= k /\ k < dstPt + size => image[k] = R5!Expected(k)
  BY <1>1, <1>5, <1>6, ExpectedMoved
<1> QED  BY <1>1, <1>3, <1>4, <1>7, <1>9, <1>10, LineKeeps

\* Before the first move the last pixels of both buffers are pointed at.
LEMMA Inv5x1Init == Init => Inv5x1
<1> SUFFICES ASSUME Init, m_layout = "L_5x1" PROVE Walk /\ R5!SourceIntact /\ R5!DoneIsRight
  BY DEF Inv5x1
<1>1. R5!Init  BY DEF Init, RC!Init
<1>2. N \in Nat /\ N >= 2 /\ XGaps \subseteq Nat /\ Images5x1 \subseteq [0 .. 5 * N * N - 1 -> Nat]
  BY SizeAssumption DEF R5!Assumptions, R5!RawSize, R5!NbChips
<1>3. m_xgap \in Nat /\ inPlace \in BOOLEAN /\ m_type \in R5!Types
      /\ raw \in [0 .. 5 * N * N - 1 -> Nat]
  BY <1>1, <1>2 DEF R5!Init
<1>4. aNbLine = N /\ chips = 4 /\ size = N  BY <1>1 DEF R5!Init, R5!NbChips
<1>5. srcPt = 5 * N * N - N /\ dstPt = (5 * N + 4 * m_xgap) * N - N
  BY <1>1 DEF R5!Init, R5!RawSize, R5!FullSize, R5!Width, R5!NbChips
<1>6. DOMAIN data = 0 .. (5 * N + 4 * m_xgap) * N - 1
  BY <1>1 DEF R5!Init, R5!FullSize, R5!Width, R5!NbChips
<1>7. Walk
  <2>1. srcPt = N * (5 * (N - 1) + 4)  BY <1>2, <1>5
  <2>2. dstPt = (5 * N + 4 * m_xgap) * (N - 1) + 4 * (N + m_xgap)  BY <1>2, <1>3, <1>5
  <2> QED  BY <1>2, <1>3, <1>4, <1>6, <2>1, <2>2 DEF Walk, Steps
<1>8. R5!SourceIntact
  <2> SUFFICES ASSUME inPlace, NEW k \in 0 .. srcPt + size - 1 PROVE data[k] = raw[k]
    BY DEF R5!SourceIntact
  <2>1. 5 * N * N <= (5 * N + 4 * m_xgap) * N
    <3>1. (5 * N + 4 * m_xgap) * N = 5 * N * N + 4 * (m_xgap * N) /\ m_xgap * N >= 0
      BY <1>2, <1>3
    <3>2. m_xgap * N \in Int /\ 5 * N * N \in Int  BY <1>2, <1>3
    <3> QED  BY <3>1, <3>2
  <2>2. 5 * N * N \in Int /\ (5 * N + 4 * m_xgap) * N \in Int  BY <1>2, <1>3
  <2>3. k \in DOMAIN data /\ k < 5 * N * N  BY <1>2, <1>4, <1>5, <1>6, <2>1, <2>2
  <2>4. k < R5!RawSize  BY <2>3 DEF R5!RawSize, R5!NbChips
  <2> QED  BY <1>1, <2>3, <2>4 DEF R5!Init
<1>9. R5!DoneIsRight
  <2>1. \A k \in DOMAIN data : ~R5!IsDone(k)
    <3>1. (5 * N + 4 * m_xgap) * N \in Int  BY <1>2, <1>3
    <3> QED  BY <1>2, <1>4, <1>5, <1>6, <3>1 DEF R5!IsDone
  <2> QED  BY <2>1 DEF R5!DoneIsRight
<1> QED  BY <1>7, <1>8, <1>9

\* The other layouts leave m_layout, and so the invariant, alone.
LEMMA Inv5x1Step == Inv5x1 /\ [Next]_vars => Inv5x1'
<1> SUFFICES ASSUME Inv5x1, [Next]_vars, m_layout' = "L_5x1"
             PROVE  Walk' /\ R5!SourceIntact' /\ R5!DoneIsRight'
  BY DEF Inv5x1
<1>1. m_layout = "L_5x1"
  BY DEF Next, process5x1, process2x2, processPos, vars, RC!Next, RC!TurnChip, RC!LeaveAll,
         RC!PlaceChip, RC!Deliver, RC!params
<1>2. R5!CopyWithGap \/ R5!CopyFirst \/ UNCHANGED vars
  BY <1>1 DEF Next, process5x1, process2x2, processPos, R5!Next
<1>3. CASE UNCHANGED vars
  <2>1. UNCHANGED <<m_type, m_xgap, inPlace, raw, data, srcPt, dstPt, aNbLine, chips, size>>
    BY <1>3 DEF vars, both, only5x1
  <2>2. Walk'  BY <1>1, <2>1 DEF Inv5x1, Walk, Steps, R5!SizeAfter
  <2>3. R5!SourceIntact'  BY <1>1, <2>1 DEF Inv5x1, R5!SourceIntact
  <2>4. R5!DoneIsRight'
    BY <1>1, <2>1, ExpectedStays DEF Inv5x1, R5!DoneIsRight, R5!IsDone
  <2> QED  BY <2>2, <2>3, <2>4
<1> QED  BY <1>1, <1>2, <1>3, WithGapKeeps, FirstKeeps

\* The invariant holds.
LEMMA Inv5x1Holds == Spec => []Inv5x1
BY Inv5x1Init, Inv5x1Step, PTL DEF Spec

\* Whatever part of the 5x1 image is done is right, in place or not, for chips
\* of any size, gaps of any width and frames of any pixels.
THEOREM WidenedIsRight == Spec => []Widened5x1
<1>1. Inv5x1 => Widened5x1  BY DEF Inv5x1, Widened5x1
<1> QED  BY <1>1, Inv5x1Holds, PTL

\* In place no pixel is overwritten that is still to be read, and both pointers
\* end at the first pixel.
THEOREM WalkNeverOverruns == Spec => []WalkIsSafe5x1
<1>1. ASSUME Inv5x1 PROVE WalkIsSafe5x1
  <2> SUFFICES ASSUME m_layout = "L_5x1" PROVE R5!EndsAtStart
    BY <1>1 DEF Inv5x1, WalkIsSafe5x1
  <2>1. Walk  BY <1>1 DEF Inv5x1
  <2>2. aNbLine \in 0 .. N /\ N \in Nat /\ N >= 2 /\ srcPt \in Int /\ dstPt \in Int /\ m_xgap \in Nat
    BY <2>1, NType, Ahead DEF Walk
  <2>3. CASE aNbLine = 0
    <3>1. srcPt = N * (-1) /\ dstPt = (5 * N + 4 * m_xgap) * (-1) + 4 * (N + m_xgap)
      BY <2>1, <2>3 DEF Walk, Steps
    <3>2. srcPt = -N /\ dstPt = -N  BY <2>2, <3>1
    <3> QED  BY <2>2, <2>3, <3>2 DEF R5!EndsAtStart
  <2>4. CASE aNbLine # 0
    <3>1. aNbLine > 0  BY <2>2, <2>4
    <3>2. dstPt >= 0 /\ srcPt >= 0 /\ dstPt >= srcPt  BY <2>1, <3>1, Pointers
    <3> QED  BY <2>2, <2>4, <3>2 DEF R5!EndsAtStart
  <2> QED  BY <2>3, <2>4
<1> QED  BY <1>1, Inv5x1Holds, PTL

-----------------------------------------------------------------------------
(***************************************************************************)
(* The layouts given by positions.                                         *)
(***************************************************************************)
\* A chip has a column at least.
LEMMA NPos == N \in Nat /\ N >= 1 /\ Positions \subseteq Seq(RC!Position) \ {<<>>}
BY SizeAssumption DEF RC!Assumptions

\* A number is in one way a multiple of n and a rest.
LEMMA OneWay ==
  ASSUME NEW n \in Nat, n > 0, NEW q \in Int, NEW r \in Int, 0 <= r, r < n,
         NEW s \in Int, NEW t \in Int, 0 <= t, t < n, n * q + r = n * s + t
  PROVE  q = s /\ r = t
BY DivIs

\* A product with a factor below its bound.
LEMMA InProduct ==
  ASSUME NEW n \in Nat, NEW m \in Nat, NEW q \in 0 .. m - 1, NEW r \in 0 .. n - 1
  PROVE  n * q + r \in 0 .. n * m - 1
<1>1. n * q >= 0 /\ n * q \in Int  OBVIOUS
<1>2. n * (m - 1 - q) >= 0 /\ n * (m - 1 - q) \in Int  OBVIOUS
<1>3. n * (m - 1 - q) = n * m - n - n * q /\ n * m \in Int  OBVIOUS
<1> QED  BY <1>1, <1>2, <1>3

\* The number of chips, and the pixels of one.
LEMMA Chips ==
  ASSUME m_chips_position \in Positions
  PROVE  /\ RC!nb_chips \in Nat /\ RC!nb_chips >= 1
         /\ \A i \in 1 .. RC!nb_chips : m_chips_position[i] \in RC!Position
BY NPos DEF RC!nb_chips

\* The pixel of the frame that is at p in chip i, as two rests.
LEMMA ReadOutIs ==
  ASSUME NEW m \in Nat, m = RC!nb_chips, NEW i \in Int, NEW p \in RC!Cells
  PROVE  /\ p[1] \in 0 .. N - 1 /\ p[2] \in 0 .. N - 1 /\ p = <<p[1], p[2]>>
         /\ RC!ReadOut(i, p) = N * (m * p[1] + i) + p[2]
<1>1. p[1] \in 0 .. N - 1 /\ p[2] \in 0 .. N - 1 /\ p = <<p[1], p[2]>>
  BY DEF RC!Cells
<1>2. ASSUME NEW a \in Int, NEW b \in Int, NEW n \in Int
      PROVE  i * n + a * m * n + b = n * (m * a + i) + b
  OBVIOUS
<1>3. N \in Int /\ p[1] \in Int /\ p[2] \in Int  BY <1>1, NPos
<1> QED  BY <1>1, <1>2, <1>3 DEF RC!ReadOut

\* Each pixel of the frame is in one chip, at one place.
LEMMA ReadOutOnce ==
  ASSUME m_chips_position \in Positions,
         NEW i \in 0 .. RC!nb_chips - 1, NEW j \in 0 .. RC!nb_chips - 1,
         NEW p \in RC!Cells, NEW q \in RC!Cells, RC!ReadOut(i, p) = RC!ReadOut(j, q)
  PROVE  i = j /\ p = q
<1>1. PICK m \in Nat : m = RC!nb_chips /\ m >= 1  BY Chips
<1>2. i \in 0 .. m - 1 /\ j \in 0 .. m - 1  BY <1>1
<1>3. /\ p[1] \in 0 .. N - 1 /\ p[2] \in 0 .. N - 1 /\ p = <<p[1], p[2]>>
      /\ q[1] \in 0 .. N - 1 /\ q[2] \in 0 .. N - 1 /\ q = <<q[1], q[2]>>
      /\ N * (m * p[1] + i) + p[2] = N * (m * q[1] + j) + q[2]
  BY <1>1, <1>2, ReadOutIs
<1>4. PICK n \in Nat, p1 \in Int, p2 \in Int, q1 \in Int, q2 \in Int :
        n = N /\ p1 = p[1] /\ p2 = p[2] /\ q1 = q[1] /\ q2 = q[2]
  <2>1. N \in Nat /\ p[1] \in Int /\ p[2] \in Int /\ q[1] \in Int /\ q[2] \in Int
    BY <1>3, NPos
  <2> QED  BY <2>1
<1>5. n > 0 /\ 0 <= p2 /\ p2 < n /\ 0 <= q2 /\ q2 < n
  <2>1. N \in Nat /\ N >= 1 /\ p[2] \in 0 .. N - 1 /\ q[2] \in 0 .. N - 1  BY <1>3, NPos
  <2> QED  BY <1>4, <2>1
<1>6. PICK a \in Int, b \in Int : a = m * p1 + i /\ b = m * q1 + j
  BY <1>2
<1>7. n * a + p2 = n * b + q2  BY <1>3, <1>4, <1>6
<1>8. a = b /\ p2 = q2  BY <1>5, <1>7, OneWay
<1>9. m * p1 + i = m * q1 + j  BY <1>6, <1>8
<1>10. p1 = q1 /\ i = j
  <2>1. m > 0 /\ 0 <= i /\ i < m /\ 0 <= j /\ j < m /\ i \in Int /\ j \in Int  BY <1>1, <1>2
  <2> QED  BY <1>9, <2>1, OneWay
<1> QED  BY <1>3, <1>4, <1>8, <1>10

\* It is a pixel of the frame.
LEMMA ReadOutIn ==
  ASSUME m_chips_position \in Positions, NEW i \in 0 .. RC!nb_chips - 1, NEW p \in RC!Cells
  PROVE  RC!ReadOut(i, p) \in 0 .. RC!RawSize - 1
<1>1. PICK m \in Nat : m = RC!nb_chips /\ m >= 1  BY Chips
<1>2. i \in 0 .. m - 1  BY <1>1
<1>3. p[1] \in 0 .. N - 1 /\ p[2] \in 0 .. N - 1 /\ RC!ReadOut(i, p) = N * (m * p[1] + i) + p[2]
  BY <1>1, <1>2, ReadOutIs
<1>4. m * p[1] + i \in 0 .. m * N - 1  BY <1>1, <1>2, <1>3, NPos, InProduct
<1>5. m * N \in Nat  BY NPos
<1>6. N * (m * p[1] + i) + p[2] \in 0 .. N * (m * N) - 1  BY <1>3, <1>4, <1>5, NPos, InProduct
<1>7. N * (m * N) = m * N * N  BY NPos
<1> QED  BY <1>1, <1>3, <1>6, <1>7 DEF RC!RawSize

\* A quarter turn, and two and three of them.
LEMMA TurnedIs ==
  ASSUME NEW l \in 0 .. N - 1, NEW c \in 0 .. N - 1
  PROVE  /\ RC!Turned("Rotation_0", <<l, c>>) = <<l, c>>
         /\ RC!Turned("Rotation_90", <<l, c>>) = <<N - 1 - c, l>>
         /\ RC!Turned("Rotation_180", <<l, c>>) = <<N - 1 - l, N - 1 - c>>
         /\ RC!Turned("Rotation_270", <<l, c>>) = <<c, N - 1 - l>>
<1>1. ASSUME NEW a \in 0 .. N - 1, NEW b \in 0 .. N - 1
      PROVE  /\ RC!QuarterTurn[<<a, b>>] = <<N - 1 - b, a>>
             /\ N - 1 - b \in 0 .. N - 1
  <2>1. <<a, b>> \in RC!Cells  BY DEF RC!Cells
  <2> QED  BY <2>1, NPos DEF RC!QuarterTurn
<1>2. RC!QuarterTurn[<<l, c>>] = <<N - 1 - c, l>> /\ N - 1 - c \in 0 .. N - 1  BY <1>1
<1>3. RC!QuarterTurn[<<N - 1 - c, l>>] = <<N - 1 - l, N - 1 - c>> /\ N - 1 - l \in 0 .. N - 1
  BY <1>1, <1>2
<1>4. RC!QuarterTurn[<<N - 1 - l, N - 1 - c>>] = <<N - 1 - (N - 1 - c), N - 1 - l>>
  BY <1>1, <1>2, <1>3
<1>5. N - 1 - (N - 1 - c) = c  BY NPos
<1> QED  BY <1>2, <1>3, <1>4, <1>5 DEF RC!Turned

\* A chip turned has its pixels in the chip.
LEMMA TurnedIn ==
  ASSUME NEW rot \in {"Rotation_0", "Rotation_90", "Rotation_180", "Rotation_270"},
         NEW p \in RC!Cells
  PROVE  RC!Turned(rot, p) \in RC!Cells
<1>1. PICK l \in 0 .. N - 1, c \in 0 .. N - 1 : p = <<l, c>>  BY DEF RC!Cells
<1>2. N - 1 - l \in 0 .. N - 1 /\ N - 1 - c \in 0 .. N - 1  BY NPos
<1> QED  BY <1>1, <1>2, TurnedIs DEF RC!Cells

\* What a chip written leaves.
LEMMA WrittenIs ==
  ASSUME NEW b, NEW at, NEW v,
         \A p, q \in RC!Cells : at[p] = at[q] => p = q
  PROVE  /\ DOMAIN RC!Written(b, at, v) = DOMAIN b
         /\ \A p \in RC!Cells : at[p] \in DOMAIN b => RC!Written(b, at, v)[at[p]] = v[p]
         /\ \A k \in DOMAIN b : (\A p \in RC!Cells : at[p] # k) => RC!Written(b, at, v)[k] = b[k]
<1>1. DOMAIN RC!Written(b, at, v) = DOMAIN b  BY DEF RC!Written
<1>2. ASSUME NEW p \in RC!Cells, at[p] \in DOMAIN b PROVE RC!Written(b, at, v)[at[p]] = v[p]
  <2> DEFINE here == {q \in RC!Cells : at[q] = at[p]}
  <2>1. here = {p}  OBVIOUS
  <2>2. (CHOOSE q \in here : TRUE) = p  BY <2>1
  <2>3. RC!Written(b, at, v)[at[p]] = IF here = {} THEN b[at[p]] ELSE v[CHOOSE q \in here : TRUE]
    BY <1>2 DEF RC!Written
  <2> HIDE DEF here
  <2> QED  BY <2>1, <2>2, <2>3
<1>3. ASSUME NEW k \in DOMAIN b, \A p \in RC!Cells : at[p] # k
      PROVE  RC!Written(b, at, v)[k] = b[k]
  <2>1. {p \in RC!Cells : at[p] = k} = {}  BY <1>3
  <2> QED  BY <2>1 DEF RC!Written
<1> QED  BY <1>1, <1>2, <1>3

-----------------------------------------------------------------------------
(***************************************************************************)
(* L_FREE.                                                                 *)
(***************************************************************************)
\* The chips, and the frame that is being turned.
FreeInv ==
  m_layout = "L_FREE" =>
    /\ m_chips_position \in Positions /\ inPlace \in BOOLEAN
    /\ chip \in 0 .. RC!nb_chips
    /\ DOMAIN data = 0 .. RC!RawSize - 1
    /\ RC!TurnedInPlace

\* The walk over the copy of a chip finds at p the pixel that p shows when the
\* chip is turned.
LEMMA SourceIs ==
  ASSUME NEW i \in Int, NEW rot \in {"Rotation_90", "Rotation_180", "Rotation_270"},
         NEW p \in RC!Cells
  PROVE  RC!Copied(i)[RC!Source(rot, p[1], p[2])] = data[RC!ReadOut(i, RC!Turned(rot, p))]
<1>1. PICK l \in 0 .. N - 1, c \in 0 .. N - 1 : p = <<l, c>>  BY DEF RC!Cells
<1>2. PICK q : q = RC!Turned(rot, p)  OBVIOUS
<1>3. q \in RC!Cells  BY <1>2, TurnedIn
<1>4. q[1] \in 0 .. N - 1 /\ q[2] \in 0 .. N - 1  BY <1>3 DEF RC!Cells
<1>5. PICK a \in Int, b \in Int, n \in Nat : a = q[1] /\ b = q[2] /\ n = N
  BY <1>4, NPos
<1>6. RC!Source(rot, l, c) = n * a + b
  <2>0. N = n /\ n >= 1 /\ l \in Int /\ c \in Int  BY <1>5, NPos
  <2>1. CASE rot = "Rotation_90"
    <3>0. q = <<N - 1 - c, l>>  BY <1>1, <1>2, <2>1, TurnedIs
    <3>1. a = n - 1 - c /\ b = l  BY <1>5, <3>0
    <3>2. RC!Source(rot, l, c) = (n - 1) * n + l - c * n  BY <1>5, <2>1 DEF RC!Source
    <3>3. n * (n - 1 - c) + l = (n - 1) * n + l - c * n  BY <2>0
    <3> QED  BY <3>1, <3>2, <3>3
  <2>2. CASE rot = "Rotation_180"
    <3>0. q = <<N - 1 - l, N - 1 - c>>  BY <1>1, <1>2, <2>2, TurnedIs
    <3>1. a = n - 1 - l /\ b = n - 1 - c  BY <1>5, <3>0
    <3>2. RC!Source(rot, l, c) = (n - l) * n - 1 - c  BY <1>5, <2>2 DEF RC!Source
    <3>3. n * (n - 1 - l) + (n - 1 - c) = (n - l) * n - 1 - c  BY <2>0
    <3> QED  BY <3>1, <3>2, <3>3
  <2>3. CASE rot = "Rotation_270"
    <3>0. q = <<c, N - 1 - l>>  BY <1>1, <1>2, <2>3, TurnedIs
    <3>1. a = c /\ b = n - 1 - l  BY <1>5, <3>0
    <3>2. RC!Source(rot, l, c) = (n - 1) - l + c * n  BY <1>5, <2>3 DEF RC!Source
    <3>3. n * c + (n - 1 - l) = (n - 1) - l + c * n  BY <2>0
    <3> QED  BY <3>1, <3>2, <3>3
  <2> QED  BY <2>1, <2>2, <2>3
<1>7. n > 0 /\ 0 <= a /\ a <= n - 1 /\ 0 <= b /\ b < n  BY <1>4, <1>5, NPos
<1>8. PICK k \in Int : k = n * a + b  OBVIOUS
<1>9. k \div n = a /\ k % n = b  BY <1>7, <1>8, DivIs
<1>10. k \in 0 .. N * N - 1
  <2>1. a \in 0 .. n - 1 /\ b \in 0 .. n - 1  BY <1>7
  <2> QED  BY <1>5, <1>8, <2>1, InProduct
<1>11. RC!Copied(i)[k] = data[i * N + (k \div N) * RC!nb_chips * N + (k % N)]
  BY <1>10 DEF RC!Copied
<1> QED  BY <1>1, <1>2, <1>5, <1>6, <1>8, <1>9, <1>11 DEF RC!ReadOut

\* A chip turned through its copy is turned, and the others are as they were.
LEMMA TurnChipKeeps == FreeInv /\ m_layout = "L_FREE" /\ RC!TurnChip => FreeInv'
<1> SUFFICES ASSUME FreeInv, m_layout = "L_FREE", RC!TurnChip PROVE FreeInv'
  OBVIOUS
<1>1. /\ m_chips_position \in Positions /\ inPlace /\ chip \in 0 .. RC!nb_chips - 1
      /\ DOMAIN data = 0 .. RC!RawSize - 1 /\ RC!TurnedInPlace
  <2>1. RC!nb_chips \in Nat /\ m_chips_position \in Positions  BY Chips DEF FreeInv
  <2> QED  BY <2>1 DEF FreeInv, RC!TurnChip
<1>2. /\ UNCHANGED <<m_layout, inPlace, m_chips_position>> /\ chip' = chip + 1
      /\ RC!nb_chips' = RC!nb_chips /\ RC!RawSize' = RC!RawSize
  BY DEF RC!TurnChip, RC!params, RC!nb_chips, RC!RawSize
<1>3. RC!nb_chips \in Nat /\ chip \in Int  BY <1>1, Chips
<1> DEFINE rot == m_chips_position[chip + 1].rot
           was(i, p) == 1 + RC!ReadOut(i, IF i < chip THEN RC!Turned(m_chips_position[i + 1].rot, p) ELSE p)
           will(i, p) == 1 + RC!ReadOut(i, IF i < chip + 1 THEN RC!Turned(m_chips_position[i + 1].rot, p) ELSE p)
<1>4. rot \in {"Rotation_0", "Rotation_90", "Rotation_180", "Rotation_270"}
  <2>1. chip + 1 \in 1 .. RC!nb_chips  BY <1>1, <1>3
  <2>2. m_chips_position[chip + 1] \in RC!Position  BY <1>1, <2>1, Chips
  <2> QED  BY <2>2 DEF RC!Position
<1>5. \A i \in 0 .. RC!nb_chips - 1, p \in RC!Cells : data[RC!ReadOut(i, p)] = was(i, p)
  BY <1>1 DEF RC!TurnedInPlace
<1>6. /\ DOMAIN data' = DOMAIN data
      /\ \A p \in RC!Cells : data'[RC!ReadOut(chip, p)] = data[RC!ReadOut(chip, RC!Turned(rot, p))]
      /\ \A k \in DOMAIN data : (\A p \in RC!Cells : RC!ReadOut(chip, p) # k) => data'[k] = data[k]
  <2>1. CASE rot = "Rotation_0"
    <3>1. data' = data  BY <2>1 DEF RC!TurnChip
    <3>2. \A p \in RC!Cells : RC!Turned(rot, p) = p  BY <2>1 DEF RC!Turned
    <3> QED  BY <3>1, <3>2
  <2>2. CASE rot # "Rotation_0"
    <3> DEFINE at == [p \in RC!Cells |-> chip * N + p[1] * RC!nb_chips * N + p[2]]
               v  == [p \in RC!Cells |-> RC!Copied(chip)[RC!Source(rot, p[1], p[2])]]
    <3>1. data' = RC!Written(data, at, v)  BY <2>2 DEF RC!TurnChip
    <3>2. \A p \in RC!Cells : at[p] = RC!ReadOut(chip, p)  BY DEF RC!ReadOut
    <3>3. \A p \in RC!Cells : v[p] = data[RC!ReadOut(chip, RC!Turned(rot, p))]
      BY <1>3, <1>4, <2>2, SourceIs
    <3> HIDE DEF at, v
    <3>4. \A p, q \in RC!Cells : at[p] = at[q] => p = q  BY <1>1, <3>2, ReadOutOnce
    <3>5. \A p \in RC!Cells : at[p] \in DOMAIN data  BY <1>1, <3>2, ReadOutIn
    <3>6. /\ DOMAIN RC!Written(data, at, v) = DOMAIN data
          /\ \A p \in RC!Cells : at[p] \in DOMAIN data => RC!Written(data, at, v)[at[p]] = v[p]
          /\ \A k \in DOMAIN data : (\A p \in RC!Cells : at[p] # k)
                                       => RC!Written(data, at, v)[k] = data[k]
      BY <3>4, WrittenIs
    <3> QED  BY <3>1, <3>2, <3>3, <3>5, <3>6
  <2> QED  BY <2>1, <2>2
<1>7. ASSUME NEW i \in 0 .. RC!nb_chips - 1, NEW p \in RC!Cells
      PROVE  data'[RC!ReadOut(i, p)] = will(i, p)
  <2>1. CASE i = chip
    <3>1. RC!Turned(rot, p) \in RC!Cells  BY <1>4, TurnedIn
    <3>2. data[RC!ReadOut(chip, RC!Turned(rot, p))] = 1 + RC!ReadOut(chip, RC!Turned(rot, p))
      <4>1. ~(chip < chip)  BY <1>3
      <4> QED  BY <1>1, <1>5, <3>1, <4>1
    <3>3. chip < chip + 1  BY <1>3
    <3> QED  BY <1>6, <2>1, <3>2, <3>3
  <2>2. CASE i # chip
    <3>1. \A q \in RC!Cells : RC!ReadOut(chip, q) # RC!ReadOut(i, p)
      BY <1>1, <2>2, ReadOutOnce
    <3>2. RC!ReadOut(i, p) \in DOMAIN data  BY <1>1, ReadOutIn
    <3>3. data'[RC!ReadOut(i, p)] = was(i, p)  BY <1>5, <1>6, <3>1, <3>2
    <3>4. (i < chip) <=> (i < chip + 1)  BY <1>3, <2>2
    <3> QED  BY <3>3, <3>4
  <2> QED  BY <2>1, <2>2
<1>8. RC!TurnedInPlace'
  <2>1. \A i \in 0 .. RC!nb_chips - 1, p \in RC!Cells :
          data'[RC!ReadOut(i, p)] =
            1 + RC!ReadOut(i, IF i < chip' THEN RC!Turned(m_chips_position'[i + 1].rot, p) ELSE p)
    BY <1>2, <1>7
  <2>2. \A i, p : RC!ReadOut(i, p)' = RC!ReadOut(i, p)
    BY <1>2 DEF RC!ReadOut
  <2> QED  BY <1>2, <2>1, <2>2 DEF RC!TurnedInPlace, RC!ReadOut
<1>9. chip' \in 0 .. RC!nb_chips  BY <1>1, <1>2, <1>3
<1> QED  BY <1>1, <1>2, <1>6, <1>8, <1>9 DEF FreeInv

\* The step taken is of the positions.
LEMMA StepOfChips ==
  ASSUME [Next]_vars, m_layout' \in {"L_FREE", "L_GENERAL"}
  PROVE  /\ m_layout' = m_layout
         /\ \/ RC!Next
            \/ UNCHANGED <<m_layout, inPlace, m_chips_position, data, new, chip, delivered>>
<1>1. m_layout' = m_layout
  BY DEF Next, process5x1, process2x2, processPos, vars, RC!Next, RC!TurnChip, RC!LeaveAll,
         RC!PlaceChip, RC!Deliver, RC!params
<1> QED  BY <1>1 DEF Next, process5x1, process2x2, processPos, vars, onlyPos

\* The frame read out has the size of the image, and each of its pixels.
LEMMA FreeInit == Init => FreeInv
<1> SUFFICES ASSUME Init, m_layout = "L_FREE" PROVE FreeInv
  BY DEF FreeInv
<1>1. RC!Init  BY DEF Init
<1>2. m_chips_position \in Positions /\ inPlace \in BOOLEAN /\ chip = 0
  BY <1>1 DEF RC!Init
<1>3. PICK m \in Nat : m = RC!nb_chips /\ m >= 1  BY <1>2, Chips
<1>4. RC!Frame = 0 .. RC!RawSize - 1
  <2>1. RC!Width = m * N /\ RC!Height = N /\ RC!RawSize = m * N * N
    BY <1>3 DEF RC!Width, RC!Height, RC!RawSize
  <2> QED  BY <2>1 DEF RC!Frame
<1>5. data = [k \in 0 .. RC!RawSize - 1 |-> k + 1]  BY <1>1, <1>4 DEF RC!Init
<1>6. \A i \in 0 .. RC!nb_chips - 1, p \in RC!Cells :
        data[RC!ReadOut(i, p)] = 1 + RC!ReadOut(i, p)
  BY <1>2, <1>5, ReadOutIn
<1>7. \A i \in 0 .. RC!nb_chips - 1 : ~(i < chip)  BY <1>2, <1>3
<1>8. RC!TurnedInPlace  BY <1>6, <1>7 DEF RC!TurnedInPlace
<1> QED  BY <1>2, <1>3, <1>5, <1>8 DEF FreeInv

\* L_FREE takes no other step that changes the frame in place.
LEMMA FreeStep == FreeInv /\ [Next]_vars => FreeInv'
<1> SUFFICES ASSUME FreeInv, [Next]_vars, m_layout' = "L_FREE" PROVE FreeInv'
  BY DEF FreeInv
<1>1. /\ m_layout = "L_FREE"
      /\ \/ RC!TurnChip \/ RC!LeaveAll \/ RC!Deliver
         \/ UNCHANGED <<m_layout, inPlace, m_chips_position, data, new, chip, delivered>>
  BY StepOfChips DEF RC!Next, RC!PlaceChip
<1>2. CASE RC!TurnChip  BY <1>1, <1>2, TurnChipKeeps
<1>3. CASE RC!LeaveAll
  <2>1. UNCHANGED <<m_layout, inPlace, m_chips_position, data>> /\ ~inPlace /\ chip' = RC!nb_chips
    BY <1>3 DEF RC!LeaveAll, RC!params
  <2>2. RC!nb_chips' = RC!nb_chips /\ RC!RawSize' = RC!RawSize
    BY <2>1 DEF RC!nb_chips, RC!RawSize
  <2>3. m_chips_position \in Positions /\ RC!nb_chips \in Nat  BY <1>1, Chips DEF FreeInv
  <2>4. chip' \in 0 .. RC!nb_chips  BY <2>1, <2>3
  <2> QED  BY <1>1, <2>1, <2>2, <2>4 DEF FreeInv, RC!TurnedInPlace
<1>4. CASE UNCHANGED <<m_layout, inPlace, m_chips_position, data, chip>>
  <2>1. RC!nb_chips' = RC!nb_chips /\ RC!RawSize' = RC!RawSize
    BY <1>4 DEF RC!nb_chips, RC!RawSize
  <2>2. \A i, p : RC!ReadOut(i, p)' = RC!ReadOut(i, p)  BY <2>1 DEF RC!ReadOut
  <2>3. RC!TurnedInPlace'
    BY <1>1, <1>4, <2>1, <2>2 DEF FreeInv, RC!TurnedInPlace, RC!ReadOut
  <2> QED  BY <1>1, <1>4, <2>1, <2>3 DEF FreeInv
<1>5. CASE RC!Deliver
  <2>1. UNCHANGED <<m_layout, inPlace, m_chips_position, data, chip>>
    BY <1>1, <1>5 DEF RC!Deliver, RC!params
  <2> QED  BY <1>4, <2>1
<1> QED  BY <1>1, <1>2, <1>3, <1>4, <1>5

\* The invariant holds.
LEMMA FreeHolds == Spec => []FreeInv
BY FreeInit, FreeStep, PTL DEF Spec

\* L_FREE turns each chip in place by the angle of its position, through a
\* buffer of one chip, and disturbs no other chip.
THEOREM ChipsTurnInPlace == Spec => []TurnedInPlace
<1>1. FreeInv => TurnedInPlace  BY DEF FreeInv, TurnedInPlace
<1> QED  BY <1>1, FreeHolds, PTL

-----------------------------------------------------------------------------
(***************************************************************************)
(* L_GENERAL.                                                              *)
(***************************************************************************)
\* Of the numbers 1 .. n of a sequence some is the greatest.
LEMMA GreatestExists ==
  ASSUME NEW n \in Nat, n >= 1, NEW f, \A i \in 1 .. n : f[i] \in Nat
  PROVE  \E i \in 1 .. n : \A j \in 1 .. n : f[j] <= f[i]
<1> DEFINE Best(k) == \E i \in 1 .. k : \A j \in 1 .. k : f[j] <= f[i]
           bad == {k \in 1 .. n : ~Best(k)}
<1>1. SUFFICES ASSUME bad # {} PROVE FALSE  OBVIOUS
<1>2. bad \subseteq Nat  OBVIOUS
<1>3. PICK k \in bad : \A m \in bad : ~(m < k)
  <2> HIDE DEF bad
  <2>1. PICK k \in bad : \A m \in bad : <<m, k>> \notin OpToRel(<, Nat)
    BY <1>1, <1>2, WFMin, NatLessThanWellFounded
  <2>2. \A m \in bad : m < k => <<m, k>> \in OpToRel(<, Nat)  BY <1>2 DEF OpToRel
  <2> QED  BY <2>1, <2>2
<1>4. k \in 1 .. n /\ ~Best(k)  OBVIOUS
<1>5. k # 1
  <2>1. Best(1)
    <3>1. f[1] <= f[1]  OBVIOUS
    <3>2. \A j \in 1 .. 1 : j = 1  OBVIOUS
    <3> QED  BY <3>1, <3>2
  <2> QED  BY <1>4, <2>1
<1>6. k - 1 \in 1 .. n /\ k - 1 < k  BY <1>4, <1>5
<1>7. Best(k - 1)  BY <1>3, <1>6
<1>8. PICK i \in 1 .. k - 1 : \A j \in 1 .. k - 1 : f[j] <= f[i]  BY <1>7
<1>9. i \in 1 .. k /\ k \in 1 .. k /\ f[i] \in Nat /\ f[k] \in Nat  BY <1>4, <1>6, <1>8
<1>10. \A j \in 1 .. k : j \in 1 .. k - 1 \/ j = k  BY <1>4
<1>11. CASE f[k] <= f[i]
  <2>1. \A j \in 1 .. k : f[j] <= f[i]  BY <1>8, <1>10, <1>11
  <2> QED  BY <1>4, <1>9, <2>1
<1>12. CASE f[i] <= f[k]
  <2>1. \A j \in 1 .. k : f[j] \in Nat  BY <1>4
  <2>2. \A j \in 1 .. k : f[j] <= f[k]  BY <1>8, <1>9, <1>10, <1>12, <2>1
  <2> QED  BY <1>4, <1>9, <2>2
<1> QED  BY <1>9, <1>11, <1>12

\* The span of numbers of which one is 0.
LEMMA SpanIs ==
  ASSUME NEW n \in Nat, n >= 1, NEW f, \A i \in 1 .. n : f[i] \in Nat,
         \E i \in 1 .. n : f[i] = 0
  PROVE  LET S == {f[i] : i \in 1 .. n}
         IN /\ RC!Max(S) + N - RC!Min(S) \in Nat
            /\ \A i \in 1 .. n : f[i] + N <= RC!Max(S) + N - RC!Min(S)
<1> DEFINE S == {f[i] : i \in 1 .. n}
<1>1. PICK i \in 1 .. n : \A j \in 1 .. n : f[j] <= f[i]  BY GreatestExists
<1>2. f[i] \in S /\ \A x \in S : f[i] >= x  BY <1>1
<1>3. RC!Max(S) \in S /\ \A x \in S : RC!Max(S) >= x  BY <1>2 DEF RC!Max
<1>4. 0 \in S /\ S \subseteq Nat  OBVIOUS
<1>5. RC!Min(S) \in S /\ \A x \in S : RC!Min(S) <= x  BY <1>4 DEF RC!Min
<1>6. RC!Min(S) = 0
  <2> HIDE DEF S
  <2>1. PICK low \in Nat : low = RC!Min(S)  BY <1>4, <1>5
  <2>2. low <= 0  BY <1>4, <1>5, <2>1
  <2>3. low = 0  BY <2>2
  <2> QED  BY <2>1, <2>3
<1>7. \A j \in 1 .. n : f[j] \in S  OBVIOUS
<1> HIDE DEF S
<1>8. RC!Max(S) \in Nat  BY <1>3, <1>4
<1>9. \A j \in 1 .. n : f[j] + N <= RC!Max(S) + N - RC!Min(S)
  <2> TAKE j \in 1 .. n
  <2>1. f[j] <= RC!Max(S) /\ f[j] \in Nat  BY <1>3, <1>7
  <2> QED  BY <1>6, <1>8, <2>1, NPos
<1>10. RC!Max(S) + N - RC!Min(S) \in Nat  BY <1>6, <1>8, NPos
<1> QED  BY <1>9, <1>10 DEF S

\* The image has room for every chip.
LEMMA ImageHolds ==
  ASSUME RC!OnDetector, m_layout = "L_GENERAL", m_chips_position \in Positions
  PROVE  /\ RC!Width \in Nat /\ RC!Height \in Nat
         /\ \A i \in 1 .. RC!nb_chips :
              /\ m_chips_position[i].x \in Nat /\ m_chips_position[i].x + N <= RC!Width
              /\ m_chips_position[i].y \in Nat /\ m_chips_position[i].y + N <= RC!Height
<1>1. PICK n \in Nat : n = RC!nb_chips /\ n >= 1  BY Chips
<1>2. \A i \in 1 .. n : m_chips_position[i].x \in Nat /\ m_chips_position[i].y \in Nat
  BY <1>1, Chips DEF RC!Position
<1>3. DOMAIN m_chips_position = 1 .. n  BY <1>1, NPos DEF RC!nb_chips
<1> DEFINE fx == [i \in 1 .. n |-> m_chips_position[i].x]
           fy == [i \in 1 .. n |-> m_chips_position[i].y]
<1>4. /\ \A i \in 1 .. n : fx[i] \in Nat /\ fy[i] \in Nat
      /\ \E i \in 1 .. n : fx[i] = 0
      /\ \E i \in 1 .. n : fy[i] = 0
  BY <1>2, <1>3 DEF RC!OnDetector
<1>5. {m_chips_position[i].x : i \in 1 .. n} = {fx[i] : i \in 1 .. n}  OBVIOUS
<1>6. {m_chips_position[i].y : i \in 1 .. n} = {fy[i] : i \in 1 .. n}  OBVIOUS
<1>7. \A i \in 1 .. n : fx[i] = m_chips_position[i].x /\ fy[i] = m_chips_position[i].y  OBVIOUS
<1> HIDE DEF fx, fy
<1>8. RC!Width = RC!Max({fx[i] : i \in 1 .. n}) + N - RC!Min({fx[i] : i \in 1 .. n})
  BY <1>1, <1>5 DEF RC!Width
<1>9. RC!Height = RC!Max({fy[i] : i \in 1 .. n}) + N - RC!Min({fy[i] : i \in 1 .. n})
  BY <1>1, <1>6 DEF RC!Height
<1>10. RC!Width \in Nat /\ \A i \in 1 .. n : fx[i] + N <= RC!Width  BY <1>1, <1>4, <1>8, SpanIs
<1>11. RC!Height \in Nat /\ \A i \in 1 .. n : fy[i] + N <= RC!Height  BY <1>1, <1>4, <1>9, SpanIs
<1> QED  BY <1>1, <1>2, <1>7, <1>10, <1>11

\* Where the pixel p of chip i is in the image.
PlaceOf(i, p) ==
  (m_chips_position[i + 1].y + p[1]) * RC!Width + m_chips_position[i + 1].x + p[2]

\* A pixel of a chip whose rectangle is in the image.
LEMMA InImage ==
  ASSUME NEW n \in Nat, n >= 1, NEW w \in Nat, NEW h \in Nat, NEW x \in Nat, NEW y \in Nat,
         x + n <= w, y + n <= h, NEW a \in 0 .. n - 1, NEW b \in 0 .. n - 1
  PROVE  (y + a) * w + x + b \in 0 .. w * h - 1
<1>1. x + b \in 0 .. w - 1 /\ y + a \in 0 .. h - 1  OBVIOUS
<1>2. PICK c \in 0 .. w - 1, l \in 0 .. h - 1 : c = x + b /\ l = y + a  BY <1>1
<1>3. w * l + c \in 0 .. w * h - 1  BY InProduct
<1>4. w * l \in Int /\ l * w = w * l  OBVIOUS
<1> QED  BY <1>2, <1>3, <1>4

\* Two pixels of rectangles in the image with one place are one pixel, so the
\* rectangles are not apart.
LEMMA OnceInImage ==
  ASSUME NEW n \in Nat, n >= 1, NEW w \in Nat,
         NEW x \in Nat, NEW y \in Nat, NEW a \in 0 .. n - 1, NEW b \in 0 .. n - 1, x + n <= w,
         NEW u \in Nat, NEW v \in Nat, NEW c \in 0 .. n - 1, NEW d \in 0 .. n - 1, u + n <= w,
         (y + a) * w + x + b = (v + c) * w + u + d
  PROVE  /\ y + a = v + c /\ x + b = u + d
         /\ ~(x + n <= u \/ u + n <= x \/ y + n <= v \/ v + n <= y)
<1>1. PICK r \in Int, s \in Int, g \in Int, k \in Int :
        r = x + b /\ s = u + d /\ g = y + a /\ k = v + c
  OBVIOUS
<1>2. w > 0 /\ 0 <= r /\ r < w /\ 0 <= s /\ s < w  BY <1>1
<1>3. g * w \in Int /\ k * w \in Int /\ g * w = w * g /\ k * w = w * k  OBVIOUS
<1>4. w * g + r = w * k + s  BY <1>1, <1>3
<1>5. g = k /\ r = s  BY <1>2, <1>4, OneWay
<1> QED  BY <1>1, <1>5

\* It is in the image.
LEMMA PlaceIn ==
  ASSUME RC!OnDetector, m_layout = "L_GENERAL", m_chips_position \in Positions,
         NEW i \in 0 .. RC!nb_chips - 1, NEW p \in RC!Cells
  PROVE  PlaceOf(i, p) \in 0 .. RC!Width * RC!Height - 1
<1>1. i + 1 \in 1 .. RC!nb_chips  BY Chips
<1>2. p[1] \in 0 .. N - 1 /\ p[2] \in 0 .. N - 1  BY DEF RC!Cells
<1> QED  BY <1>1, <1>2, NPos, ImageHolds, InImage DEF PlaceOf

\* No two pixels have the same place.
LEMMA PlaceOnce ==
  ASSUME RC!OnDetector, m_layout = "L_GENERAL", m_chips_position \in Positions,
         NEW i \in 0 .. RC!nb_chips - 1, NEW j \in 0 .. RC!nb_chips - 1,
         NEW p \in RC!Cells, NEW q \in RC!Cells, PlaceOf(i, p) = PlaceOf(j, q)
  PROVE  i = j /\ p = q
<1> DEFINE P == m_chips_position[i + 1]
           Q == m_chips_position[j + 1]
<1>1. i + 1 \in 1 .. RC!nb_chips /\ j + 1 \in 1 .. RC!nb_chips /\ i \in Int /\ j \in Int  BY Chips
<1>2. /\ p[1] \in 0 .. N - 1 /\ p[2] \in 0 .. N - 1 /\ p = <<p[1], p[2]>>
      /\ q[1] \in 0 .. N - 1 /\ q[2] \in 0 .. N - 1 /\ q = <<q[1], q[2]>>
  BY DEF RC!Cells
<1>3. /\ RC!Width \in Nat /\ P.x \in Nat /\ P.y \in Nat /\ P.x + N <= RC!Width
      /\ Q.x \in Nat /\ Q.y \in Nat /\ Q.x + N <= RC!Width
  BY <1>1, ImageHolds
<1>4. (P.y + p[1]) * RC!Width + P.x + p[2] = (Q.y + q[1]) * RC!Width + Q.x + q[2]
  BY DEF PlaceOf
<1> HIDE DEF P, Q
<1>5. /\ P.y + p[1] = Q.y + q[1] /\ P.x + p[2] = Q.x + q[2]
      /\ ~(P.x + N <= Q.x \/ Q.x + N <= P.x \/ P.y + N <= Q.y \/ Q.y + N <= P.y)
  <2>1. PICK n, w, x, y, a, b, u, v, c, d :
          /\ n = N /\ w = RC!Width /\ x = P.x /\ y = P.y /\ a = p[1] /\ b = p[2]
          /\ u = Q.x /\ v = Q.y /\ c = q[1] /\ d = q[2]
    OBVIOUS
  <2>2. /\ n \in Nat /\ n >= 1 /\ w \in Nat /\ x \in Nat /\ y \in Nat /\ x + n <= w
        /\ u \in Nat /\ v \in Nat /\ u + n <= w
    BY <1>3, <2>1, NPos
  <2>3. a \in 0 .. n - 1 /\ b \in 0 .. n - 1 /\ c \in 0 .. n - 1 /\ d \in 0 .. n - 1
    BY <1>2, <2>1, Zenon
  <2>4. (y + a) * w + x + b = (v + c) * w + u + d  BY <1>4, <2>1, Zenon
  <2>5. /\ y + a = v + c /\ x + b = u + d
        /\ ~(x + n <= u \/ u + n <= x \/ y + n <= v \/ v + n <= y)
    BY <2>2, <2>3, <2>4, OnceInImage
  <2> QED  BY <2>1, <2>5, Zenon
<1>6. i = j
  <2> SUFFICES ASSUME i # j PROVE FALSE  OBVIOUS
  <2>1. DOMAIN m_chips_position = 1 .. RC!nb_chips  BY NPos DEF RC!nb_chips
  <2>2. i + 1 # j + 1  BY <1>1
  <2>3. RC!Apart(P, Q)  BY <1>1, <2>1, <2>2 DEF RC!OnDetector, P, Q
  <2> QED  BY <1>5, <2>3 DEF RC!Apart
<1>7. p[1] = q[1] /\ p[2] = q[2]
  <2>1. P = Q  BY <1>6 DEF P, Q
  <2>2. p[1] \in Int /\ p[2] \in Int /\ q[1] \in Int /\ q[2] \in Int  BY <1>2
  <2> QED  BY <1>3, <1>5, <2>1, <2>2
<1> QED  BY <1>2, <1>6, <1>7

\* What pixel p of chip i shows, turned by the angle of its position.
Shown(i, p) == 1 + RC!ReadOut(i, RC!Turned(m_chips_position[i + 1].rot, p))

\* Pixel k of the image belongs to a chip that is done.
IsPlace(k) == \E i \in 0 .. chip - 1, p \in RC!Cells : PlaceOf(i, p) = k

\* The frame is as it was read until the image is delivered, and the new
\* buffer has the chips that are done at their places, zeros elsewhere.
GeneralInv ==
  m_layout = "L_GENERAL" =>
    /\ m_chips_position \in Positions /\ inPlace \in BOOLEAN /\ delivered \in BOOLEAN
    /\ chip \in 0 .. RC!nb_chips /\ (delivered => chip = RC!nb_chips)
    /\ DOMAIN data = RC!Frame /\ DOMAIN new = 0 .. RC!Width * RC!Height - 1
    /\ ~delivered => \A k \in RC!Frame : data[k] = k + 1
    /\ \A i \in 0 .. chip - 1, p \in RC!Cells : new[PlaceOf(i, p)] = Shown(i, p)
    /\ \A k \in DOMAIN new : ~IsPlace(k) => new[k] = 0
    /\ delivered /\ inPlace => \A k \in DOMAIN new : data[k] = new[k]

\* Nothing of it is about what a step changes.
LEMMA GeneralStays ==
  ASSUME UNCHANGED <<m_layout, inPlace, m_chips_position>>
  PROVE  /\ RC!nb_chips' = RC!nb_chips /\ RC!RawSize' = RC!RawSize
         /\ RC!Width' = RC!Width /\ RC!Height' = RC!Height /\ RC!Frame' = RC!Frame
         /\ \A i, p : PlaceOf(i, p)' = PlaceOf(i, p)
         /\ \A i, p : Shown(i, p)' = Shown(i, p)
<1>1. RC!nb_chips' = RC!nb_chips  BY DEF RC!nb_chips
<1>2. RC!RawSize' = RC!RawSize  BY <1>1 DEF RC!RawSize
<1>3. RC!Width' = RC!Width /\ RC!Height' = RC!Height  BY <1>1 DEF RC!Width, RC!Height
<1>4. RC!Frame' = RC!Frame  BY <1>2, <1>3 DEF RC!Frame
<1>5. \A i, p : PlaceOf(i, p)' = PlaceOf(i, p)  BY <1>3 DEF PlaceOf
<1>6. \A i, p : Shown(i, p)' = Shown(i, p)  BY <1>1 DEF Shown, RC!ReadOut
<1> QED  BY <1>1, <1>2, <1>3, <1>4, <1>5, <1>6

\* The walk over the frame finds there the pixel that p shows.
LEMMA GeneralSourceIs ==
  ASSUME m_chips_position \in Positions, NEW i \in 0 .. RC!nb_chips - 1, NEW p \in RC!Cells,
         NEW rot \in {"Rotation_0", "Rotation_90", "Rotation_180", "Rotation_270"}
  PROVE  RC!GeneralSource(i, rot, p[1], p[2]) = RC!ReadOut(i, RC!Turned(rot, p))
<1>1. PICK l \in 0 .. N - 1, c \in 0 .. N - 1 : p = <<l, c>>  BY DEF RC!Cells
<1>2. PICK m \in Nat, n \in Nat : m = RC!nb_chips /\ n = N  BY Chips, NPos
<1>3. i \in Int /\ l \in Int /\ c \in Int  BY <1>1, <1>2, NPos
<1>4. CASE rot = "Rotation_0"
  <2>1. RC!Turned(rot, p) = <<l, c>>  BY <1>1, <1>4, TurnedIs
  <2>2. i * n + l * (m * n) + c = i * n + l * m * n + c  BY <1>3
  <2> QED  BY <1>1, <1>2, <1>4, <2>1, <2>2 DEF RC!GeneralSource, RC!ReadOut
<1>5. CASE rot = "Rotation_90"
  <2>1. RC!Turned(rot, p) = <<N - 1 - c, l>>  BY <1>1, <1>5, TurnedIs
  <2>2. i * n + (n - 1) * (m * n) + l - c * (m * n) = i * n + (n - 1 - c) * m * n + l  BY <1>3
  <2> QED  BY <1>1, <1>2, <1>5, <2>1, <2>2 DEF RC!GeneralSource, RC!ReadOut
<1>6. CASE rot = "Rotation_180"
  <2>1. RC!Turned(rot, p) = <<N - 1 - l, N - 1 - c>>  BY <1>1, <1>6, TurnedIs
  <2>2. i * n + (n - 1 - l) * (m * n) + n - 1 - c = i * n + (n - 1 - l) * m * n + (n - 1 - c)  BY <1>3
  <2> QED  BY <1>1, <1>2, <1>6, <2>1, <2>2 DEF RC!GeneralSource, RC!ReadOut
<1>7. CASE rot = "Rotation_270"
  <2>1. RC!Turned(rot, p) = <<c, N - 1 - l>>  BY <1>1, <1>7, TurnedIs
  <2>2. i * n + (n - 1 - l) + c * (m * n) = i * n + c * m * n + (n - 1 - l)  BY <1>3
  <2> QED  BY <1>1, <1>2, <1>7, <2>1, <2>2 DEF RC!GeneralSource, RC!ReadOut
<1> QED  BY <1>4, <1>5, <1>6, <1>7

\* A chip placed is at its place, turned, and the others are as they were.
LEMMA PlaceChipKeeps == RC!OnDetector /\ GeneralInv /\ RC!PlaceChip => GeneralInv'
<1> SUFFICES ASSUME RC!OnDetector, GeneralInv, RC!PlaceChip PROVE GeneralInv'
  OBVIOUS
<1>1. m_layout = "L_GENERAL"  BY DEF RC!PlaceChip
<1>2. /\ m_chips_position \in Positions /\ chip \in 0 .. RC!nb_chips - 1 /\ chip \in Int
      /\ RC!nb_chips \in Nat /\ ~delivered
  <2>1. m_chips_position \in Positions /\ RC!nb_chips \in Nat  BY <1>1, Chips DEF GeneralInv
  <2> QED  BY <1>1, <2>1 DEF GeneralInv, RC!PlaceChip
<1>3. UNCHANGED <<m_layout, inPlace, m_chips_position>>  BY DEF RC!PlaceChip, RC!params
<1>4. UNCHANGED <<data, delivered>> /\ chip' = chip + 1  BY DEF RC!PlaceChip
<1> DEFINE rot == m_chips_position[chip + 1].rot
           at  == [p \in RC!Cells |-> PlaceOf(chip, p)]
           v   == [p \in RC!Cells |-> data[RC!GeneralSource(chip, rot, p[1], p[2])]]
<1>5. new' = RC!Written(new, at, v)  BY DEF RC!PlaceChip, PlaceOf
<1>6. rot \in {"Rotation_0", "Rotation_90", "Rotation_180", "Rotation_270"}
  <2>1. chip + 1 \in 1 .. RC!nb_chips  BY <1>2
  <2>2. m_chips_position[chip + 1] \in RC!Position  BY <1>2, <2>1, Chips
  <2> QED  BY <2>2 DEF RC!Position
<1>7. \A p \in RC!Cells : v[p] = Shown(chip, p)
  <2> TAKE p \in RC!Cells
  <2>1. v[p] = data[RC!ReadOut(chip, RC!Turned(rot, p))]  BY <1>2, <1>6, GeneralSourceIs
  <2>2. RC!ReadOut(chip, RC!Turned(rot, p)) \in 0 .. RC!RawSize - 1
    BY <1>2, <1>6, TurnedIn, ReadOutIn
  <2>3. RC!ReadOut(chip, RC!Turned(rot, p)) \in RC!Frame
    <3>1. RC!RawSize \in Int /\ RC!Width * RC!Height \in Int
      BY <1>1, <1>2, NPos, ImageHolds DEF RC!RawSize
    <3> QED  BY <2>2, <3>1 DEF RC!Frame
  <2>4. data[RC!ReadOut(chip, RC!Turned(rot, p))] = RC!ReadOut(chip, RC!Turned(rot, p)) + 1
    BY <1>1, <1>2, <2>3 DEF GeneralInv
  <2>5. RC!ReadOut(chip, RC!Turned(rot, p)) \in Int  BY <2>2
  <2> HIDE DEF v
  <2>6. RC!ReadOut(chip, RC!Turned(rot, p)) + 1 = 1 + RC!ReadOut(chip, RC!Turned(rot, p))  BY <2>5
  <2> QED  BY <2>1, <2>4, <2>6 DEF Shown
<1>8. /\ \A p, q \in RC!Cells : at[p] = at[q] => p = q
      /\ \A p \in RC!Cells : at[p] = PlaceOf(chip, p) /\ at[p] \in DOMAIN new
  BY <1>1, <1>2, PlaceOnce, PlaceIn DEF GeneralInv
<1> HIDE DEF at, v, rot
<1>9. /\ DOMAIN new' = DOMAIN new
      /\ \A p \in RC!Cells : new'[PlaceOf(chip, p)] = Shown(chip, p)
      /\ \A k \in DOMAIN new : (\A p \in RC!Cells : PlaceOf(chip, p) # k) => new'[k] = new[k]
  <2>1. /\ DOMAIN RC!Written(new, at, v) = DOMAIN new
        /\ \A p \in RC!Cells : at[p] \in DOMAIN new => RC!Written(new, at, v)[at[p]] = v[p]
        /\ \A k \in DOMAIN new : (\A p \in RC!Cells : at[p] # k)
                                    => RC!Written(new, at, v)[k] = new[k]
    BY <1>8, WrittenIs
  <2> QED  BY <1>5, <1>7, <1>8, <2>1
<1>10. ASSUME NEW i \in 0 .. chip, NEW p \in RC!Cells PROVE new'[PlaceOf(i, p)] = Shown(i, p)
  <2>1. CASE i = chip  BY <1>9, <2>1
  <2>2. CASE i # chip
    <3>1. i \in 0 .. chip - 1 /\ i \in 0 .. RC!nb_chips - 1  BY <1>2, <2>2
    <3>2. PlaceOf(i, p) \in DOMAIN new  BY <1>1, <1>2, <3>1, PlaceIn DEF GeneralInv
    <3>3. \A q \in RC!Cells : PlaceOf(chip, q) # PlaceOf(i, p)  BY <1>1, <1>2, <2>2, <3>1, PlaceOnce
    <3>4. new[PlaceOf(i, p)] = Shown(i, p)  BY <1>1, <3>1 DEF GeneralInv
    <3> QED  BY <1>9, <3>2, <3>3, <3>4
  <2> QED  BY <2>1, <2>2
<1>11. chip' \in 0 .. RC!nb_chips /\ 0 .. chip' - 1 = 0 .. chip  BY <1>2, <1>4
<1>12. ASSUME NEW k \in DOMAIN new, \A i \in 0 .. chip, p \in RC!Cells : PlaceOf(i, p) # k
       PROVE  new'[k] = 0
  <2>1. chip \in 0 .. chip /\ 0 .. chip - 1 \subseteq 0 .. chip  BY <1>2
  <2>2. new[k] = 0  BY <1>1, <1>12, <2>1 DEF GeneralInv, IsPlace
  <2>3. new'[k] = new[k]  BY <1>9, <1>12, <2>1
  <2> QED  BY <2>2, <2>3
<1>13. /\ RC!nb_chips' = RC!nb_chips /\ RC!Width' = RC!Width /\ RC!Height' = RC!Height
       /\ RC!Frame' = RC!Frame
       /\ \A i, p : PlaceOf(i, p)' = PlaceOf(i, p)
       /\ \A i, p : Shown(i, p)' = Shown(i, p)
  BY <1>3, GeneralStays
<1>14. \A i \in 0 .. chip' - 1, p \in RC!Cells : new'[PlaceOf(i, p)'] = Shown(i, p)'
  BY <1>10, <1>11, <1>13
<1>15. \A k \in DOMAIN new' : ~IsPlace(k)' => new'[k] = 0
  <2> TAKE k \in DOMAIN new'
  <2> HAVE ~IsPlace(k)'
  <2>1. \A i \in 0 .. chip, p \in RC!Cells : PlaceOf(i, p) # k  BY <1>11, <1>13 DEF IsPlace
  <2> QED  BY <1>9, <1>12, <2>1
<1>16. /\ m_chips_position' \in Positions /\ inPlace' \in BOOLEAN /\ delivered' = FALSE
       /\ DOMAIN data' = RC!Frame' /\ DOMAIN new' = 0 .. RC!Width' * RC!Height' - 1
       /\ \A k \in RC!Frame' : data'[k] = k + 1
  BY <1>1, <1>2, <1>3, <1>4, <1>9, <1>13 DEF GeneralInv
<1>17. chip' \in 0 .. RC!nb_chips'  BY <1>11, <1>13
<1> QED  BY <1>14, <1>15, <1>16, <1>17 DEF GeneralInv

\* Before the first chip the frame is as it was read, the buffer is empty.
LEMMA GeneralInit == Init => GeneralInv
<1> SUFFICES ASSUME Init, m_layout = "L_GENERAL" PROVE GeneralInv
  BY DEF GeneralInv
<1>1. RC!Init  BY DEF Init
<1>2. m_chips_position \in Positions /\ inPlace \in BOOLEAN /\ chip = 0 /\ delivered = FALSE
  BY <1>1 DEF RC!Init
<1>3. RC!nb_chips \in Nat  BY <1>2, Chips
<1>4. data = [k \in RC!Frame |-> k + 1] /\ new = [k \in 0 .. RC!Width * RC!Height - 1 |-> 0]
  BY <1>1 DEF RC!Init
<1>5. 0 .. chip - 1 = {}  BY <1>2
<1>6. chip \in 0 .. RC!nb_chips  BY <1>2, <1>3
<1> QED  BY <1>2, <1>4, <1>5, <1>6 DEF GeneralInv

\* The image is written over the frame when every chip has been read.
LEMMA DeliverKeeps ==
  RC!OnDetector /\ GeneralInv /\ m_layout = "L_GENERAL" /\ RC!Deliver => GeneralInv'
<1> SUFFICES ASSUME RC!OnDetector, GeneralInv, m_layout = "L_GENERAL", RC!Deliver PROVE GeneralInv'
  OBVIOUS
<1>1. UNCHANGED <<m_layout, inPlace, m_chips_position>>  BY DEF RC!Deliver, RC!params
<1>2. UNCHANGED <<new, chip>> /\ delivered' = TRUE /\ chip = RC!nb_chips  BY DEF RC!Deliver
<1>3. /\ DOMAIN data' = DOMAIN data
      /\ inPlace => \A k \in DOMAIN data : k \in DOMAIN new => data'[k] = new[k]
  BY DEF RC!Deliver
<1>4. DOMAIN new \subseteq DOMAIN data
  <2>1. RC!Width * RC!Height \in Int /\ RC!RawSize \in Int
    <3>1. RC!nb_chips \in Nat /\ RC!Width \in Nat /\ RC!Height \in Nat
      BY Chips, ImageHolds DEF GeneralInv
    <3> QED  BY <3>1, NPos DEF RC!RawSize
  <2>2. 0 .. RC!Width * RC!Height - 1 \subseteq RC!Frame  BY <2>1 DEF RC!Frame
  <2> QED  BY <2>2 DEF GeneralInv
<1>5. /\ RC!nb_chips' = RC!nb_chips /\ RC!Width' = RC!Width /\ RC!Height' = RC!Height
      /\ RC!Frame' = RC!Frame
      /\ \A i, p : PlaceOf(i, p)' = PlaceOf(i, p)
      /\ \A i, p : Shown(i, p)' = Shown(i, p)
  BY <1>1, GeneralStays
<1>6. \A i \in 0 .. chip' - 1, p \in RC!Cells : new'[PlaceOf(i, p)'] = Shown(i, p)'
  BY <1>2, <1>5 DEF GeneralInv
<1>7. \A k \in DOMAIN new' : ~IsPlace(k)' => new'[k] = 0
  <2> TAKE k \in DOMAIN new'
  <2> HAVE ~IsPlace(k)'
  <2>1. ~IsPlace(k)  BY <1>2, <1>5 DEF IsPlace
  <2> QED  BY <1>2, <2>1 DEF GeneralInv
<1>8. inPlace' => \A k \in DOMAIN new' : data'[k] = new'[k]  BY <1>1, <1>2, <1>3, <1>4
<1>9. /\ m_chips_position' \in Positions /\ inPlace' \in BOOLEAN
      /\ chip' \in 0 .. RC!nb_chips' /\ chip' = RC!nb_chips'
      /\ DOMAIN data' = RC!Frame' /\ DOMAIN new' = 0 .. RC!Width' * RC!Height' - 1
  BY <1>1, <1>2, <1>3, <1>5 DEF GeneralInv
<1> QED  BY <1>2, <1>6, <1>7, <1>8, <1>9 DEF GeneralInv

\* L_GENERAL takes no other step.
LEMMA GeneralStep == RC!OnDetector /\ GeneralInv /\ [Next]_vars => GeneralInv'
<1> SUFFICES ASSUME RC!OnDetector, GeneralInv, [Next]_vars, m_layout' = "L_GENERAL" PROVE GeneralInv'
  BY DEF GeneralInv
<1>1. /\ m_layout = "L_GENERAL"
      /\ \/ RC!PlaceChip \/ RC!Deliver
         \/ UNCHANGED <<m_layout, inPlace, m_chips_position, data, new, chip, delivered>>
  BY StepOfChips DEF RC!Next, RC!TurnChip, RC!LeaveAll
<1>2. CASE UNCHANGED <<m_layout, inPlace, m_chips_position, data, new, chip, delivered>>
  <2>1. /\ RC!nb_chips' = RC!nb_chips /\ RC!Width' = RC!Width /\ RC!Height' = RC!Height
        /\ RC!Frame' = RC!Frame
        /\ \A i, p : PlaceOf(i, p)' = PlaceOf(i, p)
        /\ \A i, p : Shown(i, p)' = Shown(i, p)
    BY <1>2, GeneralStays
  <2>2. \A k : IsPlace(k)' <=> IsPlace(k)  BY <1>2, <2>1 DEF IsPlace
  <2> QED  BY <1>1, <1>2, <2>1, <2>2 DEF GeneralInv
<1> QED  BY <1>1, <1>2, PlaceChipKeeps, DeliverKeeps

\* The invariant holds.
LEMMA GeneralHolds == ASSUME RC!OnDetector PROVE Spec => []GeneralInv
<1>1. GeneralInv /\ [Next]_vars => GeneralInv'  BY GeneralStep
<1> QED  BY <1>1, GeneralInit, PTL DEF Spec

\* The image delivered has every chip at its place, and zeros elsewhere.
LEMMA GeneralIsPlaced == RC!OnDetector /\ GeneralInv => PlacedAndTurned
<1> SUFFICES ASSUME RC!OnDetector, GeneralInv, m_layout = "L_GENERAL", delivered
             PROVE  RC!PlacedAndTurned
  BY DEF PlacedAndTurned, RC!PlacedAndTurned
<1> DEFINE chips3 == (0 .. RC!nb_chips - 1) \X (0 .. N - 1) \X (0 .. N - 1)
           pos(q) == m_chips_position[q[1] + 1]
           place(q) == (pos(q).y + q[2]) * RC!Width + pos(q).x + q[3]
<1>1. m_chips_position \in Positions /\ chip = RC!nb_chips  BY DEF GeneralInv
<1>2. \A k \in 0 .. RC!Width * RC!Height - 1 : RC!Image[k] = new[k]
  BY DEF GeneralInv, RC!Image
<1>3. ASSUME NEW q \in chips3
      PROVE  /\ q[1] \in 0 .. RC!nb_chips - 1 /\ <<q[2], q[3]>> \in RC!Cells
             /\ place(q) = PlaceOf(q[1], <<q[2], q[3]>>)
  <2>1. q[1] \in 0 .. RC!nb_chips - 1 /\ q[2] \in 0 .. N - 1 /\ q[3] \in 0 .. N - 1  OBVIOUS
  <2> QED  BY <2>1 DEF RC!Cells, PlaceOf
<1>4. ASSUME NEW q \in chips3
      PROVE  RC!Image[place(q)] = 1 + RC!ReadOut(q[1], RC!Turned(pos(q).rot, <<q[2], q[3]>>))
  <2>1. new[PlaceOf(q[1], <<q[2], q[3]>>)] = Shown(q[1], <<q[2], q[3]>>)
    BY <1>1, <1>3 DEF GeneralInv
  <2>2. PlaceOf(q[1], <<q[2], q[3]>>) \in 0 .. RC!Width * RC!Height - 1  BY <1>1, <1>3, PlaceIn
  <2> QED  BY <1>2, <1>3, <2>1, <2>2 DEF Shown
<1>5. ASSUME NEW k \in 0 .. RC!Width * RC!Height - 1, \A q \in chips3 : place(q) # k
      PROVE  RC!Image[k] = 0
  <2>1. ~IsPlace(k)
    <3> SUFFICES ASSUME NEW i \in 0 .. chip - 1, NEW p \in RC!Cells, PlaceOf(i, p) = k PROVE FALSE
      BY DEF IsPlace
    <3> DEFINE q == <<i, p[1], p[2]>>
    <3>1. q \in chips3 /\ p = <<q[2], q[3]>> /\ q[1] = i  BY <1>1 DEF RC!Cells
    <3> HIDE DEF q
    <3> QED  BY <1>3, <1>5, <3>1
  <2>2. new[k] = 0  BY <2>1 DEF GeneralInv
  <2> QED  BY <1>2, <2>2
<1> QED  BY <1>4, <1>5 DEF RC!PlacedAndTurned

\* Of a detector, L_GENERAL makes the image that has every chip at its place,
\* turned by the angle of its position, in place or not, and zeros elsewhere.
THEOREM ChipsArePlaced == ASSUME RC!OnDetector PROVE Spec => []PlacedAndTurned
<1>1. GeneralInv => PlacedAndTurned  BY GeneralIsPlaced
<1> QED  BY <1>1, GeneralHolds, PTL

-----------------------------------------------------------------------------
(***************************************************************************)
(* L_2x2: the image by columns and lines.                                  *)
(***************************************************************************)
Wide == 2 * N + m_xgap
High == 2 * N + m_ygap

\* The place of column x of line y in the image.
Spot(x, y) == y * Wide + x

\* The gaps are of some width and height.
Gaps2 == m_xgap \in Nat /\ m_ygap \in Nat

\* The geometry in these terms.
LEMMA WideHigh ==
  ASSUME Gaps2
  PROVE  /\ R2!aTotalWidth = Wide /\ R2!aTotalHeight = High /\ R2!FullSize = Wide * High
         /\ Wide \in Nat /\ Wide > 0 /\ High \in Nat /\ High > 0 /\ N \in Nat /\ N >= 2
         /\ m_xgap \in Nat /\ m_ygap \in Nat
BY NType DEF Gaps2, Wide, High, R2!aTotalWidth, R2!aTotalHeight, R2!FullSize

\* A pixel of a line above another is before the first one of that.
LEMMA LineOrder ==
  ASSUME NEW w \in Nat, NEW x \in Int, 0 <= x, x < w, NEW y \in Int, NEW z \in Int
  PROVE  /\ y * w + x \in Int /\ z * w \in Int
         /\ y < z => y * w + x < z * w
         /\ y >= z => y * w + x >= z * w
         /\ y > z => y * w + x >= z * w + w
<1>1. y * w \in Int /\ z * w \in Int  OBVIOUS
<1>2. ASSUME y < z PROVE y * w + x < z * w
  <2>1. (z - y - 1) * w >= 0  BY <1>2
  <2>2. (z - y - 1) * w = z * w - y * w - w  OBVIOUS
  <2> QED  BY <1>1, <2>1, <2>2
<1>3. ASSUME y >= z PROVE y * w + x >= z * w
  <2>1. (y - z) * w >= 0  BY <1>3
  <2>2. (y - z) * w = y * w - z * w  OBVIOUS
  <2> QED  BY <1>1, <2>1, <2>2
<1>4. ASSUME y > z PROVE y * w + x >= z * w + w
  <2>1. (y - z - 1) * w >= 0  BY <1>4
  <2>2. (y - z - 1) * w = y * w - z * w - w  OBVIOUS
  <2> QED  BY <1>1, <2>1, <2>2
<1> QED  BY <1>1, <1>2, <1>3, <1>4

\* The pixels from column a to column b of line z.
LEMMA OnLine ==
  ASSUME NEW w \in Nat, NEW x \in Int, 0 <= x, x < w, NEW y \in Int, NEW z \in Int,
         NEW a \in Int, 0 <= a, NEW b \in Int, b < w
  PROVE  z * w + a <= y * w + x /\ y * w + x <= z * w + b <=> y = z /\ a <= x /\ x <= b
<1>1. /\ y * w \in Int /\ z * w \in Int
      /\ y < z => y * w + x < z * w
      /\ y > z => y * w + x >= z * w + w
  BY LineOrder
<1>2. CASE y = z  BY <1>1, <1>2
<1>3. CASE y # z  BY <1>1, <1>3
<1> QED  BY <1>2, <1>3

\* Every pixel has its own place.
LEMMA OneSpot ==
  ASSUME NEW w \in Nat, NEW x \in Int, 0 <= x, x < w, NEW y \in Int, NEW z \in Int,
         NEW u \in Int, 0 <= u, u < w
  PROVE  y * w + x = z * w + u <=> y = z /\ x = u
<1>1. z * w + u <= y * w + x /\ y * w + x <= z * w + u <=> y = z /\ u <= x /\ x <= u
  BY OnLine
<1>2. y * w + x \in Int /\ z * w + u \in Int  OBVIOUS
<1> QED  BY <1>1, <1>2

\* Every place is in the image.
LEMMA SpotIn ==
  ASSUME Gaps2, NEW x \in 0 .. Wide - 1, NEW y \in 0 .. High - 1
  PROVE  Spot(x, y) \in Int /\ 0 <= Spot(x, y) /\ Spot(x, y) <= Wide * High - 1
<1>1. Wide \in Nat /\ High \in Nat  BY WideHigh
<1>2. /\ y * Wide + x \in Int /\ High * Wide \in Int
      /\ y < High => y * Wide + x < High * Wide
  BY <1>1, LineOrder
<1>3. y >= 0 => y * Wide + x >= 0 * Wide  BY <1>1, LineOrder
<1>4. High * Wide = Wide * High /\ 0 * Wide = 0  BY <1>1
<1>5. y \in Int /\ 0 <= y /\ y < High  BY <1>1
<1> HIDE DEF Wide, High
<1> QED  BY <1>1, <1>2, <1>3, <1>4, <1>5 DEF Spot

-----------------------------------------------------------------------------
\* The chip that is seen in column x of line y, the column of its read-out it
\* is from and its place there.
ChipAt(x, y) == IF x < N THEN IF y < N THEN 1 ELSE 0 ELSE IF y < N THEN 2 ELSE 3
ColumnAt(x, y) == IF x < N THEN x ELSE Wide - 1 - x
PlaceAt(x, y) ==
  IF x < N THEN IF y < N THEN N - 1 - y ELSE High - 1 - y
  ELSE IF y < N THEN y ELSE y - N - m_ygap

\* A pixel of a chip is read out once, at this place.
LEMMA SeenIs ==
  ASSUME Gaps2, NEW x \in 0 .. Wide - 1, NEW y \in 0 .. High - 1, R2!InChips(x, y)
  PROVE  /\ ChipAt(x, y) \in 0 .. 3 /\ ColumnAt(x, y) \in 0 .. N - 1 /\ PlaceAt(x, y) \in 0 .. N - 1
         /\ R2!Seen(x, y) = raw[ColumnAt(x, y) * 4 * N + ChipAt(x, y) * N + PlaceAt(x, y)]
<1>1. /\ N \in Nat /\ N >= 2 /\ m_xgap \in Nat /\ m_ygap \in Nat
      /\ R2!aTotalWidth = Wide /\ R2!aTotalHeight = High
  BY WideHigh
<1>2. ChipAt(x, y) \in 0 .. 3 /\ ColumnAt(x, y) \in 0 .. N - 1 /\ PlaceAt(x, y) \in 0 .. N - 1
  BY <1>1 DEF ChipAt, ColumnAt, PlaceAt, Wide, High, R2!InChips
<1>3. R2!Seen(x, y) = raw[ColumnAt(x, y) * 4 * N + ChipAt(x, y) * N + PlaceAt(x, y)]
  BY <1>1 DEF R2!Seen, R2!Read, ChipAt, ColumnAt, PlaceAt
<1> QED  BY <1>2, <1>3

-----------------------------------------------------------------------------
\* Where the runs of column col begin, in columns and lines.
RunX(col, r) == IF r \in {0, 1} THEN col ELSE Wide - 1 - col
RunY(r) == CASE r = 0 -> High - 1 [] r = 1 -> N - 1 [] r = 2 -> 0 [] r = 3 -> N + m_ygap

\* The pixels of a run are those of a column of a chip.
LEMMA RunIs ==
  ASSUME Gaps2, run \in 0 .. 3, NEW col \in 0 .. N - 1, dstPt = Spot(RunX(col, run), RunY(run)),
         NEW x \in 0 .. Wide - 1, NEW y \in 0 .. High - 1, R2!InChips(x, y), NEW i \in 0 .. N - 1
  PROVE  Spot(x, y) = dstPt + i * R2!Line
           <=> ChipAt(x, y) = run /\ ColumnAt(x, y) = col /\ PlaceAt(x, y) = i
<1> DEFINE v == IF run \in {0, 1} THEN RunY(run) - i ELSE RunY(run) + i
           u == RunX(col, run)
<1>1. /\ N \in Nat /\ N >= 2 /\ m_xgap \in Nat /\ m_ygap \in Nat /\ Wide \in Nat /\ High \in Nat
      /\ R2!aTotalWidth = Wide
  BY WideHigh
<1>2. u \in Int /\ 0 <= u /\ u < Wide /\ v \in Int
  BY <1>1 DEF RunX, RunY, Wide
<1>3. dstPt + i * R2!Line = v * Wide + u
  <2>1. RunY(run) \in Int  BY <1>1 DEF RunY
  <2>2. CASE run \in {0, 1}
    <3>1. R2!Line = -Wide  BY <1>1, <2>2 DEF R2!Line, R2!Up
    <3>2. (RunY(run) - i) * Wide = RunY(run) * Wide + i * (-Wide)  BY <1>1, <2>1
    <3>3. RunY(run) * Wide \in Int /\ i * (-Wide) \in Int  BY <1>1, <2>1
    <3> QED  BY <1>2, <2>2, <3>1, <3>2, <3>3 DEF Spot
  <2>3. CASE run \notin {0, 1}
    <3>1. R2!Line = Wide  BY <1>1, <2>3 DEF R2!Line, R2!Up
    <3>2. (RunY(run) + i) * Wide = RunY(run) * Wide + i * Wide  BY <1>1, <2>1
    <3>3. RunY(run) * Wide \in Int /\ i * Wide \in Int  BY <1>1, <2>1
    <3> QED  BY <1>2, <2>3, <3>1, <3>2, <3>3 DEF Spot
  <2> QED  BY <2>2, <2>3
<1> HIDE DEF u, v
<1>4. Spot(x, y) = dstPt + i * R2!Line <=> y = v /\ x = u
  BY <1>1, <1>2, <1>3, OneSpot DEF Spot
<1>5. y = v /\ x = u <=> ChipAt(x, y) = run /\ ColumnAt(x, y) = col /\ PlaceAt(x, y) = i
  <2>1. CASE run = 0  BY <1>1, <2>1 DEF u, v, RunX, RunY, ChipAt, ColumnAt, PlaceAt, R2!InChips, Wide, High
  <2>2. CASE run = 1  BY <1>1, <2>2 DEF u, v, RunX, RunY, ChipAt, ColumnAt, PlaceAt, R2!InChips, Wide, High
  <2>3. CASE run = 2  BY <1>1, <2>3 DEF u, v, RunX, RunY, ChipAt, ColumnAt, PlaceAt, R2!InChips, Wide, High
  <2>4. CASE run = 3  BY <1>1, <2>4 DEF u, v, RunX, RunY, ChipAt, ColumnAt, PlaceAt, R2!InChips, Wide, High
  <2> QED  BY <2>1, <2>2, <2>3, <2>4
<1> QED  BY <1>4, <1>5

\* The image is of the size the gaps give it.
Frame2 ==
  /\ Gaps2 /\ m_type \in R2!Types
  /\ DOMAIN data = 0 .. Wide * High - 1

\* The runs of the columns before col are copied, and the first r of that one.
Copied(col, r) ==
  \A x \in 0 .. Wide - 1, y \in 0 .. High - 1 :
    R2!InChips(x, y) /\ (ColumnAt(x, y) < col \/ (ColumnAt(x, y) = col /\ ChipAt(x, y) < r)) =>
      data[Spot(x, y)] = R2!Seen(x, y)

\* The pointers before each run.
Copying ==
  /\ left \in 0 .. N /\ run \in 0 .. 3 /\ (left = 0 => run = 0)
  /\ srcPt = (N - left) * 4 * N + run * N
  /\ jump = Wide - 1 - 2 * (N - left) - IF run \in {2, 3} THEN 1 ELSE 0
  /\ dstPt = Spot(RunX(N - left, run), RunY(run))
  /\ Copied(N - left, run)

\* After a run the pointer is where the next one begins.
LEMMA RunMoves ==
  ASSUME Gaps2, Copying, left > 0
  PROVE  R2!AfterRun(dstPt + N * R2!Line) =
           IF run = 3 THEN Spot(RunX(N - left + 1, 0), RunY(0))
           ELSE Spot(RunX(N - left, run + 1), RunY(run + 1))
<1> DEFINE col == N - left
<1>1. /\ N \in Int /\ m_xgap \in Int /\ m_ygap \in Int /\ Wide \in Int /\ High \in Int
      /\ R2!aTotalWidth = Wide /\ High = 2 * N + m_ygap /\ col \in Int
  BY WideHigh DEF High, Copying
<1>2. jump = Wide - 1 - 2 * col - IF run \in {2, 3} THEN 1 ELSE 0  BY DEF Copying
<1>3. dstPt = Spot(RunX(col, run), RunY(run)) /\ run \in 0 .. 3  BY DEF Copying
<1> HIDE DEF col, Wide, High
<1>4. CASE run = 0
  <2>0. R2!Line \in Int /\ dstPt + N * R2!Line \in Int
    BY <1>1, <1>3, <1>4 DEF Spot, RunX, RunY, R2!Line, R2!Up
  <2>1. dstPt = (High - 1) * Wide + col /\ R2!Line = -Wide
    BY <1>1, <1>3, <1>4 DEF Spot, RunX, RunY, R2!Line, R2!Up
  <2>2. R2!AfterRun(dstPt + N * R2!Line) = (dstPt + N * R2!Line) - Wide * m_ygap
    BY <1>1, <1>4, <2>0 DEF R2!AfterRun
  <2>3. (High - 1) * Wide + col + N * (-Wide) - Wide * m_ygap = (N - 1) * Wide + col  BY <1>1
  <2> QED  BY <1>1, <1>4, <2>1, <2>2, <2>3 DEF Spot, RunX, RunY, col
<1>5. CASE run = 1
  <2>0. R2!Line \in Int /\ dstPt + N * R2!Line \in Int
    BY <1>1, <1>3, <1>5 DEF Spot, RunX, RunY, R2!Line, R2!Up
  <2>1. dstPt = (N - 1) * Wide + col /\ R2!Line = -Wide
    BY <1>1, <1>3, <1>5 DEF Spot, RunX, RunY, R2!Line, R2!Up
  <2>2. R2!AfterRun(dstPt + N * R2!Line) = dstPt + N * R2!Line + jump + Wide
    BY <1>1, <1>5, <2>0 DEF R2!AfterRun
  <2>3. (N - 1) * Wide + col + N * (-Wide) + (Wide - 1 - 2 * col) + Wide = 0 * Wide + (Wide - 1 - col)
    BY <1>1
  <2>4. jump = Wide - 1 - 2 * col  BY <1>1, <1>2, <1>5
  <2> QED  BY <1>1, <1>5, <2>1, <2>2, <2>3, <2>4 DEF Spot, RunX, RunY, col
<1>6. CASE run = 2
  <2>0. R2!Line \in Int /\ dstPt + N * R2!Line \in Int
    BY <1>1, <1>3, <1>6 DEF Spot, RunX, RunY, R2!Line, R2!Up
  <2>1. dstPt = 0 * Wide + (Wide - 1 - col) /\ R2!Line = Wide
    BY <1>1, <1>3, <1>6 DEF Spot, RunX, RunY, R2!Line, R2!Up
  <2>2. R2!AfterRun(dstPt + N * R2!Line) = dstPt + N * R2!Line + Wide * m_ygap
    BY <1>1, <1>6, <2>0 DEF R2!AfterRun
  <2>3. 0 * Wide + (Wide - 1 - col) + N * Wide + Wide * m_ygap = (N + m_ygap) * Wide + (Wide - 1 - col)
    BY <1>1
  <2> QED  BY <1>1, <1>6, <2>1, <2>2, <2>3 DEF Spot, RunX, RunY, col
<1>7. CASE run = 3
  <2>0. R2!Line \in Int /\ dstPt + N * R2!Line \in Int
    BY <1>1, <1>3, <1>7 DEF Spot, RunX, RunY, R2!Line, R2!Up
  <2>1. dstPt = (N + m_ygap) * Wide + (Wide - 1 - col) /\ R2!Line = Wide
    BY <1>1, <1>3, <1>7 DEF Spot, RunX, RunY, R2!Line, R2!Up
  <2>2. R2!AfterRun(dstPt + N * R2!Line) = (dstPt + N * R2!Line) - (jump + Wide)
    BY <1>1, <1>7, <2>0 DEF R2!AfterRun
  <2>3. (N + m_ygap) * Wide + (Wide - 1 - col) + N * Wide - ((Wide - 2 - 2 * col) + Wide)
          = (2 * N + m_ygap - 1) * Wide + (col + 1)
    BY <1>1
  <2>4. jump = Wide - 2 - 2 * col  BY <1>1, <1>2, <1>7
  <2> QED  BY <1>1, <1>7, <2>1, <2>2, <2>3, <2>4 DEF Spot, RunX, RunY, col
<1> QED  BY <1>3, <1>4, <1>5, <1>6, <1>7

\* A run copied is the column of the chip.
LEMMA RunCopied ==
  ASSUME Frame2, Copying, left > 0, R2!CopyRun
  PROVE  /\ DOMAIN data' = DOMAIN data
         /\ \A x \in 0 .. Wide - 1, y \in 0 .. High - 1 : R2!InChips(x, y) =>
              data'[Spot(x, y)] = IF ColumnAt(x, y) = N - left /\ ChipAt(x, y) = run
                                  THEN R2!Seen(x, y) ELSE data[Spot(x, y)]
<1> DEFINE steps(k) == {i \in 0 .. N - 1 : k = dstPt + i * R2!Line}
           col == N - left
<1>1. data' = [k \in DOMAIN data |->
                 IF steps(k) = {} THEN data[k] ELSE raw[srcPt + CHOOSE i \in steps(k) : TRUE]]
  BY DEF R2!CopyRun
<1>2. /\ Gaps2 /\ run \in 0 .. 3 /\ col \in 0 .. N - 1 /\ dstPt = Spot(RunX(col, run), RunY(run))
      /\ srcPt = col * 4 * N + run * N
  BY NType DEF Frame2, Copying
<1> HIDE DEF col
<1>3. ASSUME NEW x \in 0 .. Wide - 1, NEW y \in 0 .. High - 1, R2!InChips(x, y)
      PROVE  data'[Spot(x, y)] = IF ColumnAt(x, y) = col /\ ChipAt(x, y) = run
                                 THEN R2!Seen(x, y) ELSE data[Spot(x, y)]
  <2>1. Spot(x, y) \in DOMAIN data
    <3>1. Wide * High \in Int  BY <1>2, WideHigh
    <3> QED  BY <1>2, <3>1, SpotIn DEF Frame2
  <2>2. \A i \in 0 .. N - 1 : Spot(x, y) = dstPt + i * R2!Line
           <=> ChipAt(x, y) = run /\ ColumnAt(x, y) = col /\ PlaceAt(x, y) = i
    BY <1>2, <1>3, RunIs
  <2>3. /\ PlaceAt(x, y) \in 0 .. N - 1
        /\ R2!Seen(x, y) = raw[ColumnAt(x, y) * 4 * N + ChipAt(x, y) * N + PlaceAt(x, y)]
    BY <1>2, <1>3, SeenIs
  <2>4. CASE ColumnAt(x, y) = col /\ ChipAt(x, y) = run
    <3>1. steps(Spot(x, y)) = {PlaceAt(x, y)}  BY <2>2, <2>3, <2>4
    <3>2. data'[Spot(x, y)] = raw[srcPt + PlaceAt(x, y)]
      <4> HIDE DEF steps
      <4>1. (CHOOSE i \in {PlaceAt(x, y)} : TRUE) = PlaceAt(x, y)  OBVIOUS
      <4> QED  BY <1>1, <2>1, <3>1, <4>1
    <3> QED  BY <1>2, <2>3, <2>4, <3>2
  <2>5. CASE ~(ColumnAt(x, y) = col /\ ChipAt(x, y) = run)
    <3>1. steps(Spot(x, y)) = {}  BY <2>2, <2>5
    <3> HIDE DEF steps
    <3> QED  BY <1>1, <2>1, <2>5, <3>1
  <2> QED  BY <2>4, <2>5
<1> HIDE DEF steps
<1> QED  BY <1>1, <1>3 DEF col

\* A run copied, and the pointers are ready for the next.
LEMMA CopyRunKeeps ==
  ASSUME Frame2, Copying, R2!CopyRun
  PROVE  Frame2' /\ Copying' /\ phase' = "copy"
<1>1. /\ left > 0 /\ phase' = "copy" /\ UNCHANGED <<raw, m_type, m_xgap, m_ygap>>
      /\ srcPt' = srcPt + N
      /\ dstPt' = R2!AfterRun(dstPt + N * R2!Line)
      /\ jump' = IF run \in {1, 3} THEN jump - 1 ELSE jump
      /\ run'  = (run + 1) % 4
      /\ left' = IF run = 3 THEN left - 1 ELSE left
  BY DEF R2!CopyRun, R2!params
<1>2. /\ DOMAIN data' = DOMAIN data
      /\ \A x \in 0 .. Wide - 1, y \in 0 .. High - 1 : R2!InChips(x, y) =>
           data'[Spot(x, y)] = IF ColumnAt(x, y) = N - left /\ ChipAt(x, y) = run
                               THEN R2!Seen(x, y) ELSE data[Spot(x, y)]
  BY <1>1, RunCopied
<1>3. Frame2'  BY <1>1, <1>2 DEF Frame2, Gaps2, Wide, High
<1>4. N \in Nat /\ N >= 2 /\ Wide \in Nat /\ High \in Nat /\ Gaps2  BY WideHigh DEF Frame2
<1>5. /\ Wide' = Wide /\ High' = High /\ \A x, y : Spot(x, y)' = Spot(x, y)
      /\ \A x, y : R2!InChips(x, y)' = R2!InChips(x, y) /\ R2!Seen(x, y)' = R2!Seen(x, y)
      /\ \A x, y : ColumnAt(x, y)' = ColumnAt(x, y) /\ ChipAt(x, y)' = ChipAt(x, y)
  BY <1>1 DEF Wide, High, Spot, R2!InChips, R2!Seen, R2!Read, R2!aTotalWidth, R2!aTotalHeight,
       ColumnAt, ChipAt
<1>6. /\ left \in 0 .. N /\ run \in 0 .. 3 /\ srcPt = (N - left) * 4 * N + run * N
      /\ jump = Wide - 1 - 2 * (N - left) - IF run \in {2, 3} THEN 1 ELSE 0
  BY DEF Copying
<1>7. left' \in 0 .. N /\ run' \in 0 .. 3 /\ (left' = 0 => run' = 0)
      /\ (IF run = 3 THEN run' = 0 /\ left' = left - 1 ELSE run' = run + 1 /\ left' = left)
  BY <1>1, <1>4, <1>6
<1>8. srcPt' = (N - left') * 4 * N + run' * N
  <2>1. CASE run = 3
    <3>1. (N - left) * 4 * N + 3 * N + N = (N - (left - 1)) * 4 * N + 0 * N  BY <1>4, <1>6
    <3> QED  BY <1>1, <1>6, <1>7, <2>1, <3>1
  <2>2. CASE run # 3
    <3>1. (N - left) * 4 * N + run * N + N = (N - left) * 4 * N + (run + 1) * N  BY <1>4, <1>6
    <3> QED  BY <1>1, <1>6, <1>7, <2>2, <3>1
  <2> QED  BY <2>1, <2>2
<1>9. jump' = Wide' - 1 - 2 * (N - left') - IF run' \in {2, 3} THEN 1 ELSE 0
  BY <1>1, <1>4, <1>5, <1>6, <1>7
<1>10. dstPt' = Spot(RunX(N - left, run), RunY(run))'
  <2>1. R2!AfterRun(dstPt + N * R2!Line) =
           IF run = 3 THEN Spot(RunX(N - left + 1, 0), RunY(0))
           ELSE Spot(RunX(N - left, run + 1), RunY(run + 1))
    BY <1>1, <1>4, RunMoves
  <2>2. N - (left - 1) = N - left + 1  BY <1>4, <1>6
  <2>3. dstPt' = Spot(RunX(N - left', run'), RunY(run'))  BY <1>1, <1>7, <2>1, <2>2
  <2>4. RunX(N - left, run)' = RunX(N - left', run')  BY <1>5 DEF RunX
  <2>5. RunY(run)' = RunY(run')  BY <1>1, <1>5 DEF RunY
  <2> QED  BY <1>5, <2>3, <2>4, <2>5 DEF Spot
<1>11. Copied(N - left, run)'
  <2> SUFFICES ASSUME NEW x \in 0 .. Wide - 1, NEW y \in 0 .. High - 1, R2!InChips(x, y),
                      \/ ColumnAt(x, y) < N - left'
                      \/ ColumnAt(x, y) = N - left' /\ ChipAt(x, y) < run'
               PROVE  data'[Spot(x, y)] = R2!Seen(x, y)
    BY <1>5 DEF Copied
  <2>1. ColumnAt(x, y) \in Int /\ ChipAt(x, y) \in 0 .. 3  BY <1>4, SeenIs
  <2>2. \/ ColumnAt(x, y) < N - left
        \/ ColumnAt(x, y) = N - left /\ ChipAt(x, y) < run
        \/ ColumnAt(x, y) = N - left /\ ChipAt(x, y) = run
    BY <1>4, <1>6, <1>7, <2>1
  <2>3. data[Spot(x, y)] = R2!Seen(x, y) \/ (ColumnAt(x, y) = N - left /\ ChipAt(x, y) = run)
    BY <2>2 DEF Copying, Copied
  <2> QED  BY <1>2, <2>3
<1> QED  BY <1>1, <1>3, <1>7, <1>8, <1>9, <1>10, <1>11 DEF Copying

\* The pixels from column a to column b of line z, by their places.
LEMMA InRun ==
  ASSUME Gaps2, NEW x \in 0 .. Wide - 1, NEW y \in 0 .. High - 1, NEW z \in Int,
         NEW a \in Int, 0 <= a, NEW b \in Int, b < Wide
  PROVE  Spot(x, y) \in Spot(a, z) .. Spot(b, z) <=> y = z /\ x \in a .. b
<1>1. Wide \in Nat /\ High \in Nat  BY WideHigh
<1>2. z * Wide + a <= y * Wide + x /\ y * Wide + x <= z * Wide + b <=> y = z /\ a <= x /\ x <= b
  BY <1>1, OnLine
<1>3. z * Wide + a \in Int /\ y * Wide + x \in Int /\ z * Wide + b \in Int  BY <1>1
<1> HIDE DEF Wide, High
<1> QED  BY <1>1, <1>2, <1>3 DEF Spot

\* A step along a line.
LEMMA SpotStep ==
  ASSUME Gaps2, NEW x \in Int, NEW y \in Int, NEW i \in Int
  PROVE  Spot(x, y) \in Int /\ Spot(x, y) + i = Spot(x + i, y)
<1>1. Wide \in Nat  BY WideHigh
<1>2. y * Wide \in Int  BY <1>1
<1> HIDE DEF Wide
<1> QED  BY <1>1, <1>2 DEF Spot

\* The gaps have halves, if they are dispatched.
Halves == ~R2!Halved

\* The shares.
LEMMA NbIs ==
  ASSUME Gaps2
  PROVE  /\ R2!NbX \in Nat \ {0} /\ R2!NbY \in Nat \ {0}
         /\ m_type = "DISPATCH" /\ Halves => 2 * R2!NbX = m_xgap + 2 /\ 2 * R2!NbY = m_ygap + 2
BY DEF Gaps2, R2!NbX, R2!NbY, Halves, R2!Halved

\* A line that crosses the vertical gap only.
Crossed(y) == ~R2!NearY(y) \/ (m_type = "RAW" /\ (y < N \/ y >= N + m_ygap))

\* The chips' pixels of line y of b are as seen; the line is as expected.
SeenOn(b, y)  == \A x \in 0 .. Wide - 1 : R2!InChips(x, y) => b[Spot(x, y)] = R2!Seen(x, y)
RightOn(b, y) == \A x \in 0 .. Wide - 1 : b[Spot(x, y)] = R2!Expected(x, y)
\* Nothing but line z of b changed in c.
OtherLines(b, c, z) ==
  /\ DOMAIN c = DOMAIN b
  /\ \A x \in 0 .. Wide - 1, y \in 0 .. High - 1 : y # z => c[Spot(x, y)] = b[Spot(x, y)]

\* FillLine makes a line that crosses the vertical gap as expected.
LEMMA LineFilled ==
  ASSUME Frame2, Halves, NEW z \in 0 .. High - 1, Crossed(z), SeenOn(data, z)
  PROVE  LET c == R2!FillLine(data, Spot(R2!FirstPixel, z))
         IN RightOn(c, z) /\ OtherLines(data, c, z)
<1> DEFINE d == Spot(R2!FirstPixel, z)
           c == R2!FillLine(data, d)
<1> SUFFICES RightOn(c, z) /\ OtherLines(data, c, z)  OBVIOUS
<1>1. /\ N \in Nat /\ N >= 2 /\ Wide \in Nat /\ Wide = 2 * N + m_xgap /\ High \in Nat
      /\ m_xgap \in Nat /\ m_ygap \in Nat /\ Gaps2
  BY WideHigh DEF Frame2, Wide
<1>2. z \in Int  BY <1>1
<1>3. \A x \in 0 .. Wide - 1, y \in 0 .. High - 1 : Spot(x, y) \in DOMAIN data
  <2>1. Wide * High \in Int  BY <1>1
  <2> QED  BY <1>1, <2>1, SpotIn DEF Frame2
<1>4. \A x \in 0 .. Wide - 1 : ~R2!NearX(x) => R2!InChips(x, z)
  BY <1>1 DEF R2!NearX, R2!InChips, Crossed, R2!NearY
<1>5. R2!InChips(N - 1, z) /\ R2!InChips(N + m_xgap, z)
  BY <1>1 DEF R2!InChips, Crossed, R2!NearY
<1>6. data[Spot(N - 1, z)] = R2!Seen(N - 1, z) /\ data[Spot(N + m_xgap, z)] = R2!Seen(N + m_xgap, z)
  BY <1>1, <1>5 DEF SeenOn
<1>7. d \in Int /\ \A i \in Int : d + i = Spot(R2!FirstPixel + i, z)
  <2>1. R2!FirstPixel \in Int  BY <1>1 DEF R2!FirstPixel
  <2> QED  BY <1>1, <1>2, <2>1, SpotStep
<1>8. CASE m_type = "RAW"
  <2>1. R2!FirstPixel = N  BY <1>8 DEF R2!FirstPixel
  <2>2. c = [k \in DOMAIN data |-> IF k \in d .. d + m_xgap - 1 THEN 0 ELSE data[k]]
    BY <1>8 DEF R2!FillLine, R2!With
  <2>3. d + m_xgap - 1 = Spot(N + m_xgap - 1, z)
    <3>1. d + (m_xgap - 1) = Spot(N + (m_xgap - 1), z)  BY <1>1, <1>7, <2>1
    <3> QED  BY <1>1, <3>1
  <2>4. ASSUME NEW x \in 0 .. Wide - 1, NEW y \in 0 .. High - 1
        PROVE  c[Spot(x, y)] = IF y = z /\ x \in N .. N + m_xgap - 1 THEN 0 ELSE data[Spot(x, y)]
    <3>1. Spot(x, y) \in d .. d + m_xgap - 1 <=> y = z /\ x \in N .. N + m_xgap - 1
      BY <1>1, <1>2, <2>1, <2>3, InRun
    <3> HIDE DEF c, d
    <3> QED  BY <1>3, <2>2, <3>1
  <2>5. DOMAIN c = DOMAIN data  BY <2>2
  <2> HIDE DEF c
  <2>6. ASSUME NEW x \in 0 .. Wide - 1 PROVE c[Spot(x, z)] = R2!Expected(x, z)
    <3>1. R2!InChips(x, z) <=> x \notin N .. N + m_xgap - 1
      BY <1>1, <1>8 DEF R2!InChips, Crossed, R2!NearY
    <3>2. R2!Expected(x, z) = IF R2!InChips(x, z) THEN R2!Seen(x, z) ELSE 0
      BY <1>4, <1>8 DEF R2!Expected
    <3> QED  BY <2>4, <3>1, <3>2 DEF SeenOn
  <2> QED  BY <2>4, <2>5, <2>6 DEF RightOn, OtherLines
<1>9. ASSUME m_type # "RAW" PROVE R2!FirstPixel = N - 1 /\ d + m_xgap + 1 = Spot(N + m_xgap, z) /\ ~R2!NearY(z)
  <2>1. R2!FirstPixel = N - 1  BY <1>9 DEF R2!FirstPixel
  <2>2. d + (m_xgap + 1) = Spot(N - 1 + (m_xgap + 1), z)  BY <1>1, <1>7, <2>1
  <2>3. N - 1 + (m_xgap + 1) = N + m_xgap /\ d + (m_xgap + 1) = d + m_xgap + 1  BY <1>1, <1>7
  <2> QED  BY <1>9, <2>1, <2>2, <2>3 DEF Crossed
<1>10. ASSUME m_type # "RAW", NEW x \in 0 .. Wide - 1, NEW y \in 0 .. High - 1
       PROVE  Spot(x, y) \in d .. d + m_xgap + 1 <=> y = z /\ R2!NearX(x)
  <2>1. Spot(x, y) \in d .. d + m_xgap + 1 <=> y = z /\ x \in N - 1 .. N + m_xgap
    BY <1>1, <1>2, <1>9, <1>10, InRun
  <2> QED  BY <2>1 DEF R2!NearX
<1>11. CASE m_type = "ZERO"
  <2>1. c = [k \in DOMAIN data |-> IF k \in d .. d + m_xgap + 1 THEN 0 ELSE data[k]]
    BY <1>11 DEF R2!FillLine, R2!With
  <2>2. ASSUME NEW x \in 0 .. Wide - 1, NEW y \in 0 .. High - 1
        PROVE  c[Spot(x, y)] = IF y = z /\ R2!NearX(x) THEN 0 ELSE data[Spot(x, y)]
    <3>1. Spot(x, y) \in d .. d + m_xgap + 1 <=> y = z /\ R2!NearX(x)
      BY <1>10, <1>11
    <3> HIDE DEF c, d
    <3> QED  BY <1>3, <2>1, <3>1
  <2>3. DOMAIN c = DOMAIN data  BY <2>1
  <2> HIDE DEF c
  <2>4. ASSUME NEW x \in 0 .. Wide - 1 PROVE c[Spot(x, z)] = R2!Expected(x, z)
    <3>1. R2!Expected(x, z) = IF R2!NearX(x) THEN 0 ELSE R2!Seen(x, z)
      BY <1>9, <1>11 DEF R2!Expected
    <3> QED  BY <1>4, <2>2, <3>1 DEF SeenOn
  <2> QED  BY <2>2, <2>3, <2>4 DEF RightOn, OtherLines
<1>12. CASE m_type = "MEAN"
  <2>1. c = [k \in DOMAIN data |-> IF k \in d .. d + m_xgap + 1
                THEN R2!Interp(data[d], data[d + m_xgap + 1], k - d, m_xgap + 1, R2!NbX) ELSE data[k]]
    BY <1>12 DEF R2!FillLine, R2!With
  <2>2. data[d] = R2!Seen(N - 1, z) /\ data[d + m_xgap + 1] = R2!Seen(N + m_xgap, z)
    BY <1>6, <1>9, <1>12
  <2>3. ASSUME NEW x \in 0 .. Wide - 1 PROVE Spot(x, z) - d = x - N + 1
    <3>1. d + (x - N + 1) = Spot(N - 1 + (x - N + 1), z)  BY <1>1, <1>7, <1>9, <1>12
    <3>2. N - 1 + (x - N + 1) = x  BY <1>1
    <3> QED  BY <1>1, <1>7, <3>1, <3>2
  <2>4. ASSUME NEW x \in 0 .. Wide - 1, NEW y \in 0 .. High - 1
        PROVE  c[Spot(x, y)] = IF y = z /\ R2!NearX(x)
                               THEN R2!Interp(R2!Seen(N - 1, z), R2!Seen(N + m_xgap, z),
                                              x - N + 1, m_xgap + 1, R2!NbX)
                               ELSE data[Spot(x, y)]
    <3>1. Spot(x, y) \in d .. d + m_xgap + 1 <=> y = z /\ R2!NearX(x)
      BY <1>10, <1>12
    <3> HIDE DEF c, d
    <3> QED  BY <1>3, <2>1, <2>2, <2>3, <3>1
  <2>5. DOMAIN c = DOMAIN data  BY <2>1
  <2> HIDE DEF c
  <2>6. ASSUME NEW x \in 0 .. Wide - 1 PROVE c[Spot(x, z)] = R2!Expected(x, z)
    <3>1. R2!Expected(x, z) = IF R2!NearX(x)
             THEN R2!Interp(R2!Seen(N - 1, z), R2!Seen(N + m_xgap, z), x - N + 1, m_xgap + 1, R2!NbX)
             ELSE R2!Seen(x, z)
      BY <1>9, <1>12 DEF R2!Expected, R2!Mean
    <3> QED  BY <1>4, <2>4, <3>1 DEF SeenOn
  <2> QED  BY <2>4, <2>5, <2>6 DEF RightOn, OtherLines
<1>13. CASE m_type = "DISPATCH"
  <2> DEFINE nb == R2!NbX
             e  == d + 2 * nb - 1
             b1 == [k \in DOMAIN data |-> IF k \in d .. d + nb - 1 THEN data[d] \div nb ELSE data[k]]
  <2>1. c = [k \in DOMAIN b1 |-> IF k \in d + nb .. e THEN b1[e] \div nb ELSE b1[k]]
    BY <1>13 DEF R2!FillLine, R2!With
  <2>2. nb \in Nat /\ nb >= 1 /\ 2 * nb = m_xgap + 2  BY <1>1, <1>13, NbIs
  <2> HIDE DEF nb
  <2>3. e = Spot(N + m_xgap, z)
    <3>1. d + 2 * nb - 1 = d + m_xgap + 1  BY <1>1, <1>7, <2>2
    <3> QED  BY <1>9, <1>13, <3>1
  <2>4. data[d] = R2!Seen(N - 1, z) /\ data[e] = R2!Seen(N + m_xgap, z)
    BY <1>6, <1>9, <1>13, <2>3
  <2>5. e \in DOMAIN data  BY <1>1, <1>3, <2>3
  <2>6. b1[e] = data[e]
    <3>1. e \notin d .. d + nb - 1  BY <1>7, <2>2
    <3> HIDE DEF e, d
    <3> QED  BY <2>5, <3>1
  <2>7. ASSUME NEW x \in 0 .. Wide - 1, NEW y \in 0 .. High - 1
        PROVE  /\ Spot(x, y) \in d .. d + nb - 1 <=> y = z /\ x \in N - 1 .. N + nb - 2
               /\ Spot(x, y) \in d + nb .. e <=> y = z /\ x \in N + nb - 1 .. N + m_xgap
    <3>1. d + (nb - 1) = Spot(N - 1 + (nb - 1), z) /\ d + nb = Spot(N - 1 + nb, z)
      BY <1>1, <1>7, <1>9, <1>13, <2>2
    <3>2. /\ N - 1 + (nb - 1) = N + nb - 2 /\ N - 1 + nb = N + nb - 1
          /\ d + (nb - 1) = d + nb - 1
      BY <1>1, <1>7, <2>2
    <3>3. Spot(x, y) \in Spot(N - 1, z) .. Spot(N + nb - 2, z) <=> y = z /\ x \in N - 1 .. N + nb - 2
      BY <1>1, <1>2, <2>2, InRun
    <3>4. Spot(x, y) \in Spot(N + nb - 1, z) .. Spot(N + m_xgap, z)
             <=> y = z /\ x \in N + nb - 1 .. N + m_xgap
      BY <1>1, <1>2, <2>2, InRun
    <3>5. d = Spot(N - 1, z)  BY <1>9, <1>13
    <3> HIDE DEF d, e
    <3> QED  BY <2>3, <3>1, <3>2, <3>3, <3>4, <3>5
  <2>8. ASSUME NEW x \in 0 .. Wide - 1, NEW y \in 0 .. High - 1
        PROVE  c[Spot(x, y)] = IF y = z /\ x \in N - 1 .. N + nb - 2 THEN R2!Seen(N - 1, z) \div nb
                               ELSE IF y = z /\ x \in N + nb - 1 .. N + m_xgap
                                    THEN R2!Seen(N + m_xgap, z) \div nb
                               ELSE data[Spot(x, y)]
    <3>1. Spot(x, y) \in DOMAIN data /\ DOMAIN b1 = DOMAIN data  BY <1>3
    <3>2. b1[Spot(x, y)] = IF y = z /\ x \in N - 1 .. N + nb - 2 THEN R2!Seen(N - 1, z) \div nb
                           ELSE data[Spot(x, y)]
      <4> HIDE DEF d
      <4> QED  BY <2>4, <2>7, <3>1
    <3>3. c[Spot(x, y)] = IF y = z /\ x \in N + nb - 1 .. N + m_xgap
                          THEN R2!Seen(N + m_xgap, z) \div nb ELSE b1[Spot(x, y)]
      <4> HIDE DEF d, e, b1, c
      <4> QED  BY <2>1, <2>4, <2>6, <2>7, <3>1
    <3>4. ~(x \in N - 1 .. N + nb - 2 /\ x \in N + nb - 1 .. N + m_xgap)  BY <1>1, <2>2
    <3> HIDE DEF b1, c, d
    <3> QED  BY <3>2, <3>3, <3>4
  <2>9. DOMAIN c = DOMAIN data  BY <2>1
  <2> HIDE DEF c, b1
  <2>10. ASSUME NEW x \in 0 .. Wide - 1 PROVE c[Spot(x, z)] = R2!Expected(x, z)
    <3>1. CASE ~R2!NearX(x)
      <4>1. R2!Expected(x, z) = R2!Seen(x, z)  BY <1>9, <1>13, <3>1 DEF R2!Expected
      <4>2. x \notin N - 1 .. N + nb - 2 /\ x \notin N + nb - 1 .. N + m_xgap
        BY <1>1, <2>2, <3>1 DEF R2!NearX
      <4> QED  BY <1>4, <2>8, <3>1, <4>1, <4>2 DEF SeenOn
    <3>2. CASE R2!NearX(x)
      <4>1. R2!Expected(x, z) = R2!Seen(R2!SideX(x), R2!SideY(z)) \div R2!Shares(x, z)
        BY <1>13, <3>2 DEF R2!Expected
      <4>2. R2!SideY(z) = z  BY <1>9, <1>13 DEF R2!SideY
      <4>3. R2!Shares(x, z) = nb
        <5>1. nb * 1 = nb  BY <2>2
        <5> QED  BY <1>9, <1>13, <3>2, <5>1 DEF R2!Shares, nb
      <4>4. R2!SideX(x) = IF x \in N - 1 .. N + nb - 2 THEN N - 1 ELSE N + m_xgap
        BY <1>1, <2>2, <3>2 DEF R2!SideX, R2!NearX
      <4>5. x \in N - 1 .. N + nb - 2 \/ x \in N + nb - 1 .. N + m_xgap
        BY <1>1, <2>2, <3>2 DEF R2!NearX
      <4> QED  BY <2>8, <4>1, <4>2, <4>3, <4>4, <4>5
    <3> QED  BY <3>1, <3>2
  <2> QED  BY <2>2, <2>8, <2>9, <2>10 DEF RightOn, OtherLines
<1>14. m_type \in {"RAW", "ZERO", "DISPATCH", "MEAN"}  BY DEF Frame2, R2!Types
<1> QED  BY <1>8, <1>11, <1>12, <1>13, <1>14

\* The first of the lines below.
LowFirst == IF m_type = "RAW" THEN N + m_ygap ELSE N + m_ygap + 1

\* The image before the lines between are filled.
Middle ==
  /\ Frame2 /\ Halves
  /\ dstPt = Spot(R2!FirstPixel, R2!NbLines)
  /\ \A y \in 0 .. High - 1 : y >= R2!NbLines => SeenOn(data, y)

\* In c the lines between are as expected and the others are those of data.
MiddleDone(c) ==
  /\ DOMAIN c = DOMAIN data
  /\ \A x \in 0 .. Wide - 1, y \in 0 .. High - 1 :
       IF y \in R2!NbLines .. LowFirst - 1
       THEN c[Spot(x, y)] = R2!Expected(x, y)
       ELSE c[Spot(x, y)] = data[Spot(x, y)]

\* n whole lines from line z.
LEMMA InLines ==
  ASSUME Gaps2, NEW x \in 0 .. Wide - 1, NEW y \in 0 .. High - 1, NEW z \in Int, NEW n \in Int
  PROVE  Spot(x, y) \in z * Wide .. z * Wide + Wide * n - 1 <=> y \in z .. z + n - 1
<1>1. Wide \in Nat /\ High \in Nat  BY WideHigh
<1>2. /\ y < z => y * Wide + x < z * Wide
      /\ y >= z => y * Wide + x >= z * Wide
  BY <1>1, LineOrder
<1>3. /\ y < z + n => y * Wide + x < (z + n) * Wide
      /\ y >= z + n => y * Wide + x >= (z + n) * Wide
  BY <1>1, LineOrder
<1>4. (z + n) * Wide = z * Wide + Wide * n  BY <1>1
<1>5. y * Wide \in Int /\ z * Wide \in Int /\ Wide * n \in Int /\ y \in Int  BY <1>1
<1> HIDE DEF Wide, High
<1> QED  BY <1>1, <1>2, <1>3, <1>4, <1>5 DEF Spot

\* The facts of the middle that each type needs.
LEMMA MiddleIs ==
  ASSUME Middle
  PROVE  /\ Gaps2 /\ N \in Nat /\ N >= 2 /\ Wide \in Nat /\ Wide = 2 * N + m_xgap
         /\ High \in Nat /\ High = 2 * N + m_ygap /\ m_xgap \in Nat /\ m_ygap \in Nat
         /\ R2!aTotalWidth = Wide
         /\ R2!NbLines = (IF m_type = "RAW" THEN N ELSE N - 1)
         /\ R2!Start = R2!NbLines * Wide
         /\ \A x \in 0 .. Wide - 1, y \in 0 .. High - 1 : Spot(x, y) \in DOMAIN data
<1>1. /\ Gaps2 /\ N \in Nat /\ N >= 2 /\ Wide \in Nat /\ Wide = 2 * N + m_xgap
      /\ High \in Nat /\ High = 2 * N + m_ygap /\ m_xgap \in Nat /\ m_ygap \in Nat
      /\ R2!aTotalWidth = Wide
  BY WideHigh DEF Middle, Frame2, Wide, High
<1>2. R2!NbLines = (IF m_type = "RAW" THEN N ELSE N - 1)  BY DEF R2!NbLines
<1>3. R2!Start = R2!NbLines * Wide
  <2>1. R2!FirstPixel \in Int /\ R2!NbLines \in Int  BY <1>1 DEF R2!FirstPixel, R2!NbLines
  <2>2. R2!NbLines * Wide \in Int  BY <1>1, <2>1
  <2> HIDE DEF Wide
  <2> QED  BY <2>1, <2>2 DEF R2!Start, Middle, Spot
<1>4. \A x \in 0 .. Wide - 1, y \in 0 .. High - 1 : Spot(x, y) \in DOMAIN data
  <2>1. Wide * High \in Int  BY <1>1
  <2> QED  BY <1>1, <2>1, SpotIn DEF Middle, Frame2
<1> QED  BY <1>1, <1>2, <1>3, <1>4

\* RAW and ZERO: the lines between are zeros.
LEMMA MiddleRaw == ASSUME Middle, m_type = "RAW" PROVE MiddleDone(R2!Between)
<1> DEFINE c == R2!Between
<1>1. /\ Gaps2 /\ N \in Nat /\ N >= 2 /\ Wide \in Nat /\ m_xgap \in Nat /\ m_ygap \in Nat
      /\ R2!aTotalWidth = Wide /\ R2!NbLines = N /\ R2!Start = N * Wide /\ LowFirst = N + m_ygap
      /\ \A x \in 0 .. Wide - 1, y \in 0 .. High - 1 : Spot(x, y) \in DOMAIN data
  BY MiddleIs DEF LowFirst
<1>2. c = [k \in DOMAIN data |-> IF k \in N * Wide .. N * Wide + Wide * m_ygap - 1 THEN 0 ELSE data[k]]
  BY <1>1 DEF R2!Between, R2!With
<1>3. DOMAIN c = DOMAIN data  BY <1>2
<1> HIDE DEF c
<1>4. ASSUME NEW x \in 0 .. Wide - 1, NEW y \in 0 .. High - 1
      PROVE  c[Spot(x, y)] = IF y \in N .. N + m_ygap - 1 THEN 0 ELSE data[Spot(x, y)]
  <2>1. Spot(x, y) \in N * Wide .. N * Wide + Wide * m_ygap - 1 <=> y \in N .. N + m_ygap - 1
    <3>1. Gaps2 /\ N \in Int /\ m_ygap \in Int  BY <1>1
    <3> QED  BY <3>1, InLines, Zenon
  <2> QED  BY <1>1, <1>2, <2>1
<1>5. ASSUME NEW x \in 0 .. Wide - 1, NEW y \in 0 .. High - 1, y \in N .. N + m_ygap - 1
      PROVE  R2!Expected(x, y) = 0
  BY <1>1, <1>5 DEF R2!Expected, R2!NearY, R2!InChips
<1> QED  BY <1>1, <1>3, <1>4, <1>5 DEF MiddleDone, c

LEMMA MiddleZero == ASSUME Middle, m_type = "ZERO" PROVE MiddleDone(R2!Between)
<1> DEFINE c == R2!Between
<1>1. /\ Gaps2 /\ N \in Nat /\ N >= 2 /\ Wide \in Nat /\ m_xgap \in Nat /\ m_ygap \in Nat
      /\ R2!aTotalWidth = Wide /\ R2!NbLines = N - 1 /\ R2!Start = (N - 1) * Wide
      /\ LowFirst = N + m_ygap + 1
      /\ \A x \in 0 .. Wide - 1, y \in 0 .. High - 1 : Spot(x, y) \in DOMAIN data
  BY MiddleIs DEF LowFirst
<1>2. c = [k \in DOMAIN data |->
             IF k \in (N - 1) * Wide .. (N - 1) * Wide + Wide * (m_ygap + 2) - 1 THEN 0 ELSE data[k]]
  BY <1>1 DEF R2!Between, R2!With
<1>3. DOMAIN c = DOMAIN data  BY <1>2
<1> HIDE DEF c
<1>4. ASSUME NEW x \in 0 .. Wide - 1, NEW y \in 0 .. High - 1
      PROVE  c[Spot(x, y)] = IF y \in N - 1 .. N + m_ygap THEN 0 ELSE data[Spot(x, y)]
  <2>1. Spot(x, y) \in (N - 1) * Wide .. (N - 1) * Wide + Wide * (m_ygap + 2) - 1
          <=> y \in N - 1 .. N - 1 + (m_ygap + 2) - 1
    <3>1. Gaps2 /\ N - 1 \in Int /\ m_ygap + 2 \in Int  BY <1>1
    <3> QED  BY <3>1, InLines, Zenon
  <2>2. N - 1 + (m_ygap + 2) - 1 = N + m_ygap  BY <1>1
  <2> QED  BY <1>1, <1>2, <2>1, <2>2
<1>5. ASSUME NEW x \in 0 .. Wide - 1, NEW y \in 0 .. High - 1, y \in N - 1 .. N + m_ygap
      PROVE  R2!Expected(x, y) = 0
  BY <1>1, <1>5 DEF R2!Expected, R2!NearY
<1>6. LowFirst - 1 = N + m_ygap  BY <1>1
<1> QED  BY <1>1, <1>3, <1>4, <1>5, <1>6 DEF MiddleDone, c

\* MEAN in the middle of the four chips.
LEMMA CornerFilled ==
  ASSUME Middle, m_type = "MEAN"
  PROVE  LET b == R2!MeanCorner(data, dstPt)
         IN /\ DOMAIN b = DOMAIN data
            /\ \A x \in 0 .. Wide - 1, y \in 0 .. High - 1 :
                 b[Spot(x, y)] = IF R2!NearX(x) /\ R2!NearY(y) THEN R2!MeanOfFour(x, y)
                                 ELSE data[Spot(x, y)]
<1> DEFINE d == dstPt
           n == m_xgap + 1
           m == m_ygap + 1
           across(l, i) == data[d + l * Wide] * (n - i) + data[d + l * Wide + n] * i
           value(l, i)  == (across(0, i) * (m - l) + across(m, i) * l)
                             \div (n * m * (R2!NbX + R2!NbY))
           ks == {d + l * Wide + i : l \in 0 .. m, i \in 0 .. n}
           b == R2!MeanCorner(data, d)
<1>1. /\ Gaps2 /\ N \in Nat /\ N >= 2 /\ Wide \in Nat /\ Wide = 2 * N + m_xgap
      /\ High \in Nat /\ High = 2 * N + m_ygap /\ m_xgap \in Nat /\ m_ygap \in Nat
      /\ R2!aTotalWidth = Wide /\ R2!NbLines = N - 1
      /\ \A x \in 0 .. Wide - 1, y \in 0 .. High - 1 : Spot(x, y) \in DOMAIN data
  BY MiddleIs
<1>2. d = (N - 1) * Wide + (N - 1) /\ (N - 1) * Wide \in Int
  BY <1>1 DEF Middle, Spot, R2!FirstPixel
<1>3. b = [k \in DOMAIN data |->
             IF k \in ks THEN value((k - d) \div Wide, (k - d) % Wide) ELSE data[k]]
  BY <1>1 DEF R2!MeanCorner, R2!With
<1>4. ASSUME NEW x \in 0 .. Wide - 1, NEW y \in 0 .. High - 1
      PROVE  Spot(x, y) \in ks <=> R2!NearX(x) /\ R2!NearY(y)
  <2>1. x \in Int /\ 0 <= x /\ x < Wide /\ y \in Int /\ Spot(x, y) = y * Wide + x
        /\ y * Wide \in Int
    BY <1>1 DEF Spot
  <2>2. ASSUME Spot(x, y) \in ks PROVE R2!NearX(x) /\ R2!NearY(y)
    <3>1. PICK l \in 0 .. m, i \in 0 .. n : Spot(x, y) = d + l * Wide + i  BY <2>2
    <3>2. (N - 1) * Wide + (N - 1) + l * Wide + i = (N - 1 + l) * Wide + (N - 1 + i)  BY <1>1
    <3>3. y * Wide + x = (N - 1 + l) * Wide + (N - 1 + i) <=> y = N - 1 + l /\ x = N - 1 + i
      <4> DEFINE v == N - 1 + l
                 u == N - 1 + i
      <4>1. v \in Int /\ u \in Int /\ 0 <= u /\ u < Wide  BY <1>1
      <4> HIDE DEF v, u, n, m
      <4>2. y * Wide + x = v * Wide + u <=> y = v /\ x = u  BY <1>1, <2>1, <4>1, OneSpot
      <4> QED  BY <4>2 DEF v, u
    <3>4. y = N - 1 + l /\ x = N - 1 + i  BY <1>2, <2>1, <3>1, <3>2, <3>3
    <3> QED  BY <1>1, <3>4 DEF R2!NearX, R2!NearY
  <2>3. ASSUME R2!NearX(x), R2!NearY(y) PROVE Spot(x, y) \in ks
    <3>1. x - N + 1 \in 0 .. n /\ y - N + 1 \in 0 .. m  BY <1>1, <2>1, <2>3 DEF R2!NearX, R2!NearY
    <3>2. Spot(x, y) = d + (y - N + 1) * Wide + (x - N + 1)
      <4>1. y * Wide + x = (N - 1) * Wide + (N - 1) + (y - N + 1) * Wide + (x - N + 1)
        BY <1>1, <2>1
      <4> QED  BY <1>2, <2>1, <4>1
    <3> HIDE DEF d, n, m
    <3> QED  BY <3>1, <3>2
  <2> QED  BY <2>2, <2>3
<1>5. ASSUME NEW x \in 0 .. Wide - 1, NEW y \in 0 .. High - 1, R2!NearX(x)
      PROVE  (Spot(x, y) - d) % Wide = x - N + 1 /\ (Spot(x, y) - d) \div Wide = y - N + 1
  <2> DEFINE k == Spot(x, y) - d
             q == y - N + 1
             i == x - N + 1
  <2>1. i \in Int /\ 0 <= i /\ i < Wide /\ q \in Int  BY <1>1, <1>5 DEF R2!NearX
  <2>2. k = Wide * q + i
    <3>1. (y * Wide + x) - ((N - 1) * Wide + (N - 1)) = Wide * (y - N + 1) + (x - N + 1)  BY <1>1
    <3>2. k = (y * Wide + x) - d  BY DEF Spot
    <3>3. d = (N - 1) * Wide + (N - 1)  BY <1>2
    <3> HIDE DEF d, k
    <3> QED  BY <3>1, <3>2, <3>3
  <2> HIDE DEF k, q, i
  <2>3. k % Wide = i /\ k \div Wide = q  BY <1>1, <2>1, <2>2, DivIs
  <2> QED  BY <2>3 DEF k, q, i
<1>6. /\ data[d + 0 * Wide] = R2!Seen(N - 1, N - 1)
      /\ data[d + 0 * Wide + n] = R2!Seen(N + m_xgap, N - 1)
      /\ data[d + m * Wide] = R2!Seen(N - 1, N + m_ygap)
      /\ data[d + m * Wide + n] = R2!Seen(N + m_xgap, N + m_ygap)
  <2>1. ASSUME NEW x \in {N - 1, N + m_xgap}, NEW y \in {N - 1, N + m_ygap}
        PROVE  data[Spot(x, y)] = R2!Seen(x, y)
    <3>1. /\ x \in 0 .. Wide - 1 /\ y \in 0 .. High - 1 /\ y >= R2!NbLines /\ R2!InChips(x, y)
      BY <1>1 DEF R2!InChips
    <3> QED  BY <3>1 DEF Middle, SeenOn
  <2>2. d + 0 * Wide = Spot(N - 1, N - 1)  BY <1>1, <1>2 DEF Spot
  <2>3. d + 0 * Wide + n = Spot(N + m_xgap, N - 1)
    <3>1. 0 * Wide = 0  BY <1>1
    <3>2. (N - 1) + (m_xgap + 1) = N + m_xgap  BY <1>1
    <3> QED  BY <1>1, <1>2, <3>1, <3>2 DEF Spot
  <2>4. d + m * Wide = Spot(N - 1, N + m_ygap)
    <3>1. (N - 1) * Wide + (N - 1) + (m_ygap + 1) * Wide = (N + m_ygap) * Wide + (N - 1)  BY <1>1
    <3> QED  BY <1>2, <3>1 DEF Spot
  <2>5. d + m * Wide + n = Spot(N + m_xgap, N + m_ygap)
    <3>1. (N - 1) * Wide + (N - 1) + (m_ygap + 1) * Wide + (m_xgap + 1)
             = (N + m_ygap) * Wide + (N + m_xgap)
      BY <1>1
    <3> QED  BY <1>2, <3>1 DEF Spot
  <2> QED  BY <2>1, <2>2, <2>3, <2>4, <2>5
<1>7. ASSUME NEW x \in 0 .. Wide - 1, NEW y \in 0 .. High - 1, R2!NearX(x), R2!NearY(y)
      PROVE  b[Spot(x, y)] = R2!MeanOfFour(x, y)
  <2> DEFINE k == Spot(x, y)
             l == y - N + 1
             i == x - N + 1
  <2>1. k \in ks /\ (k - d) % Wide = i /\ (k - d) \div Wide = l /\ k \in DOMAIN data
    BY <1>1, <1>4, <1>5, <1>7
  <2>2. b[k] = value(l, i)
    <3> HIDE DEF b, d, k, ks, l, i, value
    <3> QED  BY <1>3, <2>1
  <2>3. n - i = N + m_xgap - x /\ m - l = N + m_ygap - y  BY <1>1
  <2>4. value(l, i) = R2!MeanOfFour(x, y)  BY <1>6, <2>3 DEF R2!MeanOfFour
  <2> QED  BY <2>2, <2>4
<1>8. ASSUME NEW x \in 0 .. Wide - 1, NEW y \in 0 .. High - 1, ~(R2!NearX(x) /\ R2!NearY(y))
      PROVE  b[Spot(x, y)] = data[Spot(x, y)]
  <2>1. Spot(x, y) \notin ks /\ Spot(x, y) \in DOMAIN data  BY <1>1, <1>4, <1>8
  <2> HIDE DEF b, ks, value
  <2> QED  BY <1>3, <2>1
<1>9. DOMAIN b = DOMAIN data  BY <1>3
<1> QED  BY <1>7, <1>8, <1>9

\* MEAN between the upper and the lower chips.
LEMMA MiddleMean == ASSUME Middle, m_type = "MEAN" PROVE MiddleDone(R2!Between)
<1> DEFINE b == R2!MeanCorner(data, dstPt)
           c == R2!Between
           a == R2!Start
           m == m_ygap + 1
           cs == (0 .. N - 2) \cup (N - 1 + m_xgap + 2 .. Wide - 1)
           ks == {a + l * Wide + i : l \in 0 .. m, i \in cs}
           top(k) == a + ((k - a) % Wide)
<1>1. /\ Gaps2 /\ N \in Nat /\ N >= 2 /\ Wide \in Nat /\ Wide = 2 * N + m_xgap
      /\ High \in Nat /\ High = 2 * N + m_ygap /\ m_xgap \in Nat /\ m_ygap \in Nat
      /\ R2!aTotalWidth = Wide /\ R2!NbLines = N - 1 /\ R2!Start = (N - 1) * Wide
      /\ LowFirst = N + m_ygap + 1
      /\ \A x \in 0 .. Wide - 1, y \in 0 .. High - 1 : Spot(x, y) \in DOMAIN data
  BY MiddleIs DEF LowFirst
<1>2. /\ DOMAIN b = DOMAIN data
      /\ \A x \in 0 .. Wide - 1, y \in 0 .. High - 1 :
           b[Spot(x, y)] = IF R2!NearX(x) /\ R2!NearY(y) THEN R2!MeanOfFour(x, y)
                           ELSE data[Spot(x, y)]
  BY CornerFilled
<1>3. c = [k \in DOMAIN b |-> IF k \in ks
             THEN R2!Interp(b[top(k)], b[top(k) + m * Wide], (k - a) \div Wide, m, R2!NbY) ELSE b[k]]
  BY <1>1 DEF R2!Between, R2!MeanCenter, R2!With
<1>4. DOMAIN c = DOMAIN data  BY <1>2, <1>3
<1> HIDE DEF b, c, ks
<1>5. ASSUME NEW x \in 0 .. Wide - 1, NEW y \in 0 .. High - 1
      PROVE  /\ Spot(x, y) \in ks <=> R2!NearY(y) /\ ~R2!NearX(x)
             /\ (Spot(x, y) - a) % Wide = x /\ (Spot(x, y) - a) \div Wide = y - N + 1
  <2>1. (N - 1) * Wide \in Int /\ y * Wide \in Int /\ Spot(x, y) = y * Wide + x /\ a = (N - 1) * Wide
        /\ x \in Int /\ 0 <= x /\ x < Wide /\ y \in Int /\ 0 <= y /\ y < High /\ Wide > 0
    BY <1>1 DEF Spot
  <2>2. Spot(x, y) - a = Wide * (y - N + 1) + x
    <3>1. y * Wide + x - (N - 1) * Wide = Wide * (y - N + 1) + x  BY <1>1
    <3> QED  BY <2>1, <3>1
  <2>3. (Spot(x, y) - a) % Wide = x /\ (Spot(x, y) - a) \div Wide = y - N + 1
    <3>1. y - N + 1 \in Int /\ Wide \in Nat  BY <1>1, <2>1
    <3> DEFINE k == Spot(x, y) - a
               q == y - N + 1
    <3>2. k = Wide * q + x /\ q \in Int  BY <2>2, <3>1
    <3> HIDE DEF k, q
    <3>3. k % Wide = x /\ k \div Wide = q  BY <2>1, <3>1, <3>2, DivIs
    <3> QED  BY <3>3 DEF k, q
  <2>4. ASSUME Spot(x, y) \in ks PROVE R2!NearY(y) /\ ~R2!NearX(x)
    <3>1. PICK l \in 0 .. m, i \in cs : Spot(x, y) = a + l * Wide + i  BY <2>4 DEF ks
    <3>2. (N - 1) * Wide + l * Wide + i = (N - 1 + l) * Wide + i  BY <1>1
    <3>3. l \in Int /\ 0 <= l /\ l <= m_ygap + 1 /\ i \in Int /\ 0 <= i /\ i < Wide  BY <1>1
    <3>4. y * Wide + x = (N - 1 + l) * Wide + i <=> y = N - 1 + l /\ x = i
      <4>1. N - 1 + l \in Int /\ Wide \in Nat  BY <1>1, <3>3
      <4> DEFINE v == N - 1 + l
      <4> HIDE DEF v
      <4>2. y * Wide + x = v * Wide + i <=> y = v /\ x = i
        <5>1. v \in Int  BY <4>1 DEF v
        <5> QED  BY <2>1, <3>3, <4>1, <5>1, OneSpot
      <4> QED  BY <4>2 DEF v
    <3>5. y = N - 1 + l /\ x = i  BY <2>1, <3>1, <3>2, <3>4
    <3> QED  BY <1>1, <3>3, <3>5 DEF R2!NearX, R2!NearY
  <2>5. ASSUME R2!NearY(y), ~R2!NearX(x) PROVE Spot(x, y) \in ks
    <3>1. x \in cs /\ y - N + 1 \in 0 .. m  BY <1>1, <2>1, <2>5 DEF R2!NearX, R2!NearY
    <3>2. Spot(x, y) = a + (y - N + 1) * Wide + x
      <4>1. y * Wide + x = (N - 1) * Wide + (y - N + 1) * Wide + x  BY <1>1, <2>1
      <4> QED  BY <2>1, <4>1
    <3> HIDE DEF a, m, cs
    <3> QED  BY <3>1, <3>2 DEF ks
  <2> QED  BY <2>3, <2>4, <2>5
<1>6. ASSUME NEW x \in 0 .. Wide - 1, NEW y \in 0 .. High - 1, R2!NearY(y), ~R2!NearX(x)
      PROVE  c[Spot(x, y)] = R2!Expected(x, y)
  <2> DEFINE k == Spot(x, y)
  <2>1. k \in ks /\ (k - a) % Wide = x /\ (k - a) \div Wide = y - N + 1 /\ k \in DOMAIN b
    BY <1>1, <1>2, <1>5, <1>6
  <2>2. c[k] = R2!Interp(b[top(k)], b[top(k) + m * Wide], y - N + 1, m, R2!NbY)
    <3> HIDE DEF k
    <3> QED  BY <1>3, <2>1
  <2>3. top(k) = Spot(x, N - 1) /\ top(k) + m * Wide = Spot(x, N + m_ygap)
    <3>1. top(k) = (N - 1) * Wide + x  BY <1>1, <2>1
    <3>2. (N - 1) * Wide + x + (m_ygap + 1) * Wide = (N + m_ygap) * Wide + x  BY <1>1
    <3> QED  BY <3>1, <3>2 DEF Spot
  <2>4. /\ N - 1 \in 0 .. High - 1 /\ N + m_ygap \in 0 .. High - 1 /\ N - 1 >= R2!NbLines
        /\ N + m_ygap >= R2!NbLines /\ R2!InChips(x, N - 1) /\ R2!InChips(x, N + m_ygap)
    BY <1>1, <1>6 DEF R2!InChips, R2!NearX
  <2>5. /\ b[Spot(x, N - 1)] = R2!Seen(x, N - 1)
        /\ b[Spot(x, N + m_ygap)] = R2!Seen(x, N + m_ygap)
    BY <1>2, <1>6, <2>4 DEF Middle, SeenOn
  <2>6. R2!Expected(x, y) = R2!Interp(R2!Seen(x, N - 1), R2!Seen(x, N + m_ygap), y - N + 1, m, R2!NbY)
    BY <1>6 DEF R2!Expected, R2!Mean
  <2> QED  BY <2>2, <2>3, <2>5, <2>6
<1>7. ASSUME NEW x \in 0 .. Wide - 1, NEW y \in 0 .. High - 1, R2!NearY(y) => R2!NearX(x)
      PROVE  c[Spot(x, y)] = IF R2!NearY(y) THEN R2!Expected(x, y) ELSE data[Spot(x, y)]
  <2>1. Spot(x, y) \notin ks /\ Spot(x, y) \in DOMAIN b  BY <1>1, <1>2, <1>5, <1>7
  <2>2. c[Spot(x, y)] = b[Spot(x, y)]  BY <1>3, <2>1
  <2>3. R2!NearY(y) => R2!Expected(x, y) = R2!MeanOfFour(x, y)
    BY <1>7 DEF R2!Expected, R2!Mean
  <2> QED  BY <1>2, <1>7, <2>2, <2>3
<1>8. \A y \in Int : R2!NearY(y) <=> y \in R2!NbLines .. LowFirst - 1  BY <1>1 DEF R2!NearY
<1> QED  BY <1>1, <1>4, <1>6, <1>7, <1>8 DEF MiddleDone, c

\* What one side of the horizontal gap shares out, in column x, from line v.
Shared(b, v, x) ==
  IF x < N - 1 \/ x > N + m_xgap THEN b[Spot(x, v)] \div R2!NbY
  ELSE IF x < N - 1 + R2!NbX THEN b[Spot(N - 1, v)] \div (R2!NbX * R2!NbY)
  ELSE b[Spot(N + m_xgap, v)] \div (R2!NbX * R2!NbY)

\* In c a side is shared out from line v of b, downwards or upwards as s says.
SideIs(b, c, v, s) ==
  /\ DOMAIN c = DOMAIN b
  /\ \A x \in 0 .. Wide - 1, y \in 0 .. High - 1 :
       c[Spot(x, y)] = IF \E i \in 0 .. R2!NbY - 1 : y = v + s * i
                       THEN Shared(b, v, x) ELSE b[Spot(x, y)]

\* A side of DISPATCH: line v and those after or before it.
LEMMA SideFilled ==
  ASSUME Gaps2, m_type = "DISPATCH", Halves, NEW b, DOMAIN b = 0 .. Wide * High - 1,
         NEW v \in 0 .. High - 1, NEW s \in {-1, 1}, NEW towards, towards = s * Wide,
         NEW d, d = Spot(0, v)
  PROVE  SideIs(b, R2!DispatchSide(b, d, towards), v, s)
<1> DEFINE nx == R2!NbX
           ny == R2!NbY
           cols == 0 .. 2 * (N - 1) + 2 * nx - 1
           ks == {d + x + i * towards : x \in cols, i \in 0 .. ny - 1}
           at == [k \in ks |-> CHOOSE x \in cols : \E i \in 0 .. ny - 1 : k = d + x + i * towards]
           share(x) == IF x < N - 1 \/ x >= N - 1 + 2 * nx THEN b[d + x] \div ny
                       ELSE IF x < N - 1 + nx THEN b[d + N - 1] \div (nx * ny)
                       ELSE b[d + N - 1 + 2 * nx - 1] \div (nx * ny)
           c == R2!DispatchSide(b, d, towards)
<1> SUFFICES /\ DOMAIN c = DOMAIN b
             /\ \A x \in 0 .. Wide - 1, y \in 0 .. High - 1 :
                  c[Spot(x, y)] = IF \E i \in 0 .. ny - 1 : y = v + s * i
                                  THEN Shared(b, v, x) ELSE b[Spot(x, y)]
  BY DEF SideIs
<1>1. /\ N \in Nat /\ N >= 2 /\ Wide \in Nat /\ Wide = 2 * N + m_xgap
      /\ High \in Nat /\ m_xgap \in Nat /\ nx \in Nat /\ nx >= 1 /\ ny \in Nat /\ ny >= 1
      /\ 2 * nx = m_xgap + 2
  <2>1. /\ N \in Nat /\ N >= 2 /\ Wide \in Nat /\ High \in Nat /\ m_xgap \in Nat  BY WideHigh
  <2>2. Wide = 2 * N + m_xgap  BY DEF Wide
  <2>3. nx \in Nat \ {0} /\ ny \in Nat \ {0} /\ 2 * nx = m_xgap + 2  BY NbIs
  <2> HIDE DEF nx, ny
  <2> QED  BY <2>1, <2>2, <2>3
<1>2. c = [k \in DOMAIN b |-> IF k \in ks THEN share(at[k]) ELSE b[k]]
  <2>1. c = [k \in DOMAIN b |-> IF k \in DOMAIN at THEN share(at[k]) ELSE b[k]]
    BY DEF R2!DispatchSide, R2!With
  <2>2. DOMAIN at = ks  OBVIOUS
  <2> HIDE DEF c, ks, at, share
  <2> QED  BY <2>1, <2>2
<1>3. cols = 0 .. Wide - 1  BY <1>1
<1>4. d = v * Wide /\ d \in Int /\ \A x \in Int : d + x = Spot(x, v)
  BY <1>1 DEF Spot
<1> HIDE DEF c, nx, ny
<1>5. DOMAIN c = DOMAIN b
  <2> HIDE DEF ks, at, share
  <2> QED  BY <1>2
<1>6. ASSUME NEW x \in 0 .. Wide - 1, NEW y \in 0 .. High - 1, NEW u \in cols, NEW i \in 0 .. ny - 1
      PROVE  Spot(x, y) = d + u + i * towards <=> y = v + s * i /\ x = u
  <2> DEFINE z == v + s * i
  <2>1. z \in Int /\ x \in Int /\ 0 <= x /\ x < Wide /\ y \in Int /\ u \in Int /\ 0 <= u /\ u < Wide
    BY <1>1, <1>3
  <2>2. d + u + i * towards = z * Wide + u
    <3>1. CASE s = 1
      <4>1. v * Wide + u + i * Wide = (v + i) * Wide + u  BY <1>1, <2>1
      <4>2. towards = Wide /\ z = v + i  BY <1>1, <3>1
      <4> QED  BY <1>4, <4>1, <4>2
    <3>2. CASE s = -1
      <4>1. v * Wide + u + i * (-Wide) = (v - i) * Wide + u  BY <1>1, <2>1
      <4>2. towards = -Wide /\ z = v - i  BY <1>1, <3>2
      <4> QED  BY <1>4, <4>1, <4>2
    <3> QED  BY <3>1, <3>2
  <2> HIDE DEF z
  <2>3. y * Wide + x = z * Wide + u <=> y = z /\ x = u  BY <1>1, <2>1, OneSpot
  <2> QED  BY <2>2, <2>3 DEF Spot, z
<1>7. ASSUME NEW x \in 0 .. Wide - 1 PROVE share(x) = Shared(b, v, x)
  <2>1. d + x = Spot(x, v) /\ d + N - 1 = Spot(N - 1, v) /\ d + N - 1 + 2 * nx - 1 = Spot(N + m_xgap, v)
    <3>1. d + (N - 1) = Spot(N - 1, v) /\ d + (N + m_xgap) = Spot(N + m_xgap, v) /\ d + x = Spot(x, v)
      <4>1. v * Wide \in Int /\ d = v * Wide  BY <1>1, <1>4
      <4> HIDE DEF Wide
      <4> QED  BY <1>1, <4>1 DEF Spot
    <3>2. d + N - 1 + 2 * nx - 1 = d + (N + m_xgap)
      <4>1. d \in Int  BY <1>4
      <4> QED  BY <1>1, <4>1
    <3> QED  BY <3>1, <3>2
  <2>2. x >= N - 1 + 2 * nx <=> x > N + m_xgap  BY <1>1
  <2> QED  BY <2>1, <2>2 DEF Shared, nx, ny
<1> HIDE DEF share, cols, ks, at
<1>8. ASSUME NEW x \in 0 .. Wide - 1, NEW y \in 0 .. High - 1
      PROVE  c[Spot(x, y)] = IF \E i \in 0 .. ny - 1 : y = v + s * i
                             THEN Shared(b, v, x) ELSE b[Spot(x, y)]
  <2>1. Spot(x, y) \in DOMAIN b
    <3>1. Wide * High \in Int  BY <1>1
    <3> QED  BY <3>1, SpotIn
  <2>2. CASE \E i \in 0 .. ny - 1 : y = v + s * i
    <3>1. PICK i \in 0 .. ny - 1 : y = v + s * i  BY <2>2
    <3>2. x \in cols  BY <1>3
    <3>3. Spot(x, y) = d + x + i * towards  BY <1>6, <3>1, <3>2
    <3>4. Spot(x, y) \in ks  BY <3>2, <3>3 DEF ks
    <3>5. at[Spot(x, y)] \in cols /\ \E j \in 0 .. ny - 1 : Spot(x, y) = d + at[Spot(x, y)] + j * towards
      BY <3>2, <3>3, <3>4 DEF at
    <3>6. at[Spot(x, y)] = x  BY <1>6, <3>5
    <3> QED  BY <1>2, <1>7, <2>1, <2>2, <3>4, <3>6
  <2>3. CASE ~\E i \in 0 .. ny - 1 : y = v + s * i
    <3>1. Spot(x, y) \notin ks  BY <1>6, <2>3 DEF ks
    <3> QED  BY <1>2, <2>1, <2>3, <3>1
  <2> QED  BY <2>2, <2>3
<1> QED  BY <1>5, <1>8

\* DISPATCH: each half of the gap is shared out from the chips next to it.
LEMMA MiddleDispatch == ASSUME Middle, m_type = "DISPATCH" PROVE MiddleDone(R2!Between)
<1> DEFINE nx == R2!NbX
           ny == R2!NbY
           b == R2!DispatchSide(data, R2!Start, Wide)
           e == R2!Start + 2 * (N - 1) + 2 * nx + Wide * m_ygap
           c == R2!DispatchSide(b, e, -Wide)
<1>1. /\ Gaps2 /\ N \in Nat /\ N >= 2 /\ Wide \in Nat /\ Wide = 2 * N + m_xgap
      /\ High \in Nat /\ High = 2 * N + m_ygap /\ m_xgap \in Nat /\ m_ygap \in Nat
      /\ R2!aTotalWidth = Wide /\ R2!NbLines = N - 1 /\ R2!Start = (N - 1) * Wide
      /\ LowFirst = N + m_ygap + 1
      /\ \A x \in 0 .. Wide - 1, y \in 0 .. High - 1 : Spot(x, y) \in DOMAIN data
  BY MiddleIs DEF LowFirst
<1>2. /\ nx \in Nat /\ nx >= 1 /\ ny \in Nat /\ ny >= 1
      /\ 2 * nx = m_xgap + 2 /\ 2 * ny = m_ygap + 2 /\ Halves
  BY <1>1, NbIs DEF Middle
<1>3. c = R2!Between
  BY <1>1 DEF R2!Between
<1>4. R2!Start = Spot(0, N - 1) /\ e = Spot(0, N + m_ygap)
  <2>1. (N - 1) * Wide = (N - 1) * Wide + 0 /\ (N + m_ygap) * Wide = (N + m_ygap) * Wide + 0  BY <1>1
  <2>2. (N - 1) * Wide + 2 * (N - 1) + 2 * nx + Wide * m_ygap = (N - 1) * Wide + Wide + Wide * m_ygap
    BY <1>1, <1>2
  <2>3. (N - 1) * Wide + Wide + Wide * m_ygap = (N + m_ygap) * Wide  BY <1>1
  <2> HIDE DEF Wide, nx
  <2> QED  BY <1>1, <2>1, <2>2, <2>3 DEF Spot
<1>5. DOMAIN data = 0 .. Wide * High - 1  BY DEF Middle, Frame2
<1> HIDE DEF b, c, e, nx, ny
<1>6. SideIs(data, b, N - 1, 1)
  <2>1. N - 1 \in 0 .. High - 1 /\ Wide = 1 * Wide /\ 1 \in {-1, 1}  BY <1>1
  <2>2. b = R2!DispatchSide(data, R2!Start, Wide) BY DEF b
  <2> QED  BY <1>1, <1>2, <1>4, <1>5, <2>1, <2>2, SideFilled
<1>7. SideIs(b, c, N + m_ygap, -1)
  <2>1. N + m_ygap \in 0 .. High - 1 /\ -Wide = (-1) * Wide /\ -1 \in {-1, 1}  BY <1>1
  <2>2. c = R2!DispatchSide(b, e, -Wide) BY DEF c
  <2>3. DOMAIN b = 0 .. Wide * High - 1  BY <1>5, <1>6 DEF SideIs
  <2> QED  BY <1>1, <1>2, <1>4, <2>1, <2>2, <2>3, SideFilled
<1>8. /\ DOMAIN b = DOMAIN data
       /\ \A x \in 0 .. Wide - 1, y \in 0 .. High - 1 :
            b[Spot(x, y)] = IF \E i \in 0 .. ny - 1 : y = N - 1 + 1 * i
                            THEN Shared(data, N - 1, x) ELSE data[Spot(x, y)]
  BY <1>6 DEF SideIs, ny
<1>9. /\ DOMAIN c = DOMAIN b
       /\ \A x \in 0 .. Wide - 1, y \in 0 .. High - 1 :
            c[Spot(x, y)] = IF \E i \in 0 .. ny - 1 : y = N + m_ygap + (-1) * i
                            THEN Shared(b, N + m_ygap, x) ELSE b[Spot(x, y)]
  BY <1>7 DEF SideIs, ny
<1>10. ASSUME NEW x \in 0 .. Wide - 1, NEW y \in 0 .. High - 1
      PROVE  /\ (\E i \in 0 .. ny - 1 : y = N - 1 + 1 * i) <=> y \in N - 1 .. N - 2 + ny
             /\ (\E i \in 0 .. ny - 1 : y = N + m_ygap + (-1) * i) <=> y \in N - 1 + ny .. N + m_ygap
  <2>1. ASSUME NEW i \in 0 .. ny - 1, y = N - 1 + 1 * i PROVE y \in N - 1 .. N - 2 + ny  BY <1>1, <1>2, <2>1
  <2>2. ASSUME y \in N - 1 .. N - 2 + ny PROVE \E i \in 0 .. ny - 1 : y = N - 1 + 1 * i
    <3>1. y - N + 1 \in 0 .. ny - 1 /\ y = N - 1 + 1 * (y - N + 1)  BY <1>1, <1>2, <2>2
    <3> QED  BY <3>1
  <2>3. ASSUME NEW i \in 0 .. ny - 1, y = N + m_ygap + (-1) * i PROVE y \in N - 1 + ny .. N + m_ygap
    BY <1>1, <1>2, <2>3
  <2>4. ASSUME y \in N - 1 + ny .. N + m_ygap PROVE \E i \in 0 .. ny - 1 : y = N + m_ygap + (-1) * i
    <3>1. N + m_ygap - y \in 0 .. ny - 1 /\ y = N + m_ygap + (-1) * (N + m_ygap - y)
      BY <1>1, <1>2, <2>4
    <3> QED  BY <3>1
  <2> QED  BY <2>1, <2>2, <2>3, <2>4
\* A side is shared out from the chips' pixels nearest to it.
<1>11. ASSUME NEW a, NEW v \in {N - 1, N + m_ygap}, NEW x \in 0 .. Wide - 1,
             \A u \in 0 .. Wide - 1 : a[Spot(u, v)] = data[Spot(u, v)]
      PROVE  Shared(a, v, x) = R2!Seen(R2!SideX(x), v) \div ((IF R2!NearX(x) THEN nx ELSE 1) * ny)
  <2>1. /\ v \in 0 .. High - 1 /\ v >= R2!NbLines
        /\ N - 1 \in 0 .. Wide - 1 /\ N + m_xgap \in 0 .. Wide - 1
        /\ \A u \in 0 .. Wide - 1 : u < N \/ u >= N + m_xgap => R2!InChips(u, v)
    BY <1>1 DEF R2!InChips
  <2>2. \A u \in 0 .. Wide - 1 : u < N \/ u >= N + m_xgap => a[Spot(u, v)] = R2!Seen(u, v)
    BY <1>1, <1>11, <2>1 DEF Middle, SeenOn
  <2>3. a[Spot(N - 1, v)] = R2!Seen(N - 1, v) /\ a[Spot(N + m_xgap, v)] = R2!Seen(N + m_xgap, v)
    BY <1>1, <2>1, <2>2
  <2>4. CASE ~R2!NearX(x)
    <3>1. x < N - 1 \/ x > N + m_xgap  BY <1>1, <2>4 DEF R2!NearX
    <3>2. a[Spot(x, v)] = R2!Seen(x, v)  BY <1>1, <2>2, <3>1
    <3>3. 1 * ny = ny  BY <1>2
    <3>4. R2!SideX(x) = x  BY <2>4 DEF R2!SideX
    <3> QED  BY <2>4, <3>1, <3>2, <3>3, <3>4 DEF Shared, ny
  <2>5. CASE R2!NearX(x)
    <3>1. ~(x < N - 1 \/ x > N + m_xgap)  BY <1>1, <2>5 DEF R2!NearX
    <3>2. R2!SideX(x) = IF x < N - 1 + nx THEN N - 1 ELSE N + m_xgap
      BY <1>1, <1>2, <2>5 DEF R2!SideX
    <3> QED  BY <2>3, <2>5, <3>1, <3>2 DEF Shared, nx, ny
  <2> QED  BY <2>4, <2>5
<1>12. ASSUME NEW x \in 0 .. Wide - 1, NEW y \in 0 .. High - 1, R2!NearY(y)
       PROVE  R2!Expected(x, y)
                = R2!Seen(R2!SideX(x), R2!SideY(y)) \div ((IF R2!NearX(x) THEN nx ELSE 1) * ny)
  BY <1>12 DEF R2!Expected, R2!Shares, nx, ny
<1>13. \A u \in 0 .. Wide - 1 : data[Spot(u, N - 1)] = data[Spot(u, N - 1)]  OBVIOUS
<1>14. \A u \in 0 .. Wide - 1 : b[Spot(u, N + m_ygap)] = data[Spot(u, N + m_ygap)]
  <2>1. N + m_ygap \in 0 .. High - 1 /\ N + m_ygap \notin N - 1 .. N - 2 + ny  BY <1>1, <1>2
  <2> QED  BY <1>8, <1>10, <2>1
<1>15. ASSUME NEW x \in 0 .. Wide - 1, NEW y \in 0 .. High - 1, R2!NearY(y)
       PROVE  c[Spot(x, y)] = R2!Expected(x, y)
  <2>1. CASE y \in N - 1 .. N - 2 + ny
    <3>1. R2!SideY(y) = N - 1 /\ y \notin N - 1 + ny .. N + m_ygap
      BY <1>1, <1>2, <1>15, <2>1 DEF R2!SideY
    <3>2. c[Spot(x, y)] = Shared(data, N - 1, x)  BY <1>8, <1>9, <1>10, <2>1, <3>1
    <3>3. Shared(data, N - 1, x)
            = R2!Seen(R2!SideX(x), N - 1) \div ((IF R2!NearX(x) THEN nx ELSE 1) * ny)
      BY <1>11, <1>13
    <3> QED  BY <1>12, <1>15, <3>1, <3>2, <3>3
  <2>2. CASE y \in N - 1 + ny .. N + m_ygap
    <3>1. R2!SideY(y) = N + m_ygap
      BY <1>1, <1>2, <1>15, <2>2 DEF R2!SideY
    <3>2. c[Spot(x, y)] = Shared(b, N + m_ygap, x)  BY <1>9, <1>10, <2>2
    <3>3. Shared(b, N + m_ygap, x)
            = R2!Seen(R2!SideX(x), N + m_ygap) \div ((IF R2!NearX(x) THEN nx ELSE 1) * ny)
      BY <1>11, <1>14
    <3> QED  BY <1>12, <1>15, <3>1, <3>2, <3>3
  <2> QED  BY <1>1, <1>2, <1>15, <2>1, <2>2 DEF R2!NearY
<1>16. ASSUME NEW x \in 0 .. Wide - 1, NEW y \in 0 .. High - 1, ~R2!NearY(y)
       PROVE  c[Spot(x, y)] = data[Spot(x, y)]
  <2>1. y \notin N - 1 .. N - 2 + ny /\ y \notin N - 1 + ny .. N + m_ygap
    BY <1>1, <1>2, <1>16 DEF R2!NearY
  <2> QED  BY <1>8, <1>9, <1>10, <2>1
<1>17. \A y \in Int : R2!NearY(y) <=> y \in R2!NbLines .. LowFirst - 1  BY <1>1 DEF R2!NearY
<1>18. DOMAIN c = DOMAIN data  BY <1>8, <1>9
<1> QED  BY <1>1, <1>3, <1>15, <1>16, <1>17, <1>18 DEF MiddleDone

\* The pointer is at line z: the lines before it are done, the chips' pixels of
\* the others are as seen.
AtLine(z) ==
  /\ dstPt = Spot(R2!FirstPixel, z)
  /\ \A y \in 0 .. High - 1 : (y < z => RightOn(data, y)) /\ (y >= z => SeenOn(data, y))

\* The lines down to the lower chips are done.
UpperDone ==
  \A x \in 0 .. Wide - 1, y \in 0 .. N + m_ygap :
    ~(m_type = "RAW" /\ y = N + m_ygap) => data[Spot(x, y)] = R2!Expected(x, y)

\* The image is done, but for what the last loop of MEAN spoils.
AllDone ==
  \A x \in 0 .. Wide - 1, y \in 0 .. High - 1 :
    ~R2!Spoilt(x, y) => data[Spot(x, y)] = R2!Expected(x, y)

\* In the last loop of MEAN nothing is left to do; it goes by lines from the
\* first of the gap.  The other types fill the lines of the lower chips.
LowLine ==
  IF m_type = "MEAN" THEN dstPt = Spot(N - 1, N + R2!NbLines - left) /\ AllDone
  ELSE AtLine(LowFirst + R2!NbLines - left)

\* The inductive invariant of L_2x2.
Square ==
  /\ Frame2
  /\ phase \in {"copy", "above", "below", "done"}
  /\ phase = "copy"  => Copying
  /\ phase \in {"above", "below"} => left \in 0 .. R2!NbLines
  /\ phase = "above" => (Halves => AtLine(R2!NbLines - left))
  /\ phase = "below" => (Halves => (left = R2!NbLines => UpperDone) /\ LowLine)
  /\ phase = "done"  => (Halves => AllDone)

\* The other layouts do not use these variables.
Inv2x2 == m_layout = "L_2x2" => Square

\* What is asked of the image depends on nothing that the task changes.
LEMMA SameGeometry ==
  ASSUME UNCHANGED <<raw, m_type, m_xgap, m_ygap>>
  PROVE  /\ Wide' = Wide /\ High' = High /\ LowFirst' = LowFirst /\ R2!NbLines' = R2!NbLines
         /\ R2!FirstPixel' = R2!FirstPixel /\ (Halves' <=> Halves) /\ (Gaps2' <=> Gaps2)
         /\ \A x, y : Spot(x, y)' = Spot(x, y)
         /\ \A x, y : R2!Expected(x, y)' = R2!Expected(x, y)
         /\ \A x, y : R2!Seen(x, y)' = R2!Seen(x, y)
         /\ \A x, y : R2!InChips(x, y)' <=> R2!InChips(x, y)
         /\ \A x : R2!NearX(x)' <=> R2!NearX(x)
         /\ \A y : R2!NearY(y)' <=> R2!NearY(y)
         /\ \A x, y : R2!Spoilt(x, y)' <=> R2!Spoilt(x, y)
<1>1. Wide' = Wide /\ High' = High /\ LowFirst' = LowFirst /\ R2!NbLines' = R2!NbLines
      /\ R2!FirstPixel' = R2!FirstPixel /\ (Halves' <=> Halves) /\ (Gaps2' <=> Gaps2)
  BY DEF Wide, High, LowFirst, R2!NbLines, R2!FirstPixel, Halves, R2!Halved, Gaps2
<1>2. \A x, y : Spot(x, y)' = Spot(x, y)  BY <1>1 DEF Spot
<1>3. \A x, y : R2!Seen(x, y)' = R2!Seen(x, y)
  BY DEF R2!Seen, R2!Read, R2!aTotalHeight, R2!aTotalWidth
<1>4. \A x, y : R2!InChips(x, y)' <=> R2!InChips(x, y)  BY DEF R2!InChips
<1>5. (\A x : R2!NearX(x)' <=> R2!NearX(x)) /\ (\A y : R2!NearY(y)' <=> R2!NearY(y))
  BY DEF R2!NearX, R2!NearY
<1>6. R2!NbX' = R2!NbX /\ R2!NbY' = R2!NbY  BY DEF R2!NbX, R2!NbY
<1>7. \A x, y : R2!SideX(x)' = R2!SideX(x) /\ R2!SideY(y)' = R2!SideY(y)
               /\ R2!Shares(x, y)' = R2!Shares(x, y) /\ R2!Mean(x, y)' = R2!Mean(x, y)
  BY <1>3, <1>5, <1>6 DEF R2!SideX, R2!SideY, R2!Shares, R2!Mean, R2!MeanOfFour, R2!Interp
<1>8. \A x, y : R2!Expected(x, y)' = R2!Expected(x, y)
  <2> SUFFICES ASSUME NEW x, NEW y PROVE R2!Expected(x, y)' = R2!Expected(x, y)  OBVIOUS
  <2>1. R2!Seen(R2!SideX(x), R2!SideY(y))' = R2!Seen(R2!SideX(x), R2!SideY(y))
    BY <1>3, <1>7 DEF R2!Seen, R2!Read, R2!aTotalHeight, R2!aTotalWidth
  <2> QED  BY <1>3, <1>4, <1>5, <1>7, <2>1 DEF R2!Expected
<1>9. \A x, y : R2!Spoilt(x, y)' <=> R2!Spoilt(x, y)  BY <1>5 DEF R2!Spoilt
<1> QED  BY <1>1, <1>2, <1>3, <1>4, <1>5, <1>8, <1>9

\* The pointer goes to the same column of the next line.
LEMMA NextLineIs ==
  ASSUME Frame2, Halves, NEW z \in Int
  PROVE  R2!NextLine(Spot(R2!FirstPixel, z)) = Spot(R2!FirstPixel, z + 1)
<1> DEFINE d == Spot(R2!FirstPixel, z)
<1>1. /\ N \in Nat /\ Wide \in Nat /\ m_xgap \in Nat /\ Gaps2 /\ R2!aTotalWidth = Wide
  BY WideHigh DEF Frame2
<1>2. R2!FirstPixel \in Int /\ z * Wide \in Int  BY <1>1 DEF R2!FirstPixel
<1>3. d \in Int /\ Spot(R2!FirstPixel, z + 1) = d + Wide
  <2>1. (z + 1) * Wide = z * Wide + Wide  BY <1>1
  <2> HIDE DEF Wide
  <2> QED  BY <1>1, <1>2, <2>1 DEF Spot
<1> HIDE DEF d
<1>4. R2!NextLine(d) = d + Wide
  <2>1. CASE m_type = "DISPATCH"
    <3>1. 2 * R2!NbX = m_xgap + 2 /\ R2!NbX \in Int  BY <1>1, <2>1, NbIs
    <3>2. R2!NextLine(d) = d + 2 * R2!NbX + R2!aTotalWidth - (m_xgap + 2)
      BY <2>1 DEF R2!NextLine
    <3> QED  BY <1>1, <1>3, <3>1, <3>2
  <2>2. CASE m_type # "DISPATCH"  BY <1>1, <2>2 DEF R2!NextLine
  <2> QED  BY <2>1, <2>2
<1> QED  BY <1>3, <1>4 DEF d

\* The buffer keeps its size.
LEMMA SizeStays ==
  ASSUME m_type \in R2!Types
  PROVE  /\ \A d : DOMAIN R2!FillLine(data, d) = DOMAIN data
         /\ DOMAIN R2!Between = DOMAIN data
<1>1. m_type \in {"RAW", "ZERO", "DISPATCH", "MEAN"}  BY DEF R2!Types
<1>2. ASSUME NEW d PROVE DOMAIN R2!FillLine(data, d) = DOMAIN data
  <2>1. CASE m_type = "RAW"  BY <2>1 DEF R2!FillLine, R2!With
  <2>2. CASE m_type = "ZERO"  BY <2>2 DEF R2!FillLine, R2!With
  <2>3. CASE m_type = "DISPATCH"  BY <2>3 DEF R2!FillLine, R2!With
  <2>4. CASE m_type = "MEAN"  BY <2>4 DEF R2!FillLine, R2!With
  <2> QED  BY <1>1, <2>1, <2>2, <2>3, <2>4
<1>3. DOMAIN R2!Between = DOMAIN data
  <2>1. CASE m_type = "RAW"  BY <2>1 DEF R2!Between, R2!With
  <2>2. CASE m_type = "ZERO"  BY <2>2 DEF R2!Between, R2!With
  <2>3. CASE m_type = "DISPATCH"
    <3>1. \A b, d, t : DOMAIN R2!DispatchSide(b, d, t) = DOMAIN b  BY DEF R2!DispatchSide, R2!With
    <3> DEFINE b == R2!DispatchSide(data, R2!Start, R2!aTotalWidth)
               d == R2!Start + 2 * (N - 1) + 2 * R2!NbX + R2!aTotalWidth * m_ygap
               t == -R2!aTotalWidth
    <3>2. R2!Between = R2!DispatchSide(b, d, t)  BY <2>3 DEF R2!Between
    <3>3. DOMAIN b = DOMAIN data  BY <3>1
    <3> HIDE DEF b, d, t
    <3> QED  BY <3>1, <3>2, <3>3
  <2>4. CASE m_type = "MEAN"
    <3>1. \A b, d : DOMAIN R2!MeanCorner(b, d) = DOMAIN b  BY DEF R2!MeanCorner, R2!With
    <3>2. \A b, d : DOMAIN R2!MeanCenter(b, d) = DOMAIN b  BY DEF R2!MeanCenter, R2!With
    <3> QED  BY <2>4, <3>1, <3>2 DEF R2!Between
  <2> QED  BY <1>1, <2>1, <2>2, <2>3, <2>4
<1> QED  BY <1>2, <1>3

\* A line more is done.
LEMMA LineDone ==
  ASSUME Frame2, Halves, NEW z \in 0 .. High - 1, Crossed(z), AtLine(z),
         data' = R2!FillLine(data, dstPt), dstPt' = R2!NextLine(dstPt),
         UNCHANGED <<raw, m_type, m_xgap, m_ygap>>
  PROVE  dstPt' = Spot(R2!FirstPixel, z + 1) /\
         \A y \in 0 .. High - 1 : (y < z + 1 => RightOn(data', y)) /\ (y >= z + 1 => SeenOn(data', y))
<1>1. High \in Nat  BY WideHigh DEF Frame2
<1>2. dstPt = Spot(R2!FirstPixel, z) /\ SeenOn(data, z)  BY <1>1 DEF AtLine
<1>3. dstPt' = Spot(R2!FirstPixel, z + 1)  BY <1>1, <1>2, NextLineIs
<1>4. RightOn(data', z) /\ OtherLines(data, data', z)  BY <1>2, LineFilled
<1>5. ASSUME NEW y \in 0 .. High - 1
      PROVE  (y < z + 1 => RightOn(data', y)) /\ (y >= z + 1 => SeenOn(data', y))
  <2>1. CASE y = z  BY <1>1, <1>4, <2>1
  <2>2. CASE y # z
    <3>1. \A x \in 0 .. Wide - 1 : data'[Spot(x, y)] = data[Spot(x, y)]
      BY <1>4, <2>2 DEF OtherLines
    <3>2. (y < z => RightOn(data, y)) /\ (y >= z => SeenOn(data, y))  BY DEF AtLine
    <3>3. (y < z + 1 => y < z) /\ (y >= z + 1 => y >= z)  BY <1>1, <2>2
    <3> QED  BY <3>1, <3>2, <3>3 DEF RightOn, SeenOn
  <2> QED  BY <2>1, <2>2
<1> QED  BY <1>3, <1>5

\* The pointer at a line, in the next state.
LEMMA AtLineNext ==
  ASSUME UNCHANGED <<raw, m_type, m_xgap, m_ygap>>, NEW z,
         dstPt' = Spot(R2!FirstPixel, z),
         \A y \in 0 .. High - 1 : (y < z => RightOn(data', y)) /\ (y >= z => SeenOn(data', y))
  PROVE  AtLine(z)'
<1>1. \A y : (RightOn(data, y)' <=> RightOn(data', y)) /\ (SeenOn(data, y)' <=> SeenOn(data', y))
  BY SameGeometry DEF RightOn, SeenOn
<1>2. Spot(R2!FirstPixel, z)' = Spot(R2!FirstPixel, z) /\ High' = High
  BY SameGeometry DEF Spot
<1> QED  BY <1>1, <1>2 DEF AtLine

\* Before the first run nothing is copied.
LEMMA SquareInit == Init => Inv2x2
<1> SUFFICES ASSUME Init, m_layout = "L_2x2" PROVE Square
  BY DEF Inv2x2
<1>1. R2!Init  BY DEF Init, RC!Init
<1>2. m_xgap \in Nat /\ m_ygap \in Nat /\ m_type \in R2!Types
  BY <1>1, SizeAssumption DEF R2!Init, R2!Assumptions
<1>3. /\ Gaps2 /\ N \in Nat /\ N >= 2 /\ Wide \in Nat /\ High \in Nat
      /\ R2!aTotalWidth = Wide /\ R2!FullSize = Wide * High
  BY <1>2, WideHigh DEF Gaps2
<1>4. Frame2  BY <1>1, <1>2, <1>3 DEF Frame2, R2!Init
<1>5. phase = "copy" /\ left = N /\ run = 0 /\ srcPt = 0 /\ dstPt = Wide * High - Wide /\ jump = Wide - 1
  BY <1>1, <1>3 DEF R2!Init
<1>6. N - left = 0  BY <1>3, <1>5
<1>7. srcPt = (N - left) * 4 * N + run * N  BY <1>3, <1>5, <1>6
<1>8. dstPt = Spot(RunX(N - left, run), RunY(run))
  <2>1. RunX(N - left, run) = 0 /\ RunY(run) = High - 1  BY <1>5, <1>6 DEF RunX, RunY
  <2>2. Wide * High - Wide = (High - 1) * Wide + 0  BY <1>3
  <2> QED  BY <1>5, <2>1, <2>2 DEF Spot
<1>9. Copied(N - left, run)
  <2> SUFFICES ASSUME NEW x \in 0 .. Wide - 1, NEW y \in 0 .. High - 1, R2!InChips(x, y)
               PROVE  ~(ColumnAt(x, y) < 0 \/ (ColumnAt(x, y) = 0 /\ ChipAt(x, y) < 0))
    BY <1>5, <1>6 DEF Copied
  <2>1. ChipAt(x, y) \in 0 .. 3 /\ ColumnAt(x, y) \in 0 .. N - 1  BY <1>3, SeenIs
  <2> QED  BY <1>3, <2>1
<1>10. Copying  BY <1>3, <1>5, <1>6, <1>7, <1>8, <1>9 DEF Copying
<1> QED  BY <1>4, <1>5, <1>10 DEF Square

\* The chips are all copied.
LEMMA StartFillKeeps == ASSUME Square, R2!StartFill PROVE Square'
<1>1. /\ phase = "copy" /\ left = 0 /\ phase' = "above" /\ dstPt' = R2!FirstPixel
      /\ left' = R2!NbLines /\ UNCHANGED <<raw, m_type, m_xgap, m_ygap, data>>
  BY DEF R2!StartFill, R2!params
<1>2. Frame2 /\ Copying  BY <1>1 DEF Square
<1>3. /\ Gaps2 /\ N \in Nat /\ N >= 2 /\ Wide \in Nat /\ High \in Nat
      /\ R2!NbLines \in Nat /\ R2!FirstPixel \in Int
  BY <1>2, WideHigh DEF Frame2, R2!NbLines, R2!FirstPixel
<1>4. Frame2'  BY <1>1, <1>2, SameGeometry DEF Frame2
<1>5. \A y \in 0 .. High - 1 : SeenOn(data, y)
  <2> SUFFICES ASSUME NEW y \in 0 .. High - 1, NEW x \in 0 .. Wide - 1, R2!InChips(x, y)
               PROVE  data[Spot(x, y)] = R2!Seen(x, y)
    BY DEF SeenOn
  <2>1. ColumnAt(x, y) \in 0 .. N - 1  BY <1>3, SeenIs
  <2>2. N - left = N /\ ColumnAt(x, y) < N  BY <1>1, <1>3, <2>1
  <2> QED  BY <1>2, <2>2 DEF Copying, Copied
<1>6. AtLine(0)'
  <2>1. dstPt' = Spot(R2!FirstPixel, 0)
    <3>1. 0 * Wide + R2!FirstPixel = R2!FirstPixel  BY <1>3
    <3> QED  BY <1>1, <3>1 DEF Spot
  <2>2. \A y \in 0 .. High - 1 : (y < 0 => RightOn(data', y)) /\ (y >= 0 => SeenOn(data', y))
    BY <1>1, <1>5
  <2> QED  BY <1>1, <2>1, <2>2, AtLineNext
<1>7. (R2!NbLines - left)' = 0 /\ left' \in 0 .. R2!NbLines'  BY <1>1, <1>3, SameGeometry
<1>8. AtLine(R2!NbLines - left)'
  BY <1>6, <1>7 DEF AtLine, Spot
<1> QED  BY <1>1, <1>4, <1>7, <1>8 DEF Square

\* A line above is filled.
LEMMA FillAboveKeeps == ASSUME Square, R2!FillAbove PROVE Square'
<1>1. /\ phase = "above" /\ left > 0 /\ phase' = "above" /\ left' = left - 1
      /\ data' = R2!FillLine(data, dstPt) /\ dstPt' = R2!NextLine(dstPt)
      /\ UNCHANGED <<raw, m_type, m_xgap, m_ygap>>
  BY DEF R2!FillAbove, R2!params
<1>2. Frame2 /\ left \in 0 .. R2!NbLines /\ (Halves => AtLine(R2!NbLines - left))  BY <1>1 DEF Square
<1>3. /\ Gaps2 /\ N \in Nat /\ N >= 2 /\ Wide \in Nat /\ High = 2 * N + m_ygap /\ m_ygap \in Nat
      /\ R2!NbLines = IF m_type = "RAW" THEN N ELSE N - 1
  BY <1>2, WideHigh DEF Frame2, R2!NbLines, High
<1>4. Frame2'  BY <1>1, <1>2, SizeStays, SameGeometry DEF Frame2
<1>5. ASSUME Halves PROVE AtLine(R2!NbLines - left)'
  <2>1. PICK z : z = R2!NbLines - left  OBVIOUS
  <2>2. z \in 0 .. High - 1 /\ Crossed(z) /\ R2!NbLines - left' = z + 1
    BY <1>1, <1>2, <1>3, <2>1 DEF Crossed, R2!NearY
  <2>3. AtLine(z)  BY <1>2, <1>5, <2>1
  <2>4. AtLine(z + 1)'  BY <1>1, <1>2, <1>5, <2>2, <2>3, LineDone, AtLineNext
  <2>5. (R2!NbLines - left)' = z + 1  BY <1>1, <2>2, SameGeometry
  <2> QED  BY <2>4, <2>5 DEF AtLine, Spot
<1>6. left' \in 0 .. R2!NbLines'  BY <1>1, <1>2, <1>3, SameGeometry
<1> QED  BY <1>1, <1>4, <1>5, <1>6, SameGeometry DEF Square

\* A line below is filled.
LEMMA FillBelowKeeps == ASSUME Square, R2!FillBelow PROVE Square'
<1>1. /\ phase = "below" /\ left > 0 /\ phase' = "below" /\ left' = left - 1
      /\ data' = R2!FillLine(data, dstPt) /\ dstPt' = R2!NextLine(dstPt)
      /\ UNCHANGED <<raw, m_type, m_xgap, m_ygap>>
  BY DEF R2!FillBelow, R2!params
<1>2. /\ Frame2 /\ left \in 0 .. R2!NbLines /\ (Halves => LowLine)
  BY <1>1 DEF Square
<1>3. /\ Gaps2 /\ N \in Nat /\ N >= 2 /\ Wide \in Nat /\ High = 2 * N + m_ygap /\ m_ygap \in Nat
      /\ m_xgap \in Nat /\ Wide = 2 * N + m_xgap
      /\ R2!NbLines = (IF m_type = "RAW" THEN N ELSE N - 1)
      /\ LowFirst = (IF m_type = "RAW" THEN N + m_ygap ELSE N + m_ygap + 1)
  BY <1>2, WideHigh DEF Frame2, R2!NbLines, Wide, High, LowFirst
<1>4. Frame2'  BY <1>1, <1>2, SizeStays, SameGeometry DEF Frame2
<1>5. ASSUME Halves, m_type # "MEAN" PROVE AtLine(LowFirst + R2!NbLines - left)'
  <2>1. PICK z : z = LowFirst + R2!NbLines - left  OBVIOUS
  <2>2. z \in 0 .. High - 1 /\ Crossed(z) /\ LowFirst + R2!NbLines - left' = z + 1
    BY <1>1, <1>2, <1>3, <2>1 DEF Crossed, R2!NearY
  <2>3. AtLine(z)  BY <1>2, <1>5, <2>1 DEF LowLine
  <2>4. AtLine(z + 1)'  BY <1>1, <1>2, <1>5, <2>2, <2>3, LineDone, AtLineNext
  <2>5. (LowFirst + R2!NbLines - left)' = z + 1  BY <1>1, <2>2, SameGeometry
  <2> QED  BY <2>4, <2>5 DEF AtLine, Spot
<1>6. ASSUME Halves, m_type = "MEAN"
      PROVE  dstPt' = Spot(N - 1, N + R2!NbLines - left') /\ AllDone'
  <2>1. PICK z : z = N + R2!NbLines - left  OBVIOUS
  <2>2. z \in N .. High - 1 /\ N + R2!NbLines - left' = z + 1  BY <1>1, <1>2, <1>3, <1>6, <2>1
  <2>3. dstPt = Spot(N - 1, z) /\ AllDone  BY <1>2, <1>6, <2>1 DEF LowLine
  <2>4. dstPt' = Spot(N - 1, z + 1)
    <3>1. R2!FirstPixel = N - 1  BY <1>6 DEF R2!FirstPixel
    <3>2. R2!NextLine(Spot(R2!FirstPixel, z)) = Spot(R2!FirstPixel, z + 1)
      BY <1>2, <1>3, <1>6, <2>2, NextLineIs
    <3> QED  BY <1>1, <2>3, <3>1, <3>2
  <2>5. ASSUME NEW x \in 0 .. Wide - 1, NEW y \in 0 .. High - 1, ~R2!Spoilt(x, y)
        PROVE  data'[Spot(x, y)] = data[Spot(x, y)]
    <3>1. dstPt + m_xgap + 1 = Spot(N + m_xgap, z)
      <4>1. Spot(N - 1, z) \in Int /\ Spot(N - 1, z) + (m_xgap + 1) = Spot(N - 1 + (m_xgap + 1), z)
        <5>1. Gaps2 /\ N - 1 \in Int /\ z \in Int /\ m_xgap + 1 \in Int  BY <1>3, <2>2
        <5> QED  BY <5>1, SpotStep, Zenon
      <4>2. N - 1 + (m_xgap + 1) = N + m_xgap  BY <1>3
      <4> QED  BY <1>3, <2>3, <4>1, <4>2
    <3>2. Spot(x, y) \in Spot(N - 1, z) .. Spot(N + m_xgap, z) <=> y = z /\ x \in N - 1 .. N + m_xgap
      BY <1>3, <2>2, InRun
    <3>3. Spot(x, y) \notin dstPt .. dstPt + m_xgap + 1
      BY <1>3, <1>6, <2>2, <2>3, <2>5, <3>1, <3>2 DEF R2!Spoilt, R2!NearX
    <3>4. Spot(x, y) \in DOMAIN data
      <4>1. Wide * High \in Int  BY <1>3
      <4> QED  BY <1>2, <1>3, <4>1, SpotIn DEF Frame2
    <3>5. R2!FillLine(data, dstPt)[Spot(x, y)] = data[Spot(x, y)]
      BY <1>6, <3>3, <3>4 DEF R2!FillLine, R2!With
    <3> QED  BY <1>1, <3>5
  <2>6. AllDone'  BY <1>1, <2>3, <2>5, SameGeometry DEF AllDone
  <2> QED  BY <2>2, <2>4, <2>6
<1>7. Halves => LowLine'
  <2>1. CASE m_type = "MEAN"
    <3>1. \A z : Spot(N - 1, z)' = Spot(N - 1, z)  BY <1>1, SameGeometry DEF Spot
    <3> QED  BY <1>1, <1>6, <2>1, <3>1, SameGeometry DEF LowLine, Spot
  <2>2. CASE m_type # "MEAN"  BY <1>1, <1>5, <2>2, SameGeometry DEF LowLine
  <2> QED  BY <2>1, <2>2
<1>8. left' \in 0 .. R2!NbLines' /\ left' # R2!NbLines'  BY <1>1, <1>2, <1>3, SameGeometry
<1> QED  BY <1>1, <1>4, <1>7, <1>8, SameGeometry DEF Square

\* The lines between are filled.
LEMMA FillBetweenKeeps == ASSUME Square, R2!FillBetween PROVE Square'
<1>1. /\ phase = "above" /\ left = 0 /\ phase' = "below" /\ left' = R2!NbLines
      /\ data' = R2!Between /\ dstPt' = R2!FirstBelow
      /\ UNCHANGED <<raw, m_type, m_xgap, m_ygap>>
  BY DEF R2!FillBetween, R2!params
<1>2. Frame2 /\ left \in 0 .. R2!NbLines /\ (Halves => AtLine(R2!NbLines - left))  BY <1>1 DEF Square
<1>3. /\ Gaps2 /\ N \in Nat /\ N >= 2 /\ Wide \in Nat /\ High = 2 * N + m_ygap /\ m_ygap \in Nat
      /\ High \in Nat /\ R2!aTotalWidth = Wide /\ m_xgap \in Nat /\ Wide = 2 * N + m_xgap
      /\ R2!NbLines = (IF m_type = "RAW" THEN N ELSE N - 1)
      /\ R2!FirstPixel = (IF m_type = "RAW" THEN N ELSE N - 1)
      /\ LowFirst = (IF m_type = "RAW" THEN N + m_ygap ELSE N + m_ygap + 1)
      /\ m_type \in {"RAW", "ZERO", "DISPATCH", "MEAN"}
  BY <1>2, WideHigh DEF Frame2, R2!NbLines, R2!FirstPixel, Wide, High, LowFirst, R2!Types
<1>4. Frame2'  BY <1>1, <1>2, SizeStays, SameGeometry DEF Frame2
<1>5. left' \in 0 .. R2!NbLines'  BY <1>1, <1>3, SameGeometry
<1>6. ASSUME Halves PROVE Middle /\ AtLine(R2!NbLines) /\ MiddleDone(data')
  <2>1. AtLine(R2!NbLines)
    <3>1. R2!NbLines - left = R2!NbLines  BY <1>1, <1>3
    <3> QED  BY <1>2, <1>6, <3>1
  <2>2. Middle  BY <1>2, <1>6, <2>1 DEF Middle, AtLine
  <2> QED  BY <1>1, <1>3, <2>1, <2>2, MiddleRaw, MiddleZero, MiddleDispatch, MiddleMean
<1>7. ASSUME Halves, m_type # "MEAN", NEW y \in 0 .. High - 1
      PROVE  (y < LowFirst => RightOn(data', y)) /\ (y >= LowFirst => SeenOn(data', y))
  <2>1. (y < R2!NbLines => RightOn(data, y)) /\ (y >= R2!NbLines => SeenOn(data, y))
    BY <1>6, <1>7 DEF AtLine
  <2>2. CASE y \in R2!NbLines .. LowFirst - 1
    <3>1. RightOn(data', y)  BY <1>6, <1>7, <2>2 DEF MiddleDone, RightOn
    <3> QED  BY <1>3, <2>2, <3>1
  <2>3. CASE y \notin R2!NbLines .. LowFirst - 1
    <3>1. \A x \in 0 .. Wide - 1 : data'[Spot(x, y)] = data[Spot(x, y)]
      BY <1>6, <1>7, <2>3 DEF MiddleDone
    <3>2. (y < LowFirst => y < R2!NbLines) /\ (y >= LowFirst => y >= R2!NbLines)
      BY <1>3, <2>3
    <3> QED  BY <2>1, <3>1, <3>2 DEF RightOn, SeenOn
  <2> QED  BY <2>2, <2>3
<1>8. ASSUME Halves, m_type # "MEAN" PROVE dstPt' = Spot(R2!FirstPixel, LowFirst)
  <2>1. dstPt = R2!NbLines * Wide + R2!FirstPixel  BY <1>6, <1>8 DEF AtLine, Spot
  <2>2. CASE m_type = "RAW"
    <3>1. dstPt' = dstPt + Wide * m_ygap  BY <1>1, <1>3, <2>2 DEF R2!FirstBelow
    <3>2. N * Wide + N + Wide * m_ygap = (N + m_ygap) * Wide + N  BY <1>3
    <3> HIDE DEF Wide
    <3> QED  BY <1>3, <2>1, <2>2, <3>1, <3>2 DEF Spot
  <2>3. CASE m_type = "ZERO"
    <3>1. dstPt' = dstPt + Wide * (m_ygap + 2)  BY <1>1, <1>3, <2>3 DEF R2!FirstBelow
    <3>2. (N - 1) * Wide + (N - 1) + Wide * (m_ygap + 2) = (N + m_ygap + 1) * Wide + (N - 1)  BY <1>3
    <3> QED  BY <1>3, <2>1, <2>3, <3>1, <3>2 DEF Spot
  <2>4. CASE m_type = "DISPATCH"
    <3>1. dstPt' = Wide * (N + m_ygap + 1) + N - 1  BY <1>1, <1>3, <2>4 DEF R2!FirstBelow
    <3>2. Wide * (N + m_ygap + 1) + N - 1 = (N + m_ygap + 1) * Wide + (N - 1)  BY <1>3
    <3> QED  BY <1>3, <2>4, <3>1, <3>2 DEF Spot
  <2> QED  BY <1>3, <1>8, <2>2, <2>3, <2>4
<1>9. ASSUME Halves, m_type # "MEAN" PROVE AtLine(LowFirst + R2!NbLines - left)'
  <2>1. PICK z : z = LowFirst  OBVIOUS
  <2>2. AtLine(z)'  BY <1>1, <1>7, <1>8, <1>9, <2>1, AtLineNext
  <2>3. (LowFirst + R2!NbLines - left)' = z
    <3>1. LowFirst + R2!NbLines - R2!NbLines = LowFirst  BY <1>3
    <3> QED  BY <1>1, <2>1, <3>1, SameGeometry
  <2> QED  BY <2>2, <2>3 DEF AtLine, Spot
<1>10. ASSUME Halves, NEW x \in 0 .. Wide - 1, NEW y \in 0 .. High - 1, y < LowFirst
       PROVE  data'[Spot(x, y)] = R2!Expected(x, y)
  <2>1. CASE y < R2!NbLines
    <3>1. data[Spot(x, y)] = R2!Expected(x, y)  BY <1>6, <1>10, <2>1 DEF AtLine, RightOn
    <3>2. y \notin R2!NbLines .. LowFirst - 1  BY <1>3, <2>1
    <3> QED  BY <1>6, <1>10, <3>1, <3>2 DEF MiddleDone
  <2>2. CASE y >= R2!NbLines
    <3>1. y \in R2!NbLines .. LowFirst - 1  BY <1>3, <1>10, <2>2
    <3> QED  BY <1>6, <1>10, <3>1 DEF MiddleDone
  <2> QED  BY <1>3, <2>1, <2>2
<1>11. ASSUME Halves PROVE UpperDone'
  <2> SUFFICES ASSUME NEW x \in 0 .. Wide - 1, NEW y \in 0 .. N + m_ygap,
                      ~(m_type = "RAW" /\ y = N + m_ygap)
               PROVE  data'[Spot(x, y)] = R2!Expected(x, y)
    BY <1>1, SameGeometry DEF UpperDone
  <2>1. y \in 0 .. High - 1 /\ y < LowFirst  BY <1>3
  <2> QED  BY <1>10, <1>11, <2>1
<1>12. ASSUME Halves, m_type = "MEAN" PROVE dstPt' = Spot(N - 1, N) /\ AllDone'
  <2>1. dstPt' = Spot(N - 1, N)
    <3>1. dstPt = (N - 1) * Wide + (N - 1)  BY <1>3, <1>6, <1>12 DEF AtLine, Spot
    <3>2. dstPt' = dstPt + Wide  BY <1>1, <1>3, <1>12 DEF R2!FirstBelow
    <3>3. (N - 1) * Wide + (N - 1) + Wide = N * Wide + (N - 1)  BY <1>3
    <3> QED  BY <3>1, <3>2, <3>3 DEF Spot
  <2>2. ASSUME NEW x \in 0 .. Wide - 1, NEW y \in 0 .. High - 1, ~R2!Spoilt(x, y), y >= LowFirst
        PROVE  data'[Spot(x, y)] = R2!Expected(x, y)
    <3>1. ~R2!NearX(x) /\ ~R2!NearY(y) /\ R2!InChips(x, y)
      BY <1>3, <1>12, <2>2 DEF R2!Spoilt, R2!NearX, R2!NearY, R2!InChips
    <3>2. R2!Expected(x, y) = R2!Seen(x, y)  BY <3>1 DEF R2!Expected
    <3>3. y >= R2!NbLines /\ y \notin R2!NbLines .. LowFirst - 1  BY <1>3, <2>2
    <3>4. data'[Spot(x, y)] = data[Spot(x, y)]  BY <1>6, <1>12, <3>3 DEF MiddleDone
    <3>5. data[Spot(x, y)] = R2!Seen(x, y)  BY <1>6, <1>12, <3>1, <3>3 DEF AtLine, SeenOn
    <3> QED  BY <3>2, <3>4, <3>5
  <2>3. \A y \in 0 .. High - 1 : y < LowFirst \/ y >= LowFirst  BY <1>3
  <2>4. AllDone'  BY <1>1, <1>10, <1>12, <2>2, <2>3, SameGeometry DEF AllDone
  <2> QED  BY <2>1, <2>4
<1>13. ASSUME Halves PROVE LowLine'
  <2>1. CASE m_type = "MEAN"
    <3>1. (N + R2!NbLines - left)' = N
      <4>1. N + R2!NbLines - R2!NbLines = N  BY <1>3
      <4> QED  BY <1>1, <4>1, SameGeometry
    <3>2. Spot(N - 1, N)' = Spot(N - 1, N)  BY <1>1, SameGeometry DEF Spot
    <3> QED  BY <1>1, <1>12, <1>13, <2>1, <3>1, <3>2 DEF LowLine, Spot
  <2>2. CASE m_type # "MEAN"  BY <1>1, <1>9, <1>13, <2>2 DEF LowLine
  <2> QED  BY <2>1, <2>2
<1> QED  BY <1>1, <1>4, <1>5, <1>11, <1>13, SameGeometry DEF Square

\* The image is delivered.
LEMMA DeliverSquare == ASSUME Square, R2!Deliver PROVE Square'
<1>1. /\ phase = "below" /\ left = 0 /\ phase' = "done"
      /\ UNCHANGED <<raw, m_type, m_xgap, m_ygap, data>>
  BY DEF R2!Deliver, R2!params
<1>2. Frame2 /\ left \in 0 .. R2!NbLines /\ (Halves => LowLine)
  BY <1>1 DEF Square
<1>3. /\ N \in Nat /\ N >= 2 /\ High = 2 * N + m_ygap /\ m_ygap \in Nat
      /\ R2!NbLines = (IF m_type = "RAW" THEN N ELSE N - 1)
      /\ LowFirst = (IF m_type = "RAW" THEN N + m_ygap ELSE N + m_ygap + 1)
  BY <1>2, WideHigh DEF Frame2, R2!NbLines, High, LowFirst
<1>4. Frame2'  BY <1>1, <1>2, SameGeometry DEF Frame2
<1>5. ASSUME Halves PROVE AllDone
  <2>1. CASE m_type = "MEAN"  BY <1>2, <1>5, <2>1 DEF LowLine
  <2>2. CASE m_type # "MEAN"
    <3>1. \A y \in 0 .. High - 1 : y < LowFirst + R2!NbLines - left  BY <1>1, <1>3
    <3> QED  BY <1>2, <1>5, <2>2, <3>1 DEF LowLine, AtLine, RightOn, AllDone
  <2> QED  BY <2>1, <2>2
<1>6. AllDone' <=> AllDone  BY <1>1, SameGeometry DEF AllDone
<1> QED  BY <1>1, <1>4, <1>5, <1>6, SameGeometry DEF Square

\* Nothing of it changes.
LEMMA SquareStays ==
  ASSUME Square,
         UNCHANGED <<m_type, m_xgap, m_ygap, raw, data, srcPt, dstPt, jump, run, phase, left>>
  PROVE  Square'
<1>1. Frame2'  BY SameGeometry DEF Square, Frame2
<1>2. AtLine(R2!NbLines - left)' <=> AtLine(R2!NbLines - left)
  BY SameGeometry DEF AtLine, RightOn, SeenOn
<1>3. AtLine(LowFirst + R2!NbLines - left)' <=> AtLine(LowFirst + R2!NbLines - left)
  BY SameGeometry DEF AtLine, RightOn, SeenOn
<1>4. UpperDone' <=> UpperDone  BY SameGeometry DEF UpperDone
<1>5. AllDone' <=> AllDone  BY SameGeometry DEF AllDone
<1>6. Copying' <=> Copying
  BY SameGeometry DEF Copying, Copied, RunX, RunY, ColumnAt, ChipAt, Spot
<1>7. LowLine' <=> LowLine  BY <1>3, <1>5, SameGeometry DEF LowLine, Spot
<1> QED  BY <1>1, <1>2, <1>4, <1>5, <1>6, <1>7, SameGeometry DEF Square

\* The other layouts leave m_layout alone.
LEMMA SquareStep == Inv2x2 /\ [Next]_vars => Inv2x2'
<1> SUFFICES ASSUME Inv2x2, [Next]_vars, m_layout' = "L_2x2" PROVE Square'
  BY DEF Inv2x2
<1>1. m_layout = "L_2x2"
  BY DEF Next, process5x1, process2x2, processPos, vars, RC!Next, RC!TurnChip, RC!LeaveAll,
         RC!PlaceChip, RC!Deliver, RC!params
<1>2. Square  BY <1>1 DEF Inv2x2
<1>3. R2!Next \/ UNCHANGED vars  BY <1>1 DEF Next, process5x1, process2x2, processPos
<1>4. CASE R2!CopyRun
  <2>1. phase = "copy"  BY <1>4 DEF R2!CopyRun
  <2>2. Frame2 /\ Copying  BY <1>2, <2>1 DEF Square
  <2>3. Frame2' /\ Copying' /\ phase' = "copy"  BY <1>4, <2>2, CopyRunKeeps
  <2> QED  BY <2>3 DEF Square
<1>5. CASE UNCHANGED vars
  <2>1. UNCHANGED <<m_type, m_xgap, m_ygap, raw, data, srcPt, dstPt, jump, run, phase, left>>
    BY <1>5 DEF vars, both, only2x2
  <2> QED  BY <1>2, <2>1, SquareStays
<1> QED  BY <1>2, <1>3, <1>4, <1>5, StartFillKeeps, FillAboveKeeps, FillBetweenKeeps, FillBelowKeeps,
       DeliverSquare DEF R2!Next

\* The invariant holds.
LEMMA SquareHolds == Spec => []Inv2x2
BY SquareInit, SquareStep, PTL DEF Spec

\* What the invariant says of the two properties.
LEMMA SquareIs == ASSUME Square PROVE R2!UpperIsRight /\ R2!DoneIsRight
<1>1. Frame2  BY DEF Square
<1>2. /\ N \in Nat /\ N >= 2 /\ R2!aTotalWidth = Wide /\ R2!aTotalHeight = High
      /\ \A x, y : R2!Pixel(x, y) = data[Spot(x, y)]
  BY <1>1, WideHigh DEF Frame2, R2!Pixel, Spot
<1>3. R2!UpperIsRight
  <2> SUFFICES ASSUME phase = "below", left = R2!NbLines, Halves PROVE UpperDone
    BY <1>2 DEF R2!UpperIsRight, R2!Columns, Halves, UpperDone
  <2> QED  BY DEF Square
<1>4. R2!DoneIsRight
  <2> SUFFICES ASSUME phase = "done", Halves PROVE AllDone
    BY <1>2 DEF R2!DoneIsRight, R2!Columns, R2!Lines, Halves, AllDone
  <2> QED  BY DEF Square
<1> QED  BY <1>3, <1>4

\* Half-way, the upper part of the 2x2 image and its gap are right, for chips of
\* any size, gaps of any width and height and frames of any pixels.
THEOREM UpperHalfIsRight == Spec => []UpperIsRight2x2
<1>1. Inv2x2 => UpperIsRight2x2  BY SquareIs DEF Inv2x2, UpperIsRight2x2
<1> QED  BY <1>1, SquareHolds, PTL

\* The 2x2 image delivered is right, but for what the last loop of MEAN spoils.
THEOREM SquareIsRight == Spec => []Squared2x2
<1>1. Inv2x2 => Squared2x2  BY SquareIs DEF Inv2x2, Squared2x2
<1> QED  BY <1>1, SquareHolds, PTL
=============================================================================
