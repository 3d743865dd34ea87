--------------------------- MODULE TimeRegsProofs ---------------------------
(***************************************************************************)
(* Lemmas about the encoding of durations, for every product (in half      *)
(* microseconds) below the 1024 s limit.                                   *)
(***************************************************************************)
EXTENDS TimeRegs, TLAPS

Limit == 2048000000   \* 1024 s

\* What the double product may be for a duration.
LEMMA ProductType ==
  ASSUME NEW us \in Nat, NEW askt \in Product(us)
  PROVE  askt \in Nat /\ askt \in 2 * us - 1 .. 2 * us + 1
BY DEF Product

\* The seven units as numbers.
LEMMA Units ==
  /\ Unit(0) = 1 /\ Unit(1) = 10 /\ Unit(2) = 100 /\ Unit(3) = 1000
  /\ Unit(4) = 10000 /\ Unit(5) = 100000 /\ Unit(6) = 1000000
BY DEF Unit, UnitUs

\* A duration below 1024 s has a scale, and it is the first that fits.
LEMMA ScaleInRange ==
  ASSUME NEW askt \in Nat, askt < Limit
  PROVE  /\ Scale(askt) \in 0 .. 6
         /\ FitsIn(askt, Scale(askt))
         /\ Scale(askt) > 0 => ~FitsIn(askt, Scale(askt) - 1)
<1> DEFINE First(iu) == FitsIn(askt, iu) /\ \A j \in 0 .. iu - 1 : ~FitsIn(askt, j)
<1>1. FitsIn(askt, 6)
  BY Units DEF FitsIn, Limit
<1>2. \E iu \in 0 .. 6 : First(iu)
  <2>1. CASE FitsIn(askt, 0)
    BY <2>1
  <2>2. CASE ~FitsIn(askt, 0) /\ FitsIn(askt, 1)
    BY <2>2
  <2>3. CASE ~FitsIn(askt, 0) /\ ~FitsIn(askt, 1) /\ FitsIn(askt, 2)
    <3>1. First(2)
      BY <2>3
    <3> QED
      BY <3>1
  <2>4. CASE ~FitsIn(askt, 0) /\ ~FitsIn(askt, 1) /\ ~FitsIn(askt, 2) /\ FitsIn(askt, 3)
    <3>1. First(3)
      BY <2>4
    <3> QED
      BY <3>1
  <2>5. CASE ~FitsIn(askt, 0) /\ ~FitsIn(askt, 1) /\ ~FitsIn(askt, 2) /\ ~FitsIn(askt, 3)
             /\ FitsIn(askt, 4)
    <3>1. First(4)
      BY <2>5
    <3> QED
      BY <3>1
  <2>6. CASE ~FitsIn(askt, 0) /\ ~FitsIn(askt, 1) /\ ~FitsIn(askt, 2) /\ ~FitsIn(askt, 3)
             /\ ~FitsIn(askt, 4) /\ FitsIn(askt, 5)
    <3>1. First(5)
      BY <2>6
    <3> QED
      BY <3>1
  <2>7. CASE ~FitsIn(askt, 0) /\ ~FitsIn(askt, 1) /\ ~FitsIn(askt, 2) /\ ~FitsIn(askt, 3)
             /\ ~FitsIn(askt, 4) /\ ~FitsIn(askt, 5)
    <3>1. First(6)
      BY <1>1, <2>7
    <3> QED
      BY <3>1
  <2> QED
    BY <2>1, <2>2, <2>3, <2>4, <2>5, <2>6, <2>7
<1>3. Scale(askt) = CHOOSE iu \in 0 .. 6 : First(iu)
  BY <1>1 DEF Scale, UNIT_NB
<1>4. Scale(askt) \in 0 .. 6 /\ First(Scale(askt))
  BY <1>2, <1>3
<1>5. Scale(askt) > 0 => ~FitsIn(askt, Scale(askt) - 1)
  BY <1>4
<1> QED
  BY <1>4, <1>5

\* The count fits in the ten bits the registers give it, and it is the
\* quotient by the unit, truncated.
LEMMA CountInRange ==
  ASSUME NEW askt \in Nat, askt < Limit
  PROVE  /\ Count(askt) \in 0 .. 1023
         /\ 2 * (Count(askt) * Unit(Scale(askt))) <= askt
         /\ askt < 2 * (Count(askt) * Unit(Scale(askt))) + 2 * Unit(Scale(askt))
<1>1. Scale(askt) \in 0 .. 6 /\ FitsIn(askt, Scale(askt))
  BY ScaleInRange
<1>2. Count(askt) = askt \div (2 * Unit(Scale(askt)))
  BY <1>1 DEF Count, UNIT_NB
<1>3. CASE Scale(askt) = 0
  BY <1>1, <1>2, <1>3, Units DEF FitsIn
<1>4. CASE Scale(askt) = 1
  BY <1>1, <1>2, <1>4, Units DEF FitsIn
<1>5. CASE Scale(askt) = 2
  BY <1>1, <1>2, <1>5, Units DEF FitsIn
<1>6. CASE Scale(askt) = 3
  BY <1>1, <1>2, <1>6, Units DEF FitsIn
<1>7. CASE Scale(askt) = 4
  BY <1>1, <1>2, <1>7, Units DEF FitsIn
<1>8. CASE Scale(askt) = 5
  BY <1>1, <1>2, <1>8, Units DEF FitsIn
<1>9. CASE Scale(askt) = 6
  BY <1>1, <1>2, <1>9, Units DEF FitsIn
<1> QED
  BY <1>1, <1>3, <1>4, <1>5, <1>6, <1>7, <1>8, <1>9

\* Both registers are bytes, and decoding them gives back count and unit.
LEMMA DecodeEncode ==
  ASSUME NEW askt \in Nat, askt < Limit
  PROVE  /\ TimeToReg(askt).reg1 \in 0 .. 255 /\ TimeToReg(askt).reg2 \in 0 .. 255
         /\ RegToTime(TimeToReg(askt).reg1, TimeToReg(askt).reg2)
              = [it |-> Count(askt), iu |-> Scale(askt)]
<1>1. PICK it \in 0 .. 1023 : it = Count(askt)
  BY CountInRange
<1>2. PICK iu \in 0 .. 6 : iu = Scale(askt)
  BY ScaleInRange
<1> DEFINE r1 == it % 256
           hi == (it \div 256) % 4
           r2 == hi + 32 * iu
<1>3. TimeToReg(askt).reg1 = r1 /\ TimeToReg(askt).reg2 = r2
  BY <1>1, <1>2 DEF TimeToReg
<1>4. r1 \in 0 .. 255 /\ hi \in 0 .. 3 /\ 256 * hi + r1 = it
  OBVIOUS
<1>5. r2 % 4 = hi /\ r2 \div 32 = iu /\ r2 \in 0 .. 255
  <2> HIDE DEF hi
  <2>1. r2 = 4 * (8 * iu) + hi /\ r2 = 32 * iu + hi
    BY <1>4
  <2> QED
    BY <1>4, <2>1
<1>6. RegToTime(r1, r2) = [it |-> it, iu |-> iu]
  <2> HIDE DEF r1, r2
  <2>1. (r2 \div 32) % 8 = iu
    BY <1>5
  <2> QED
    BY <1>4, <1>5, <2>1 DEF RegToTime
<1> QED
  BY <1>1, <1>2, <1>3, <1>4, <1>5, <1>6
=============================================================================
