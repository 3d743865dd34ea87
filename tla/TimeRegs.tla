------------------------------ MODULE TimeRegs ------------------------------
(***************************************************************************)
(* How PriamAcq writes a duration in a pair of board registers and reads   *)
(* it back: _timeToReg and _regToTime.  A duration is held as a 10-bit     *)
(* count "it" of a unit of 10^iu microseconds.                             *)
(*                                                                         *)
(* The code computes in doubles.  Its number of microseconds, askt, is the *)
(* product of the caller's number of seconds by 10^6: of a whole number of *)
(* microseconds the product may be just that number, or miss it by a last  *)
(* bit on either side (0.000249 * 10^6 is less than 249).  Nothing after   *)
(* the product tells more of askt than between which whole numbers it lies:*)
(* a quotient by a power of ten is below n just when askt is below n times *)
(* it, the rounding of the quotient included.  So askt is counted here in  *)
(* half microseconds: 2n is n exactly, 2n + 1 all that is between n and    *)
(* n + 1.                                                                  *)
(***************************************************************************)
EXTENDS Integers

UNIT_NB  == 7
UnitUs   == <<1, 10, 100, 1000, 10000, 100000, 1000000>>
Unit(iu) == UnitUs[iu + 1]

\* What askt may be for a duration of us microseconds.
Product(us) == IF us = 0 THEN {0} ELSE 2 * us - 1 .. 2 * us + 1

\* Mutant: the next unit is taken too early.
FitsInTiny(askt, iu) == askt < 2 * (102 * Unit(iu)) \/ iu = UNIT_NB - 1

\* The loop of _timeToReg leaves with the first unit whose count is below
\* 1024, and runs out at UNIT_NB.
FitsIn(askt, iu) == askt < 2 * (1024 * Unit(iu))

Scale(askt) ==
  IF \E iu \in 0 .. UNIT_NB - 1 : FitsIn(askt, iu)
    THEN CHOOSE iu \in 0 .. UNIT_NB - 1 :
           FitsIn(askt, iu) /\ \A j \in 0 .. iu - 1 : ~FitsIn(askt, j)
    ELSE UNIT_NB

\* sett > 1024 after the loop: "Time overflow".
Overflow(askt) == askt > 2 * (1024 * Unit(UNIT_NB - 1))

\* sett, truncated: the quotient by the last unit the loop tried.
Count(askt) ==
  askt \div (2 * Unit(IF Scale(askt) = UNIT_NB THEN UNIT_NB - 1 ELSE Scale(askt)))

\* Mutant: the count's high bits are not masked to two.
TimeToRegHigh(askt) ==
  [it |-> Count(askt), iu |-> Scale(askt), reg1 |-> Count(askt) % 256,
   reg2 |-> ((Count(askt) \div 128) % 4) + 32 * Scale(askt)]

\* The registers, and the time that is reported as set: it * 10^iu.
TimeToReg(askt) ==
  [it |-> Count(askt), iu |-> Scale(askt), reg1 |-> Count(askt) % 256,
   reg2 |-> ((Count(askt) \div 256) % 4) + 32 * Scale(askt)]

\* Bits 2 to 4 of the second register are not the duration's.
RegToTime(reg1, reg2) ==
  [it |-> 256 * (reg2 % 4) + reg1, iu |-> (reg2 \div 32) % 8]

Micros(time) == time.it * Unit(time.iu)
=============================================================================
