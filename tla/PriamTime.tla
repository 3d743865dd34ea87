----------------------------- MODULE PriamTime ------------------------------
(***************************************************************************)
(* One duration of the board (exposure, interval, shutter) being set again *)
(* and again through _timeToReg, when no register access fails.            *)
(***************************************************************************)
EXTENDS TimeRegs

CONSTANT Asked   \* the durations asked for, in microseconds

ASSUME AskedAssumption == Asked \subseteq Nat

VARIABLES asked, set, reg1, reg2
vars == <<asked, set, reg1, reg2>>

SetTo(us, askt) ==
  LET r == TimeToReg(askt) IN
    /\ asked' = us
    /\ set'   = [it |-> r.it, iu |-> r.iu]
    /\ reg1'  = r.reg1
    /\ reg2'  = r.reg2

\* Nothing changes when the time overflows: the exception comes first.
SetTime(us) == \E askt \in Product(us) : ~Overflow(askt) /\ SetTo(us, askt)

\* The board powers up with a null time.
Init == asked = 0 /\ set = [it |-> 0, iu |-> 0] /\ reg1 = 0 /\ reg2 = 0
Next == \E us \in Asked : SetTime(us)
Spec == Init /\ [][Next]_vars

-----------------------------------------------------------------------------
TypeOK ==
  /\ asked \in Nat
  /\ set \in [it : 0 .. 1024, iu : 0 .. UNIT_NB]
  /\ reg1 \in 0 .. 255 /\ reg2 \in 0 .. 255

\* What the board will apply, read back from its registers, is the time the
\* setter reported and the software goes on to reason with.
ReadBack == RegToTime(reg1, reg2) = set

\* The time set is never longer than the time asked and short of it by one
\* step of its unit at most (a truncation, of a product that may already be
\* short), and the unit is the finest that holds the time asked.
Truncation ==
  LET got == Micros(set) IN
    /\ got <= asked
    /\ asked - got <= Unit(set.iu)
    /\ set.iu > 0 => asked >= 1024 * Unit(set.iu - 1)

=============================================================================
