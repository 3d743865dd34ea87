-------------------------- MODULE PriamTimeProofs ---------------------------
(***************************************************************************)
(* Proofs about PriamTime: a duration that is not exactly the 1024 s limit *)
(* is read back as it was set, and is the one asked up to truncation.      *)
(***************************************************************************)
EXTENDS PriamTime, TimeRegsProofs

\* Between two settings nothing changes, and each one establishes the three
\* invariants whatever was set before: no strengthening is needed.
TimeInv == TypeOK /\ ReadBack /\ Truncation

\* The registers of a new PriamAcq say 0.
LEMMA TimeInit == Init => TimeInv
<1> SUFFICES ASSUME Init PROVE TimeInv
  OBVIOUS
<1>1. RegToTime(0, 0) = [it |-> 0, iu |-> 0]
  BY DEF RegToTime
<1> QED
  BY <1>1, Units
  DEF Init, TimeInv, TypeOK, ReadBack, Truncation, Micros, UNIT_NB

\* A product below 1024 s establishes the three, whatever was set before.
LEMMA TimeStep ==
  ASSUME NEW us \in Nat, NEW askt \in Product(us), askt < Limit, SetTo(us, askt)
  PROVE  TimeInv'
<1>1. askt \in Nat /\ askt \in 2 * us - 1 .. 2 * us + 1
  BY ProductType
<1>2. PICK it \in 0 .. 1023 : it = Count(askt)
  BY <1>1, CountInRange
<1>3. PICK iu \in 0 .. 6 : iu = Scale(askt)
  BY <1>1, ScaleInRange
<1>4. /\ asked' = us
      /\ set' = [it |-> it, iu |-> iu]
      /\ reg1' = TimeToReg(askt).reg1
      /\ reg2' = TimeToReg(askt).reg2
  BY <1>2, <1>3 DEF SetTo, TimeToReg
<1>5. TypeOK'
  <2>1. reg1' \in 0 .. 255 /\ reg2' \in 0 .. 255
    BY <1>1, <1>4, DecodeEncode
  <2>2. asked' \in Nat /\ set' \in [it : 0 .. 1024, iu : 0 .. UNIT_NB]
    BY <1>4 DEF UNIT_NB
  <2> QED
    BY <2>1, <2>2 DEF TypeOK
<1>6. ReadBack'
  BY <1>1, <1>2, <1>3, <1>4, DecodeEncode DEF ReadBack
<1>7. Truncation'
  <2>1. PICK got \in Nat : got = it * Unit(iu)
    BY Units
  <2>2. PICK unit \in Nat : unit = Unit(iu)
    BY Units
  <2>3. 2 * got <= askt /\ askt < 2 * got + 2 * unit
    BY <1>1, <1>2, <1>3, <2>1, <2>2, CountInRange
  <2>4. got <= us /\ us - got <= unit
    BY <1>1, <2>3
  <2>5. ASSUME iu > 0 PROVE us >= 1024 * Unit(iu - 1)
    <3>1. PICK finer \in Nat : finer = Unit(iu - 1)
      BY <2>5, Units
    <3>2. ~(askt < 2 * (1024 * finer))
      BY <1>1, <1>3, <2>5, <3>1, ScaleInRange DEF FitsIn
    <3> QED
      BY <1>1, <3>1, <3>2
  <2>6. /\ Micros(set)' = got /\ asked' = us /\ set'.iu = iu /\ Unit(set'.iu) = unit
    BY <1>4, <2>1, <2>2 DEF Micros
  <2> QED
    BY <2>4, <2>5, <2>6 DEF Truncation
<1> QED
  BY <1>5, <1>6, <1>7 DEF TimeInv

\* They hold in every state.
LEMMA TimeInvariant ==
  ASSUME 1024000000 \notin Asked
  PROVE  Spec => []TimeInv
<1>1. TimeInv /\ [Next]_vars => TimeInv'
  <2> SUFFICES ASSUME TimeInv, [Next]_vars PROVE TimeInv'
    OBVIOUS
  <2>1. ASSUME NEW us \in Asked, SetTime(us) PROVE TimeInv'
    <3>1. us \in Nat /\ us # 1024000000
      BY AskedAssumption
    <3>2. PICK askt \in Product(us) : ~Overflow(askt) /\ SetTo(us, askt)
      BY <2>1 DEF SetTime
    <3>3. askt \in Nat /\ askt \in 2 * us - 1 .. 2 * us + 1
      BY <3>1, ProductType
    <3>4. askt <= 2048000000
      BY <3>2, <3>3, Units DEF Overflow, UNIT_NB
    <3>5. CASE askt < Limit
      BY <3>1, <3>2, <3>5, TimeStep
    <3>6. CASE askt = 2048000000
      BY <3>1, <3>3, <3>6
    <3> QED
      BY <3>3, <3>4, <3>5, <3>6 DEF Limit
  <2>2. CASE UNCHANGED vars
    BY <2>2 DEF vars, TimeInv, TypeOK, ReadBack, Truncation
  <2> QED
    BY <2>1, <2>2 DEF Next
<1> QED
  BY <1>1, TimeInit, PTL DEF Spec

\* Any duration the setter accepts, 1024 s apart, is read back as set ...
THEOREM SetTimeIsReadBack ==
  ASSUME 1024000000 \notin Asked
  PROVE  Spec => []ReadBack
<1>1. TimeInv => ReadBack
  BY DEF TimeInv
<1> QED
  BY <1>1, TimeInvariant, PTL

\* ... and is the duration asked, never longer, short of it by one step of its
\* unit at most, in the finest unit that holds it: for any durations and
\* whichever way the double product of each falls.
THEOREM SetTimeIsClose ==
  ASSUME 1024000000 \notin Asked
  PROVE  Spec => []Truncation
<1>1. TimeInv => Truncation
  BY DEF TimeInv
<1> QED
  BY <1>1, TimeInvariant, PTL

=============================================================================
