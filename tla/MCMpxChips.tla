------------------------------ MODULE MCMpxChips ------------------------------
(***************************************************************************)
(* Instances of MpxChips for TLC.  Of MpxDacs: a detector of two chips of  *)
(* each type, the first chip not on port 0, with values whose bits tell the*)
(* fields apart.  Of MpxChipConfig: a .bpc for each of two chips and a mask*)
(* of a size loadMask takes, with patterns that differ from pixel to pixel *)
(* and from bit to bit.                                                    *)
(***************************************************************************)
EXTENDS MpxChips

\* A value for every key a file of this version must have, different bits in
\* its low and in its high half.
FileOf(v) == [key \in listKeys(v, TRUE) |->
                IF key = "ctpr" THEN -1431655765 ELSE IF key \in {"gnd", "fbk"} THEN 90 ELSE 165]

Detector(v, noise, xray, energy) ==
  [version |-> v, ports |-> <<1, 0>>, dacs |-> FileOf(v),
   noise |-> noise, xray |-> xray, calib |-> 5, energy |-> energy]

OneOfEach == {Detector("TPX1", <<7575, 7586>>, <<7425, 7602>>, 3),
              Detector("MXR2", <<7575, 7586>>, <<7425, 7602>>, 0),
              Detector("MPX2", <<75, 86>>, <<25, 102>>, 4)}

SomeKeys    == {<<"thl", 85>>, <<"wrong", 1>>}
GoodThenBad == {<< <<"dacsel", 0>>, <<"gnd", -1>>, <<"wrong", 1>> >>}

Pattern(k) == [p \in Pixels |-> {b \in 0 .. 7 : ((p + k) * (b + 3)) % 7 < 3}]

\* The second chip's .bpc is longer than a chip; its .edf has the size that
\* loadEdf takes, and its third image a header that ends where it should.
Bpc(k)   == [size |-> NPix + k - 1, ended |-> {}, images |-> [bpc |-> Pattern(k)]]
MaskFile == [size |-> HeaderSize * NPix, ended |-> {}, images |-> [mask |-> Pattern(2)]]
EdfFile  == [size |-> 4 * HeaderSize * NPix, ended |-> {"low"},
             images |-> [f \in Fields |-> Pattern(Index[f] + 3)]]

SomeFiles ==
  [id \in {<<"a", 1, "bpc">>, <<"a", 2, "bpc">>, <<"a", 2, "mask">>, <<"b", 2, "edf">>} |->
     CASE id[3] = "mask" -> MaskFile [] id[3] = "edf" -> EdfFile [] OTHER -> Bpc(id[2])]
=============================================================================
