---------------------------- MODULE MpxDetConfig ----------------------------
(***************************************************************************)
(* MpxDetConfig: which configuration files of a detector are taken and what*)
(* the camera gets from them.  A file is a record of its values; a value   *)
(* that is not there is read as Missing, a list may be shorter or longer   *)
(* than the number of chips.  The reader of a load is a new one, and is    *)
(* gone with all it has read when it throws.                               *)
(***************************************************************************)
EXTENDS Integers, Sequences

Missing == -999999   \* the default of getMandatoryParam

Versions   == {"DUMMY", "MPX2", "MXR2", "TPX1"}
Polarities == {"NEGATIVE", "POSITIVE"}
Layouts    == {"L_NONE", "L_2x2", "L_5x1", "L_FREE", "L_GENERAL"}
Grid       == {"L_2x2", "L_5x1"}

\* getMandatoryParam: the value is there, and in its range.
Given(value)                == value # Missing
GivenWithin(value, min, max) == Given(value) /\ value \in min .. max

\* Entry i of a list of the file.
Entry(list, i) == IF i \in DOMAIN list THEN list[i] ELSE Missing

\* loadDetectorConfig's test: either will do.
IsMaxipix(file) == file.type = "MAXIPIX" \/ file.version = "1.0"

\* The ports of the board are counted from 1 in the file.
Ports(file) == [i \in 1 .. file.nchips |-> Entry(file.chip, i) - 1]

\* Mutant: a port is compared with that of the chip before only.
DetModuleNeighbours(file) ==
  /\ file.asic \in Versions /\ file.polarity \in Polarities
  /\ Given(file.frequency) /\ Given(file.nchips) /\ Given(file.energy)
  /\ \A i \in 1 .. file.nchips :
       /\ Given(Entry(file.chip, i))
       /\ i > 1 => Ports(file)[i - 1] # Ports(file)[i]

parseDetModuleSection(file) ==
  /\ file.asic \in Versions /\ file.polarity \in Polarities
  /\ Given(file.frequency) /\ Given(file.nchips) /\ Given(file.energy)
  /\ \A i \in 1 .. file.nchips :
       /\ Given(Entry(file.chip, i))
       /\ \A j \in 1 .. i - 1 : Ports(file)[j] # Ports(file)[i]

parseLayoutGeneralSection(file) ==
  \A i \in 1 .. file.nchips : /\ Given(Entry(file.rot, i))
                              /\ GivenWithin(Entry(file.xc, i), 0, 2048)
                              /\ GivenWithin(Entry(file.yc, i), 0, 2048)

parseLayoutSection(file) ==
  CASE file.layout = "L_5x1" -> GivenWithin(file.xgap, 0, 4) /\ file.nchips = 5
    [] file.layout = "L_2x2" -> /\ GivenWithin(file.xgap, 0, 4) /\ GivenWithin(file.ygap, 0, 4)
                                /\ file.nchips = 4
    [] file.layout \in {"L_GENERAL", "L_FREE"} -> parseLayoutGeneralSection(file)
    [] file.layout = "L_NONE" -> TRUE
    [] OTHER -> FALSE

\* file.dacs: every dac that is wanted is in the file (see MpxDacs).
parseDacsSection(file) == file.dacs

parseCalibrationSection(file) ==
  /\ \A i \in 1 .. file.nchips : Given(Entry(file.thlnoise, i)) /\ Given(Entry(file.thlxray, i))
  /\ Given(file.calib)

\* A file that loadDetectorConfig does not throw for.
Taken(file) ==
  /\ IsMaxipix(file)
  /\ parseDetModuleSection(file) /\ parseLayoutSection(file)
  /\ parseDacsSection(file) /\ parseCalibrationSection(file)

\* What the camera gets.  The numbers of a layout by positions and the gaps
\* of one without are whatever they happen to be, x and y.
Read(file, x, y) ==
  [ layout |-> file.layout, nchips |-> file.nchips, m_priamPorts |-> Ports(file),
    m_positions |-> IF file.layout \in {"L_GENERAL", "L_FREE"}
                    THEN [i \in 1 .. file.nchips |->
                            [x |-> file.xc[i], y |-> file.yc[i], rotation |-> file.rot[i]]]
                    ELSE <<>>,
    xchips |-> CASE file.layout = "L_2x2"  -> 2
                 [] file.layout = "L_5x1"  -> 5
                 [] file.layout = "L_NONE" -> file.nchips
                 [] OTHER -> x,
    ychips |-> CASE file.layout = "L_2x2"  -> 2
                 [] file.layout \in {"L_5x1", "L_NONE"} -> 1
                 [] OTHER -> y,
    xgap   |-> IF file.layout \in Grid THEN file.xgap ELSE x,
    ygap   |-> CASE file.layout = "L_2x2" -> file.ygap
                 [] file.layout = "L_5x1" -> 0
                 [] OTHER -> y ]
=============================================================================
