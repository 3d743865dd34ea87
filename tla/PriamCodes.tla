----------------------------- MODULE PriamCodes -----------------------------
(***************************************************************************)
(* The command codes of the Priam readout board, from the three tables of  *)
(* PriamSerial.cpp, and the serial transaction each public method of       *)
(* PriamSerial builds from its row.  A row is <<writeCode, writeSize,      *)
(* readCode, readSize>>; 255 (0xff) stands for "no such access" and size   *)
(* -1 for "any size".                                                      *)
(***************************************************************************)
EXTENDS Integers, Sequences

NoAccess == 255
AnySize  == -1

\* The status characters the board answers with (PriamSerialError).
SERIAL_END == 255
SERIAL_ERR == 254
SERIAL_BAD == 253

PriamRegCode ==
  [ MCR1   |-> << 0,  1, 128,  1>>,   MCR2   |-> << 1,  1, 129,  1>>,
    BID    |-> <<255, 0, 130,  1>>,   MSR    |-> << 3,  1, 131,  1>>,
    ET1    |-> << 4,  1, 132,  1>>,   ET2    |-> << 5,  1, 133,  1>>,
    ROM    |-> << 6,  1, 134,  1>>,   AOP    |-> << 7,  1, 135,  1>>,
    LUTAD1 |-> << 8,  1, 136,  1>>,   LUTAD2 |-> << 9,  1, 137,  1>>,
    TP     |-> <<32,  1, 160,  1>>,   INB1   |-> <<34,  1, 162,  1>>,
    INB2   |-> <<35,  1, 163,  1>>,   IT1    |-> <<36,  1, 164,  1>>,
    IT2    |-> <<37,  1, 165,  1>>,   OSC    |-> <<38,  2, 255,  0>>,
    TAS    |-> <<39,  1, 167,  1>>,   TAP    |-> <<40,  1, 168,  1>>,
    ST1    |-> <<42,  1, 170,  1>>,   ST2    |-> <<43,  1, 171,  1>>,
    TIP    |-> <<44,  1, 172,  1>>,   CFG    |-> <<45,  1, 173,  1>>,
    MPINIT |-> <<46,  1, 255,  0>>,   MPSEL  |-> <<47,  1, 255,  0>>,
    OWT1   |-> <<20,  1, 148,  1>>,   OWT2   |-> <<21,  1, 149,  1>>,
    OWTR   |-> <<22, -1, 150, -1>>,   OWCR   |-> <<23,  1, 151,  1>>,
    SPISIZ |-> <<24,  1, 152,  1>>,   SPICTZ |-> <<25,  1, 153,  1>>,
    SPITZ  |-> <<26, -1, 154, -1>> ]

PriamLutCode ==
  [ CC  |-> <<10, -1, 138, -1>>,   FF1 |-> <<11, -1, 139, -1>>,
    FF2 |-> <<12, -1, 140, -1>>,   FF3 |-> <<13, -1, 141, -1>>,
    FF4 |-> <<14, -1, 142, -1>>,   FF5 |-> <<15, -1, 143, -1>> ]

PriamSerTxCode ==
  [ MATRIX |-> << 16, 114688, 144, 114688>>,
    FSR    |-> <<145,     32, 255,      3>> ]

(***************************************************************************)
(* A call as the protocol sees it: the command character, the characters   *)
(* that follow it, the number of payload characters expected in the        *)
(* answer, whether the call takes m_mutex, whether a short payload is an   *)
(* error, and whether the arguments pass the checks made before any I/O.   *)
(* The answer must begin with "echo", the code itself but for readLut, the *)
(* one method whose code is not "listed" in a table; and "along" says that *)
(* the first argument goes out in one write with the code.                 *)
(***************************************************************************)
Call(code, args, rsize, lock, sized, valid) ==
  [code |-> code, args |-> args, rsize |-> rsize,
   lock |-> lock, sized |-> sized, valid |-> valid,
   echo |-> code, listed |-> TRUE, along |-> FALSE]

\* Mutant: writeRegister without its AutoMutex.
writeUnlocked(reg, buffer) ==
  LET row == PriamRegCode[reg] IN
    Call(row[1], buffer, 0, FALSE, FALSE, row[1] # NoAccess)

\* Mutant: readRegister without its AutoMutex.
readUnlocked(reg, buffer, size) ==
  LET row == PriamRegCode[reg] IN
    Call(row[3], buffer, row[4], FALSE, TRUE, row[3] # NoAccess)

writeRegister(reg, buffer) ==
  LET row == PriamRegCode[reg] IN
    Call(row[1], buffer, 0, TRUE, FALSE,
         row[1] # NoAccess /\ (row[2] > 0 => Len(buffer) = row[2]))

\* The caller's buffer goes out with the command; every caller passes <<>>.
readRegister(reg, buffer, size) ==
  LET row == PriamRegCode[reg] IN
    Call(row[3], buffer, IF row[4] = AnySize THEN size ELSE row[4],
         TRUE, TRUE, row[3] # NoAccess)

\* FsrSize and MatrixSize stand for 32 and 114688 characters.
writeFsr(fsr, FsrSize) ==
  LET row == PriamSerTxCode["FSR"] IN
    Call(row[1], fsr, row[4], TRUE, FALSE, Len(fsr) = FsrSize)

\* The one method that does not take the mutex.
writeMatrix(input, MatrixSize) ==
  LET row == PriamSerTxCode["MATRIX"] IN
    Call(row[1], input, 0, FALSE, FALSE, Len(input) = MatrixSize)

readMatrix(MatrixSize) ==
  LET row == PriamSerTxCode["MATRIX"] IN
    Call(row[3], <<>>, MatrixSize, TRUE, FALSE, TRUE)

\* The size is written with the code, the buffer after both.
writeLut(lut, buffer) ==
  [Call(PriamLutCode[lut][1], <<Len(buffer) % 256>> \o buffer, 0, TRUE, FALSE,
        Len(buffer) <= 256) EXCEPT !.along = TRUE]

\* The row of the LUT is never looked up: readCode is what the short of an
\* uninitialised PriamCodeType holds.  Its low byte is sent, and the answer
\* compared with all of it.
readLut(readCode, size) ==
  [Call(readCode % 256, <<size % 256>>, size, TRUE, FALSE, size <= 256)
    EXCEPT !.echo = readCode, !.listed = FALSE, !.along = TRUE]
=============================================================================
