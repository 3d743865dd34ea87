--------------------------- MODULE MCPriamSerial ----------------------------
(***************************************************************************)
(* Instances of PriamSerial for TLC.  The registers are those the threads  *)
(* really race on: the status register polled by getStatus, an exposure    *)
(* register, the FSR and the matrix (2 characters stand for the 32 of an   *)
(* FSR and the 114688 of a matrix).  131 is both a register value and the  *)
(* code of the status read, 255 both a value and SERIAL_END: stored bytes  *)
(* may look like protocol characters.                                      *)
(***************************************************************************)
EXTENDS PriamSerial, FiniteSetsExt, TLC

ThreadSymmetry == Permutations(Threads)

\* Calls that all take the mutex.
LockedCalls == { readRegister("MSR", <<>>, 0), readRegister("ET1", <<>>, 0),
                 writeRegister("ET1", <<255>>), writeFsr(<<131, 255>>, 2) }

\* What an uninitialised short may hold: the code of another command (the
\* status read, the matrix write), or a number that is no byte although its
\* low byte is such a code.
Garbage == {131, 16, 144 - 256}

\* The pixel matrix, written without the mutex, and a LUT, against the rest.
MatrixCalls == { readRegister("MSR", <<>>, 0), writeMatrix(<<131, 0>>, 2),
                 readMatrix(2), writeLut("FF2", <<255>>) }
                 \cup {readLut(code, 1) : code \in Garbage}

\* An earlier session left 131 in every cell.
Stored(c) == IF c.rsize = 0 THEN Len(c.args) ELSE c.rsize
LeftBefore == [k \in Cells |->
               [i \in 1 .. Max({Stored(c) : c \in {d \in Calls : Cell(d.code) = k}}) |-> 131]]

\* The calls that lock are as the proofs of PriamSerialProofs assume.
ASSUME LockedAreMatched == (\A c \in Calls : c.lock) => Matched
=============================================================================
