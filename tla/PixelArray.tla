----------------------------- MODULE PixelArray -----------------------------
(***************************************************************************)
(* PixelArray: the pixel matrix of a chip as the board wants it and as the *)
(* board gives it.  A chip has a word of 14 bits per pixel.  A string      *)
(* carries the words plane by plane: line after line, for each line the    *)
(* highest bit of all its words first, a plane of 8 pixels to a byte with  *)
(* the columns from the last to the first.                                 *)
(*                                                                         *)
(* A configuration (PixelConfigArray) has four arrays, of which each bit   *)
(* goes to a bit of the pixel's word that depends on the type of chip.     *)
(* PixelDataArray takes a string apart into words.                         *)
(*                                                                         *)
(* An uint8_t, a word and a string are the sets of their bits that are on; *)
(* a bit of a string is <<byte, bit of the byte>>.                         *)
(***************************************************************************)
EXTENDS Integers, Sequences

CONSTANTS NRow,    \* lines of a chip (256)
          NWord    \* bytes of a plane of a line (32)

ASSUME SizeAssumption == NRow \in Nat \ {0} /\ NWord \in Nat \ {0}

NCol   == 8 * NWord
Pixels == 0 .. NRow * NCol - 1
Fields == {"mask", "test", "low", "high"}
Cells  == (0 .. NRow - 1) \X (0 .. NWord - 1) \X (0 .. 7)   \* irow, wcol, wbit

Byte   == SUBSET (0 .. 7)
Arrays == [Fields -> [Pixels -> Byte]]

\* The bit of the word for each bit of an array, its low bit first.
m_bit ==
  [ DUMMY |-> [mask |-> <<0>>,  test |-> <<1>>,  low |-> <<4, 3, 2>>,      high |-> <<7, 6, 5>>],
    MPX2  |-> [mask |-> <<11>>, test |-> <<10>>, low |-> <<9, 8, 7>>,      high |-> <<12, 5, 4>>],
    MXR2  |-> [mask |-> <<0>>,  test |-> <<9>>,  low |-> <<7, 6, 8>>,      high |-> <<12, 10, 11>>],
    TPX1  |-> [mask |-> <<7>>,  test |-> <<13>>, low |-> <<8, 12, 10, 11>>, high |-> <<9, 6>>] ]

\* The bits of an array that have one, numbered from 0.
Used(v, f) == 0 .. Len(m_bit[v][f]) - 1

\* The pixel in bit 7 - wbit of byte wcol of the planes of line irow.
PixelAt(irow, wcol, wbit) == irow * NCol + (NCol - 1) - (wcol * 8 + wbit)

\* Where bit "bit" of that pixel's word is in the string.
Address(irow, bit, wcol, wbit) ==
  <<irow * 14 * NWord + NWord * (13 - bit) + wcol, 7 - wbit>>

\* Mutant: the low bit of an array goes where its high bit should.
ConfigStringReversed(v, arrays) ==
  UNION {{Address(c[1], m_bit[v][f][Len(m_bit[v][f]) - ib], c[2], c[3]) :
            ib \in Used(v, f) \cap arrays[f][PixelAt(c[1], c[2], c[3])]} :
         c \in Cells, f \in Fields}

\* PixelConfigArray::convert
ConfigString(v, arrays) ==
  UNION {{Address(c[1], m_bit[v][f][ib + 1], c[2], c[3]) :
            ib \in Used(v, f) \cap arrays[f][PixelAt(c[1], c[2], c[3])]} :
         c \in Cells, f \in Fields}

\* PixelDataArray::convert: the word of the pixel of a cell.
DataAt(buffer, irow, wcol, wbit) ==
  {13 - dbit : dbit \in {d \in 0 .. 13 :
                 <<irow * 14 * NWord + d * NWord + wcol, 7 - wbit>> \in buffer}}

\* The pixel it is given to: column dcol of the line.
DataPixel(row, wcol, wbit) == row * NCol + (NCol - 1 - (wcol * 8 + wbit))

\* What is left of the arrays once converted: the bits the type has.
Kept(v, arrays) == [f \in Fields |-> [p \in Pixels |-> arrays[f][p] \cap Used(v, f)]]

\* The bits of a word that hold those an array has for a pixel.
WordOf(v, f, bits) == {m_bit[v][f][ib + 1] : ib \in Used(v, f) \cap bits}

\* Taken apart by the code that takes the chip's frames apart, the string has
\* in the word of every pixel the bits of its four values, and no other bit
\* on: no two bits share a place, and no pixel has another's.
ReadsBack(v, arrays) ==
  LET buffer == ConfigString(v, arrays)
  IN \A c \in Cells :
       DataAt(buffer, c[1], c[2], c[3]) =
         UNION {WordOf(v, f, arrays[f][DataPixel(c[1], c[2], c[3])]) : f \in Fields}

\* No two bits of the four values are in the same bit of a word, and all are
\* in one of the 14.
OwnPlaces(v) ==
  \A f, g \in Fields : \A i \in Used(v, f), j \in Used(v, g) :
    /\ m_bit[v][f][i + 1] \in 0 .. 13
    /\ m_bit[v][f][i + 1] = m_bit[v][g][j + 1] => f = g /\ i = j
=============================================================================
