---------------------------- MODULE MpxChipsProofs ----------------------------
(***************************************************************************)
(* PixelArray's string is read back for chips of any size.  The matrices of*)
(* MpxChipConfig hold a value of a byte for every pixel whatever is loaded,*)
(* set or refused, and so what is sent is read back; a file saved keeps    *)
(* the matrix it was saved from.                                           *)
(* No two fields of a register share a bit, in any table of MpxFsr, and    *)
(* MpxDacs sends each chip its own values, on its own port: the register of*)
(* a chip holds them, and what is read for all the chips is true of each.  *)
(* A threshold set by energy is in the chip's register, and between the two*)
(* thresholds of its calibration.                                          *)
(***************************************************************************)
EXTENDS MpxChips, SequenceTheorems, TLAPS

\* A number of columns away from a multiple of their number is in one way.
LEMMA SplitUnique ==
  ASSUME NEW n \in Nat \ {0}, NEW a \in Int, NEW b \in Int,
         NEW s \in 0 .. n - 1, NEW t \in 0 .. n - 1,
         n * a + s = n * b + t
  PROVE  a = b /\ s = t
<1>1. n * (a - b) = t - s  OBVIOUS
<1>2. CASE a - b >= 1
  <2>1. n * (a - b) >= n  BY <1>2
  <2>. QED  BY <2>1, <1>1
<1>3. CASE a - b <= -1
  <2>1. n * (a - b) <= -n  BY <1>3
  <2>. QED  BY <2>1, <1>1
<1>4. CASE a = b  BY <1>4
<1>. QED  BY <1>2, <1>3, <1>4

\* The tables, a row at a time: no place is given twice.
LEMMA OwnPlacesOfTypes == \A v \in DOMAIN m_bit : OwnPlaces(v)
<1>1. OwnPlaces("DUMMY")
  <2>1. m_bit["DUMMY"]["mask"] = <<0>>  BY DEF m_bit
  <2>2. m_bit["DUMMY"]["test"] = <<1>>  BY DEF m_bit
  <2>3. m_bit["DUMMY"]["low"] = <<4, 3, 2>>  BY DEF m_bit
  <2>4. m_bit["DUMMY"]["high"] = <<7, 6, 5>>  BY DEF m_bit
  <2>5. Used("DUMMY", "mask") = 0 .. 0
    BY <2>1 DEF Used
  <2>6. Used("DUMMY", "test") = 0 .. 0
    BY <2>2 DEF Used
  <2>7. Used("DUMMY", "low") = 0 .. 2
    BY <2>3 DEF Used
  <2>8. Used("DUMMY", "high") = 0 .. 2
    BY <2>4 DEF Used
  <2>. QED  BY <2>1, <2>2, <2>3, <2>4, <2>5, <2>6, <2>7, <2>8 DEF OwnPlaces, Fields
<1>2. OwnPlaces("MPX2")
  <2>1. m_bit["MPX2"]["mask"] = <<11>>  BY DEF m_bit
  <2>2. m_bit["MPX2"]["test"] = <<10>>  BY DEF m_bit
  <2>3. m_bit["MPX2"]["low"] = <<9, 8, 7>>  BY DEF m_bit
  <2>4. m_bit["MPX2"]["high"] = <<12, 5, 4>>  BY DEF m_bit
  <2>5. Used("MPX2", "mask") = 0 .. 0
    BY <2>1 DEF Used
  <2>6. Used("MPX2", "test") = 0 .. 0
    BY <2>2 DEF Used
  <2>7. Used("MPX2", "low") = 0 .. 2
    BY <2>3 DEF Used
  <2>8. Used("MPX2", "high") = 0 .. 2
    BY <2>4 DEF Used
  <2>. QED  BY <2>1, <2>2, <2>3, <2>4, <2>5, <2>6, <2>7, <2>8 DEF OwnPlaces, Fields
<1>3. OwnPlaces("MXR2")
  <2>1. m_bit["MXR2"]["mask"] = <<0>>  BY DEF m_bit
  <2>2. m_bit["MXR2"]["test"] = <<9>>  BY DEF m_bit
  <2>3. m_bit["MXR2"]["low"] = <<7, 6, 8>>  BY DEF m_bit
  <2>4. m_bit["MXR2"]["high"] = <<12, 10, 11>>  BY DEF m_bit
  <2>5. Used("MXR2", "mask") = 0 .. 0
    BY <2>1 DEF Used
  <2>6. Used("MXR2", "test") = 0 .. 0
    BY <2>2 DEF Used
  <2>7. Used("MXR2", "low") = 0 .. 2
    BY <2>3 DEF Used
  <2>8. Used("MXR2", "high") = 0 .. 2
    BY <2>4 DEF Used
  <2>. QED  BY <2>1, <2>2, <2>3, <2>4, <2>5, <2>6, <2>7, <2>8 DEF OwnPlaces, Fields
<1>4. OwnPlaces("TPX1")
  <2>1. m_bit["TPX1"]["mask"] = <<7>>  BY DEF m_bit
  <2>2. m_bit["TPX1"]["test"] = <<13>>  BY DEF m_bit
  <2>3. m_bit["TPX1"]["low"] = <<8, 12, 10, 11>>  BY DEF m_bit
  <2>4. m_bit["TPX1"]["high"] = <<9, 6>>  BY DEF m_bit
  <2>5. Used("TPX1", "mask") = 0 .. 0
    BY <2>1 DEF Used
  <2>6. Used("TPX1", "test") = 0 .. 0
    BY <2>2 DEF Used
  <2>7. Used("TPX1", "low") = 0 .. 3
    BY <2>3 DEF Used
  <2>8. Used("TPX1", "high") = 0 .. 1
    BY <2>4 DEF Used
  <2>. QED  BY <2>1, <2>2, <2>3, <2>4, <2>5, <2>6, <2>7, <2>8 DEF OwnPlaces, Fields
<1>5. DOMAIN m_bit = {"DUMMY", "MPX2", "MXR2", "TPX1"}  BY DEF m_bit
<1>. QED  BY <1>1, <1>2, <1>3, <1>4, <1>5

\* An address of the string is that of one bit of one pixel's word, whatever
\* the numbers of lines and columns.
LEMMA AddressUnique ==
  ASSUME NEW c \in Cells, NEW e \in Cells, NEW i \in 0 .. 13, NEW j \in 0 .. 13,
         Address(c[1], i, c[2], c[3]) = Address(e[1], j, e[2], e[3])
  PROVE  c = e /\ i = j
<1>. PICK r \in 0 .. NRow - 1, w \in 0 .. NWord - 1, a \in 0 .. 7 : c = <<r, w, a>>
  BY DEF Cells
<1>. PICK q \in 0 .. NRow - 1, x \in 0 .. NWord - 1, b \in 0 .. 7 : e = <<q, x, b>>
  BY DEF Cells
<1>8. Address(r, i, w, a) = Address(q, j, x, b)  OBVIOUS
<1>1. a = b  BY <1>8 DEF Address
<1>2. r * 14 * NWord + NWord * (13 - i) + w = q * 14 * NWord + NWord * (13 - j) + x
  BY <1>8 DEF Address
<1> DEFINE m == 14 * r + (13 - i)
           n == 14 * q + (13 - j)
<1>3. NWord * m + w = NWord * n + x  BY <1>2, SizeAssumption
<1>4. m \in Int /\ n \in Int  BY SizeAssumption
<1>. HIDE DEF m, n
<1>5. m = n /\ w = x  BY <1>3, <1>4, SplitUnique, SizeAssumption
<1>6. 14 * r + (13 - i) = 14 * q + (13 - j)  BY <1>5 DEF m, n
<1>7. r = q /\ i = j  BY <1>6, SizeAssumption
<1>. QED  BY <1>1, <1>5, <1>7

\* The word of the pixel of a cell is read at the addresses of its bits.
LEMMA DataAtAddress ==
  ASSUME NEW buffer, NEW r \in 0 .. NRow - 1, NEW w \in 0 .. NWord - 1, NEW a \in 0 .. 7,
         NEW i \in 0 .. 13
  PROVE  i \in DataAt(buffer, r, w, a) <=> Address(r, i, w, a) \in buffer
<1>1. NWord \in Nat /\ NRow \in Nat  BY SizeAssumption
<1>2. ASSUME NEW d \in 0 .. 13, i = 13 - d
      PROVE  <<r * 14 * NWord + d * NWord + w, 7 - a>> = Address(r, i, w, a)
  BY <1>1, <1>2 DEF Address
<1>3. 13 - i \in 0 .. 13 /\ i = 13 - (13 - i)  OBVIOUS
<1>. QED  BY <1>2, <1>3 DEF DataAt

\* What is sent is what is asked for, for arrays of any contents.
THEOREM StringReadsBack ==
  ASSUME NEW v \in DOMAIN m_bit, NEW arrays \in Arrays
  PROVE  ReadsBack(v, arrays)
<1> DEFINE buffer == ConfigString(v, arrays)
           Value(f, c) == arrays[f][DataPixel(c[1], c[2], c[3])]
           Sent(f, c) == {Address(c[1], m_bit[v][f][ib + 1], c[2], c[3]) :
                            ib \in Used(v, f) \cap Value(f, c)}
<1>1. \A c \in Cells : PixelAt(c[1], c[2], c[3]) = DataPixel(c[1], c[2], c[3])
  BY SizeAssumption DEF Cells, PixelAt, DataPixel, NCol
<1>2. buffer = UNION {Sent(f, c) : c \in Cells, f \in Fields}
  BY <1>1 DEF ConfigString
<1>3. OwnPlaces(v)  BY OwnPlacesOfTypes
<1>4. \A f \in Fields : \A ib \in Used(v, f) : m_bit[v][f][ib + 1] \in 0 .. 13
  BY <1>3 DEF OwnPlaces
<1> SUFFICES ASSUME NEW c \in Cells
             PROVE  DataAt(buffer, c[1], c[2], c[3]) = UNION {WordOf(v, f, Value(f, c)) : f \in Fields}
  BY DEF ReadsBack
<1>. HIDE DEF buffer, Sent
<1>5. c[1] \in 0 .. NRow - 1 /\ c[2] \in 0 .. NWord - 1 /\ c[3] \in 0 .. 7 /\ c = <<c[1], c[2], c[3]>>
  BY DEF Cells
<1>6. ASSUME NEW i \in DataAt(buffer, c[1], c[2], c[3])
      PROVE  i \in UNION {WordOf(v, f, Value(f, c)) : f \in Fields}
  <2>12. PICK d \in 0 .. 13 : i = 13 - d  BY <1>6 DEF DataAt
  <2>1. i \in 0 .. 13  BY <2>12
  <2>2. Address(c[1], i, c[2], c[3]) \in buffer  BY <2>1, <1>5, <1>6, DataAtAddress
  <2>10. PICK f \in Fields : \E e \in Cells : Address(c[1], i, c[2], c[3]) \in Sent(f, e)
    BY <2>2, <1>2
  <2>3. PICK e \in Cells : Address(c[1], i, c[2], c[3]) \in Sent(f, e)  BY <2>10
  <2>4. PICK ib \in Used(v, f) \cap Value(f, e) :
          Address(c[1], i, c[2], c[3]) = Address(e[1], m_bit[v][f][ib + 1], e[2], e[3])
    BY <2>3 DEF Sent
  <2>5. PICK j \in 0 .. 13 : j = m_bit[v][f][ib + 1]  BY <2>4, <1>4
  <2>6. Address(c[1], i, c[2], c[3]) = Address(e[1], j, e[2], e[3])  BY <2>4, <2>5
  <2>7. c = e /\ i = j  BY <2>1, <2>5, <2>6, AddressUnique
  <2>8. ib \in Used(v, f) \cap Value(f, c)  BY <2>4, <2>7
  <2>. QED  BY <2>5, <2>7, <2>8 DEF WordOf
<1>7. ASSUME NEW i \in UNION {WordOf(v, f, Value(f, c)) : f \in Fields}
      PROVE  i \in DataAt(buffer, c[1], c[2], c[3])
  <2>1. PICK f \in Fields : i \in WordOf(v, f, Value(f, c))  BY <1>7
  <2>2. PICK ib \in Used(v, f) \cap Value(f, c) : i = m_bit[v][f][ib + 1]  BY <2>1 DEF WordOf
  <2>3. i \in 0 .. 13  BY <2>2, <1>4
  <2>4. Address(c[1], i, c[2], c[3]) \in Sent(f, c)  BY <2>2 DEF Sent
  <2>5. Address(c[1], i, c[2], c[3]) \in buffer  BY <2>4, <1>2
  <2>. QED  BY <2>3, <2>5, <1>5, DataAtAddress
<1>. QED  BY <1>6, <1>7

-----------------------------------------------------------------------------
\* The arrays and the files of which some are loaded as they are.
ArraysOk ==
  /\ m_version \in Versions
  /\ m_pixelArray \in [Chips -> Arrays]
  /\ DOMAIN files \subseteq FileIds
  /\ \A id \in DOMAIN files : FileOk(id, files[id])

\* The bits of an array in use are bits of a byte.
LEMMA MaskIsByte == ASSUME NEW f \in Fields PROVE m_arrayMask(f) \in Byte
BY DEF m_arrayMask, Byte, Fields

\* What setArray and setArrayValue leave.
LEMMA SetArrayOk ==
  ASSUME NEW arrays \in Arrays, NEW f \in Fields, NEW data \in [Pixels -> Byte]
  PROVE  /\ setArray(arrays, f, data) \in Arrays
         /\ setArray(arrays, f, data)[f] \in [Pixels -> Byte]
BY DEF setArray, Arrays, Byte

\* Arrays that are reset.
LEMMA BlankOk == Blank \in Arrays /\ ZeroArray \in [Pixels -> Byte]
BY DEF Blank, ZeroArray, Arrays, Byte

\* A byte for every pixel.
LEMMA BpcBytesOk == ASSUME NEW arrays PROVE BpcBytes(arrays) \in [Pixels -> Byte]
<1>1. ASSUME NEW bits, NEW n PROVE ShiftLeft(bits, n) \subseteq 0 .. 7
  BY DEF ShiftLeft
<1> DEFINE BitsAt(p) == UNION {ShiftLeft(arrays[f][p] \cap m_arrayMask(f), bpcShift(f)) : f \in Fields}
<1>2. ASSUME NEW p \in Pixels PROVE BitsAt(p) \in Byte
  <2>1. ASSUME NEW k \in BitsAt(p) PROVE k \in 0 .. 7
    <3>1. PICK f \in Fields : k \in ShiftLeft(arrays[f][p] \cap m_arrayMask(f), bpcShift(f))
      OBVIOUS
    <3>. QED  BY <3>1, <1>1, Zenon
  <2>. HIDE DEF BitsAt
  <2>. QED  BY <2>1 DEF Byte
<1>3. BpcBytes(arrays) = [p \in Pixels |-> BitsAt(p)]
  BY DEF BpcBytes
<1>. HIDE DEF BitsAt
<1>. QED  BY <1>2, <1>3

LEMMA NPixIsNat == NPix \in Nat
<1>1. NRow \in Nat /\ NCol \in Nat  BY SizeAssumption DEF NCol
<1>. HIDE DEF NCol
<1>. QED  BY <1>1 DEF NPix

\* What a save writes of arrays that are well formed.
LEMMA SavedOk ==
  ASSUME NEW arrays \in Arrays, NEW id, id[3] \in Exts
  PROVE  FileOk(id, Saved(arrays, id[3]))
<1>1. BpcBytes(arrays) \in [Pixels -> Byte]  BY BpcBytesOk
<1>2. arrays.mask \in [Pixels -> Byte]  BY DEF Arrays, Fields
<1>6. NPix \in Nat  BY NPixIsNat
<1>. HIDE DEF NPix
<1>3. CASE id[3] = "bpc"  BY <1>1, <1>3, <1>6 DEF FileOk, Saved
<1>4. CASE id[3] = "edf"  BY <1>4, <1>6 DEF FileOk, Saved
<1>5. CASE id[3] = "mask"  BY <1>2, <1>5, <1>6 DEF FileOk, Saved
<1>. QED  BY <1>3, <1>4, <1>5 DEF Exts

\* Whatever file is loaded, and whether or not it is refused.
LEMMA LoadOk ==
  ASSUME ArraysOk, NEW arrays \in Arrays, NEW id
  PROVE  load(arrays, id).arrays \in Arrays
<1>1. ASSUME NEW file PROVE loadBpc(arrays, file).arrays \in Arrays
  <2>1. \A f \in Fields : FromBpc(file.images.bpc, f) \in [Pixels -> Byte]
    BY MaskIsByte DEF FromBpc, Byte
  <2>2. \A f \in Fields : setArray(Blank, f, FromBpc(file.images.bpc, f))[f] \in [Pixels -> Byte]
    BY <2>1, BlankOk, SetArrayOk
  <2>. QED  BY <2>2 DEF loadBpc, Refused, Taken, Arrays
<1>2. ASSUME NEW file, file.images \in Arrays PROVE loadEdf(arrays, file).arrays \in Arrays
  <2>1. \A f \in Fields : file.images[f] \in [Pixels -> Byte]  BY <1>2 DEF Arrays
  <2>2. \A f \in Fields : setArray(Blank, f, file.images[f])[f] \in [Pixels -> Byte]
    BY <2>1, BlankOk, SetArrayOk
  <2>3. ReadEdf(file) \in Arrays  BY <2>2, BlankOk DEF ReadEdf, Arrays
  <2>. QED  BY <2>3 DEF loadEdf, Refused, Taken
<1>3. CASE id \notin DOMAIN files \/ files[id].size = 0
  BY <1>3 DEF load, Refused
<1>4. CASE id \in DOMAIN files /\ files[id].size # 0
  <2>1. id[3] \in Exts  BY <1>4 DEF ArraysOk, FileIds
  <2>2. id[3] = "edf" => files[id].images \in Arrays  BY <1>4 DEF ArraysOk, FileOk
  <2>3. CASE id[3] = "bpc"  BY <2>3, <1>4, <1>1 DEF load
  <2>4. CASE id[3] = "edf"  BY <2>4, <2>2, <1>4, <1>2 DEF load
  <2>5. CASE id[3] = "mask"  BY <2>5, <1>4 DEF load, Refused
  <2>. QED  BY <2>1, <2>3, <2>4, <2>5 DEF Exts
<1>. QED  BY <1>3, <1>4

\* ... and whatever mask file.
LEMMA LoadMaskOk ==
  ASSUME NEW arrays \in Arrays, NEW file, file.images.mask \in [Pixels -> Byte]
  PROVE  loadMask(arrays, file).arrays \in Arrays
<1> DEFINE clean == [arrays EXCEPT !.mask = ZeroArray]
<1>1. clean \in Arrays  BY BlankOk DEF Arrays
<1>2. setArray(clean, "mask", file.images.mask) \in Arrays  BY <1>1, SetArrayOk DEF Fields
<1>. QED  BY <1>1, <1>2 DEF loadMask, Refused, Taken

\* The arrays are well formed from the start and after every step.
LEMMA ArraysOkInit == Init => ArraysOk
BY BlankOk, FilesAssumption DEF Init, ArraysOk

\* A step changes the arrays of a chip to arrays.
LEMMA SetChipKeeps ==
  ASSUME ArraysOk, NEW c \in Chips, NEW arrays \in Arrays, NEW from, SetChip(c, arrays, from)
  PROVE  ArraysOk'
BY DEF SetChip, ArraysOk, FileOk

\* A step that writes an array of every chip.
LEMMA SetAllKeeps ==
  ASSUME ArraysOk, NEW f \in Fields, NEW value \in Byte, SetAll(f, value)
  PROVE  ArraysOk'
<1>1. \A c \in Chips : setArrayValue(m_pixelArray[c], f, value) \in Arrays
  BY DEF ArraysOk, setArrayValue, Arrays
<1>. QED  BY <1>1 DEF SetAll, ArraysOk, FileOk

\* The invariant is inductive: one case per action.
LEMMA ArraysOkStep == ArraysOk /\ [Next]_vars => ArraysOk'
<1> SUFFICES ASSUME ArraysOk, [Next]_vars PROVE ArraysOk'
  OBVIOUS
<1>1. ASSUME NEW c \in Single, NEW id \in Names \X Chips \X SaveExts, Save(c, id) PROVE ArraysOk'
  <2>1. m_pixelArray[c] \in Arrays /\ m_pixelArray[c].mask \in [Pixels -> Byte]
    BY FilesAssumption DEF ArraysOk, Arrays, Fields
  <2>2. id \in FileIds /\ id[3] \in Exts  BY FilesAssumption DEF FileIds
  <2>3. FileOk(id, Saved(m_pixelArray[c], id[3]))
    BY <2>1, <2>2, SavedOk
  <2>4. \A k \in DOMAIN files \cup {id} : FileOk(k, files'[k])
    BY <2>3, <1>1 DEF Save, ArraysOk
  <2>5. DOMAIN files' \subseteq FileIds /\ DOMAIN files' = DOMAIN files \cup {id}
    BY <2>2, <1>1 DEF Save, ArraysOk
  <2>6. \A k \in DOMAIN files' : FileOk(k, files[k])'
    BY <2>4, <2>5 DEF FileOk
  <2>. QED  BY <2>5, <2>6, <1>1 DEF Save, ArraysOk
<1>2. ASSUME NEW c \in Single, NEW id \in FileIds, LoadFile(c, id) PROVE ArraysOk'
  <2>1. c \in Chips /\ m_pixelArray[c] \in Arrays  BY FilesAssumption DEF ArraysOk
  <2>2. load(m_pixelArray[c], id).arrays \in Arrays  BY <2>1, LoadOk
  <2>. QED  BY <2>1, <2>2, <1>2, SetChipKeeps DEF LoadFile
<1>3. ASSUME NEW c \in Single, NEW id \in FileIds, LoadMask(c, id) PROVE ArraysOk'
  <2>1. c \in Chips /\ m_pixelArray[c] \in Arrays  BY FilesAssumption DEF ArraysOk
  <2>2. files[id].images.mask \in [Pixels -> Byte]  BY <1>3 DEF LoadMask, ArraysOk, FileOk
  <2>3. loadMask(m_pixelArray[c], files[id]).arrays \in Arrays  BY <2>1, <2>2, LoadMaskOk
  <2>. QED  BY <2>1, <2>3, <1>3, SetChipKeeps DEF LoadMask
<1>4. ASSUME NEW c \in Single, ResetArrays(c) PROVE ArraysOk'
  BY <1>4, FilesAssumption, BlankOk, SetChipKeeps DEF ResetArrays
<1>5. ASSUME NEW mode \in Modes, SetTimePixMode(mode) PROVE ArraysOk'
  <2>1. mode \in Byte  BY FilesAssumption DEF Byte
  <2>. QED  BY <2>1, <1>5, SetAllKeeps DEF SetTimePixMode, Fields
<1>6. ASSUME SetLow2Max \/ SetLow2Min \/ SetHigh2Max \/ SetHigh2Min PROVE ArraysOk'
  <2>1. {} \in Byte /\ m_arrayMask("low") \in Byte /\ m_arrayMask("high") \in Byte
    BY MaskIsByte DEF Byte, Fields
  <2>. QED  BY <2>1, <1>6, SetAllKeeps DEF SetLow2Max, SetLow2Min, SetHigh2Max, SetHigh2Min, Fields
<1>7. ASSUME NEW name \in Names, LoadConfig(name) PROVE ArraysOk'
  <2>1. \A c \in Chips : m_pixelArray[c] \in Arrays  BY DEF ArraysOk
  <2>2. \A c \in Chips : load(m_pixelArray[c], getConfigFile(name, c)).arrays \in Arrays
    BY <2>1, LoadOk
  <2>3. m_pixelArray' \in [Chips -> Arrays]  BY <2>1, <2>2, <1>7 DEF LoadConfig
  <2>. QED  BY <2>3, <1>7 DEF LoadConfig, ArraysOk, FileOk
<1>8. ASSUME UNCHANGED vars PROVE ArraysOk'
  BY <1>8 DEF vars, ArraysOk, FileOk
<1>. QED  BY <1>1, <1>2, <1>3, <1>4, <1>5, <1>6, <1>7, <1>8 DEF Next

\* Whatever is loaded, set or refused, for chips of any size and any files:
\* the string of each chip has every bit of its arrays at its own place.
THEOREM MatrixIsReadBack == Spec => []MatrixReadsBack
<1>1. ArraysOk => MatrixReadsBack
  BY OwnPlacesOfTypes, StringReadsBack, FilesAssumption DEF ArraysOk, MatrixReadsBack
<1>. QED  BY <1>1, ArraysOkInit, ArraysOkStep, PTL DEF Spec

-----------------------------------------------------------------------------
(***************************************************************************)
(* Files keep what they are given.  A .bpc has a place in a byte for every *)
(* bit of the four arrays, and no two have the same.                       *)
(***************************************************************************)

\* The bits of an array in use are those the type's planes have.
LEMMA UsedIsMask ==
  ASSUME m_version \in DOMAIN m_bit, NEW f \in Fields
  PROVE  Used(m_version, f) = m_arrayMask(f)
<1>1. 0 .. 0 = {0} /\ 0 .. 1 = {0, 1} /\ 0 .. 2 = {0, 1, 2} /\ 0 .. 3 = {0, 1, 2, 3}
  OBVIOUS
<1>2. CASE m_version = "TPX1"
  <2>1. Used("TPX1", "mask") = 0 .. 0
    <3>1. m_bit["TPX1"]["mask"] = <<7>>  BY DEF m_bit
    <3>. QED  BY <3>1 DEF Used
  <2>2. Used("TPX1", "test") = 0 .. 0
    <3>1. m_bit["TPX1"]["test"] = <<13>>  BY DEF m_bit
    <3>. QED  BY <3>1 DEF Used
  <2>3. Used("TPX1", "low") = 0 .. 3
    <3>1. m_bit["TPX1"]["low"] = <<8, 12, 10, 11>>  BY DEF m_bit
    <3>. QED  BY <3>1 DEF Used
  <2>4. Used("TPX1", "high") = 0 .. 1
    <3>1. m_bit["TPX1"]["high"] = <<9, 6>>  BY DEF m_bit
    <3>. QED  BY <3>1 DEF Used
  <2>. QED  BY <1>1, <1>2, <2>1, <2>2, <2>3, <2>4 DEF m_arrayMask, Fields
<1>3. CASE m_version = "MXR2"
  <2>1. Used("MXR2", "mask") = 0 .. 0
    <3>1. m_bit["MXR2"]["mask"] = <<0>>  BY DEF m_bit
    <3>. QED  BY <3>1 DEF Used
  <2>2. Used("MXR2", "test") = 0 .. 0
    <3>1. m_bit["MXR2"]["test"] = <<9>>  BY DEF m_bit
    <3>. QED  BY <3>1 DEF Used
  <2>3. Used("MXR2", "low") = 0 .. 2
    <3>1. m_bit["MXR2"]["low"] = <<7, 6, 8>>  BY DEF m_bit
    <3>. QED  BY <3>1 DEF Used
  <2>4. Used("MXR2", "high") = 0 .. 2
    <3>1. m_bit["MXR2"]["high"] = <<12, 10, 11>>  BY DEF m_bit
    <3>. QED  BY <3>1 DEF Used
  <2>. QED  BY <1>1, <1>3, <2>1, <2>2, <2>3, <2>4 DEF m_arrayMask, Fields
<1>4. CASE m_version = "MPX2"
  <2>1. Used("MPX2", "mask") = 0 .. 0
    <3>1. m_bit["MPX2"]["mask"] = <<11>>  BY DEF m_bit
    <3>. QED  BY <3>1 DEF Used
  <2>2. Used("MPX2", "test") = 0 .. 0
    <3>1. m_bit["MPX2"]["test"] = <<10>>  BY DEF m_bit
    <3>. QED  BY <3>1 DEF Used
  <2>3. Used("MPX2", "low") = 0 .. 2
    <3>1. m_bit["MPX2"]["low"] = <<9, 8, 7>>  BY DEF m_bit
    <3>. QED  BY <3>1 DEF Used
  <2>4. Used("MPX2", "high") = 0 .. 2
    <3>1. m_bit["MPX2"]["high"] = <<12, 5, 4>>  BY DEF m_bit
    <3>. QED  BY <3>1 DEF Used
  <2>. QED  BY <1>1, <1>4, <2>1, <2>2, <2>3, <2>4 DEF m_arrayMask, Fields
<1>5. CASE m_version = "DUMMY"
  <2>1. Used("DUMMY", "mask") = 0 .. 0
    <3>1. m_bit["DUMMY"]["mask"] = <<0>>  BY DEF m_bit
    <3>. QED  BY <3>1 DEF Used
  <2>2. Used("DUMMY", "test") = 0 .. 0
    <3>1. m_bit["DUMMY"]["test"] = <<1>>  BY DEF m_bit
    <3>. QED  BY <3>1 DEF Used
  <2>3. Used("DUMMY", "low") = 0 .. 2
    <3>1. m_bit["DUMMY"]["low"] = <<4, 3, 2>>  BY DEF m_bit
    <3>. QED  BY <3>1 DEF Used
  <2>4. Used("DUMMY", "high") = 0 .. 2
    <3>1. m_bit["DUMMY"]["high"] = <<7, 6, 5>>  BY DEF m_bit
    <3>. QED  BY <3>1 DEF Used
  <2>. QED  BY <1>1, <1>5, <2>1, <2>2, <2>3, <2>4 DEF m_arrayMask, Fields
<1>6. DOMAIN m_bit = {"DUMMY", "MPX2", "MXR2", "TPX1"}  BY DEF m_bit
<1>. QED  BY <1>2, <1>3, <1>4, <1>5, <1>6

\* Each bit in use has a bit of the byte to itself, and each bit of the byte
\* is that of a bit in use.
LEMMA Places ==
  /\ \A f \in Fields : bpcShift(f) \in 0 .. 7 /\ m_arrayMask(f) \subseteq 0 .. 3
  /\ \A f \in Fields : \A b \in m_arrayMask(f) : b + bpcShift(f) \in 0 .. 7
  /\ \A f, g \in Fields : \A b \in m_arrayMask(f), d \in m_arrayMask(g) :
       b + bpcShift(f) = d + bpcShift(g) => f = g /\ b = d
  /\ \A k \in 0 .. 7 : \E f \in Fields : \E b \in m_arrayMask(f) : k = b + bpcShift(f)
<1>1. CASE m_version = "TPX1"
  <2>1. /\ bpcShift("mask") = 7 /\ bpcShift("test") = 6 /\ bpcShift("low") = 0 /\ bpcShift("high") = 4
        /\ m_arrayMask("mask") = {0} /\ m_arrayMask("test") = {0}
        /\ m_arrayMask("low") = {0, 1, 2, 3} /\ m_arrayMask("high") = {0, 1}
    BY <1>1 DEF bpcShift, m_arrayMask
  <2>. QED  BY <2>1 DEF Fields
<1>2. CASE m_version # "TPX1"
  <2>1. /\ bpcShift("mask") = 7 /\ bpcShift("test") = 6 /\ bpcShift("low") = 0 /\ bpcShift("high") = 3
        /\ m_arrayMask("mask") = {0} /\ m_arrayMask("test") = {0}
        /\ m_arrayMask("low") = {0, 1, 2} /\ m_arrayMask("high") = {0, 1, 2}
    BY <1>2 DEF bpcShift, m_arrayMask
  <2>. QED  BY <2>1 DEF Fields
<1>. QED  BY <1>1, <1>2

\* The byte of a pixel, bit by bit.
LEMMA BitOfByte ==
  ASSUME NEW arrays \in Arrays, NEW p \in Pixels, NEW k
  PROVE  k \in BpcBytes(arrays)[p] <=>
           \E f \in Fields : \E b \in arrays[f][p] \cap m_arrayMask(f) : k = b + bpcShift(f)
<1>1. BpcBytes(arrays)[p] =
        UNION {ShiftLeft(arrays[f][p] \cap m_arrayMask(f), bpcShift(f)) : f \in Fields}
  BY DEF BpcBytes
<1>2. ASSUME NEW f \in Fields
      PROVE  k \in ShiftLeft(arrays[f][p] \cap m_arrayMask(f), bpcShift(f)) <=>
               \E b \in arrays[f][p] \cap m_arrayMask(f) : k = b + bpcShift(f)
  BY Places DEF ShiftLeft
<1>. QED  BY <1>1, <1>2

\* What is read of a byte for an array, bit by bit.
LEMMA BitOfArray ==
  ASSUME NEW data \in [Pixels -> Byte], NEW f \in Fields, NEW p \in Pixels, NEW b
  PROVE  b \in FromBpc(data, f)[p] <=> b \in m_arrayMask(f) /\ b + bpcShift(f) \in data[p]
<1>1. data[p] \subseteq 0 .. 7  BY DEF Byte
<1>2. bpcShift(f) \in 0 .. 7 /\ m_arrayMask(f) \subseteq 0 .. 3  BY Places
<1>3. FromBpc(data, f)[p] = ShiftRight(data[p], bpcShift(f)) \cap m_arrayMask(f)
  BY DEF FromBpc
<1> DEFINE s == bpcShift(f)
           bits == data[p]
<1>. HIDE DEF s, bits
<1>4. ASSUME NEW x \in 0 .. 3, s \in 0 .. 7, bits \subseteq 0 .. 7
      PROVE  x \in ShiftRight(bits, s) <=> x + s \in bits
  <2>1. ASSUME x + s \in bits PROVE x \in ShiftRight(bits, s)
    <3>1. x + s >= s /\ x = (x + s) - s  BY <1>4
    <3>. QED  BY <2>1, <3>1 DEF ShiftRight
  <2>2. ASSUME x \in ShiftRight(bits, s) PROVE x + s \in bits
    <3>1. PICK y \in bits : y >= s /\ x = y - s  BY <2>2 DEF ShiftRight
    <3>2. y \in 0 .. 7  BY <1>4
    <3>3. y = x + s  BY <3>1, <3>2, <1>4
    <3>. QED  BY <3>3
  <2>. QED  BY <2>1, <2>2
<1>5. s \in 0 .. 7 /\ bits \subseteq 0 .. 7  BY <1>1, <1>2 DEF s, bits
<1>6. \A x \in 0 .. 3 : x \in ShiftRight(data[p], bpcShift(f)) <=> x + bpcShift(f) \in data[p]
  BY <1>4, <1>5 DEF s, bits
<1>. QED  BY <1>2, <1>3, <1>6

\* Arrays read back of the bytes they were saved to: the bits in use.
LEMMA SavedThenRead ==
  ASSUME NEW arrays \in Arrays, NEW f \in Fields, NEW p \in Pixels
  PROVE  FromBpc(BpcBytes(arrays), f)[p] = arrays[f][p] \cap m_arrayMask(f)
<1>1. BpcBytes(arrays) \in [Pixels -> Byte]  BY BpcBytesOk
<1>2. ASSUME NEW b
      PROVE  b \in FromBpc(BpcBytes(arrays), f)[p] <=> b \in arrays[f][p] \cap m_arrayMask(f)
  <2>1. b \in FromBpc(BpcBytes(arrays), f)[p] <=>
          b \in m_arrayMask(f) /\ b + bpcShift(f) \in BpcBytes(arrays)[p]
    BY <1>1, BitOfArray
  <2>2. b + bpcShift(f) \in BpcBytes(arrays)[p] <=>
          \E g \in Fields : \E d \in arrays[g][p] \cap m_arrayMask(g) :
             b + bpcShift(f) = d + bpcShift(g)
    BY BitOfByte
  <2>. QED  BY <2>1, <2>2, Places
<1>. QED  BY <1>2

\* What a .bpc gives the arrays of a chip, and the bytes these are saved to.
LoadedBpc(data) == [f \in Fields |-> FromBpc(data, f)]

LEMMA ReadThenSaved ==
  ASSUME NEW data \in [Pixels -> Byte]
  PROVE  LoadedBpc(data) \in Arrays /\ BpcBytes(LoadedBpc(data)) = data
<1>1. LoadedBpc(data) \in Arrays
  <2>1. \A f \in Fields : FromBpc(data, f) \in [Pixels -> Byte]
    BY MaskIsByte DEF FromBpc, Byte
  <2>. QED  BY <2>1 DEF LoadedBpc, Arrays
<1>2. ASSUME NEW p \in Pixels PROVE BpcBytes(LoadedBpc(data))[p] = data[p]
  <2>1. data[p] \subseteq 0 .. 7  BY DEF Byte
  <2>2. ASSUME NEW k PROVE k \in BpcBytes(LoadedBpc(data))[p] <=> k \in data[p]
    <3>1. k \in BpcBytes(LoadedBpc(data))[p] <=>
            \E f \in Fields : \E b \in LoadedBpc(data)[f][p] \cap m_arrayMask(f) : k = b + bpcShift(f)
      BY <1>1, BitOfByte
    <3>2. \A f \in Fields : LoadedBpc(data)[f] = FromBpc(data, f)  BY DEF LoadedBpc
    <3>3. \A f \in Fields : \A b : b \in LoadedBpc(data)[f][p] <=>
             b \in m_arrayMask(f) /\ b + bpcShift(f) \in data[p]
      BY <3>2, BitOfArray
    <3>4. k \in data[p] => \E f \in Fields : \E b \in m_arrayMask(f) : k = b + bpcShift(f)
      BY <2>1, Places
    <3>. QED  BY <3>1, <3>3, <3>4
  <2>. QED  BY <2>2
<1>3. BpcBytes(LoadedBpc(data)) = [p \in Pixels |-> BpcBytes(LoadedBpc(data))[p]]
  BY DEF BpcBytes
<1>. QED  BY <1>1, <1>2, <1>3


\* Reset arrays with data added are the data.
LEMMA AddedToBlank ==
  ASSUME NEW f \in Fields, NEW data \in [Pixels -> Byte]
  PROVE  setArray(Blank, f, data)[f] = data
<1>1. setArray(Blank, f, data)[f] = [p \in Pixels |-> Blank[f][p] \cup data[p]]
  BY DEF setArray, Blank
<1>2. \A p \in Pixels : Blank[f][p] = {}  BY DEF Blank, ZeroArray
<1>3. data = [p \in Pixels |-> data[p]]  OBVIOUS
<1>. QED  BY <1>1, <1>2, <1>3

\* What a file gives a chip it is loaded for, and arrays that are of a file.
ContentOf(id) ==
  IF id[3] = "bpc" THEN LoadedBpc(files[id].images.bpc) ELSE files[id].images

OfFile(arrays, id) ==
  /\ id \in DOMAIN files /\ id[3] \in {"bpc", "edf"}
  /\ id[3] = "bpc" => files[id].size >= NPix
  /\ arrays = ContentOf(id)

\* Arrays loaded of a file are those of the file, whatever the chip had.
LEMMA LoadIs ==
  ASSUME ArraysOk, NEW arrays, NEW id, load(arrays, id).ok
  PROVE  OfFile(load(arrays, id).arrays, id)
<1>1. id \in DOMAIN files /\ files[id].size # 0
  BY Zenon DEF load, Refused
<1>2. FileOk(id, files[id]) /\ id[3] \in Exts  BY <1>1 DEF ArraysOk, FileIds
<1>3. CASE id[3] = "bpc"
  <2>1. load(arrays, id) = loadBpc(arrays, files[id])  BY <1>1, <1>3 DEF load
  <2>2. ~(files[id].size < NPix)  BY <2>1 DEF loadBpc, Refused
  <2>7. files[id].size >= NPix
    <3>1. files[id].size \in Nat /\ NPix \in Nat  BY <1>2, NPixIsNat DEF FileOk
    <3>. QED  BY <2>2, <3>1
  <2>3. files[id].images.bpc \in [Pixels -> Byte]  BY <1>2, <1>3, <2>7 DEF FileOk
  <2>4. load(arrays, id).arrays = [f \in Fields |-> setArray(Blank, f, FromBpc(files[id].images.bpc, f))[f]]
    BY <2>1, <2>2 DEF loadBpc, Taken
  <2>5. \A f \in Fields : FromBpc(files[id].images.bpc, f) \in [Pixels -> Byte]
    BY MaskIsByte DEF FromBpc, Byte
  <2>6. load(arrays, id).arrays = LoadedBpc(files[id].images.bpc)
    BY <2>4, <2>5, AddedToBlank DEF LoadedBpc
  <2>. QED  BY <1>1, <1>3, <2>7, <2>6 DEF OfFile, ContentOf
<1>4. CASE id[3] = "edf"
  <2>1. load(arrays, id) = loadEdf(arrays, files[id])  BY <1>1, <1>4 DEF load
  <2>2. files[id].ended = {} /\ load(arrays, id).arrays = ReadEdf(files[id])
    BY <2>1 DEF loadEdf, Refused, Taken
  <2>3. files[id].images \in Arrays  BY <1>2, <1>4 DEF FileOk
  <2>4. \A f \in Fields : setArray(Blank, f, files[id].images[f])[f] = files[id].images[f]
    BY <2>3, AddedToBlank DEF Arrays
  <2>5. load(arrays, id).arrays = files[id].images
    BY <2>2, <2>3, <2>4 DEF ReadEdf, Arrays
  <2>. QED  BY <1>1, <1>4, <2>5 DEF OfFile, ContentOf
<1>5. CASE id[3] = "mask"  BY <1>1, <1>5 DEF load, Refused
<1>. QED  BY <1>2, <1>3, <1>4, <1>5 DEF Exts

\* The invariant: a chip's arrays are still those of the file they were loaded
\* from, and a file that was saved is still what the save wrote.
ChipOfFile(c) == origin[c] # NoFile => OfFile(m_pixelArray[c], origin[c])

FromFile ==
  /\ ArraysOk
  /\ origin \in [Chips -> FileIds \cup {NoFile}]
  /\ \A c \in Chips : ChipOfFile(c)
  /\ DOMAIN written \subseteq DOMAIN files
  /\ \A id \in DOMAIN written :
       written[id] \in Arrays /\ files[id] = Saved(written[id], id[3])

LEMMA FromFileInit == Init => FromFile
<1> SUFFICES ASSUME Init PROVE FromFile  OBVIOUS
<1>1. ArraysOk  BY ArraysOkInit
<1>2. DOMAIN written = {} /\ origin = [c \in Chips |-> NoFile]  BY DEF Init
<1>. QED  BY <1>1, <1>2 DEF FromFile, ChipOfFile

\* What depends on the type of chip stays while it does.
LEMMA TypeStays ==
  ASSUME UNCHANGED m_version
  PROVE  /\ \A arrays, ext : Saved(arrays, ext)' = Saved(arrays, ext)
         /\ \A data : LoadedBpc(data)' = LoadedBpc(data)
BY DEF Saved, BpcBytes, LoadedBpc, FromBpc, m_arrayMask, bpcShift

\* A chip a file is loaded for, or tried to.
LEMMA AfterLoad ==
  ASSUME FromFile, NEW c \in Chips, NEW id, NEW r \in [ok : BOOLEAN, arrays : Arrays],
         r.ok => OfFile(r.arrays, id), UNCHANGED <<m_version, files>>,
         m_pixelArray'[c] = r.arrays, origin'[c] = OriginAfter(c, r, id)
  PROVE  origin'[c] \in FileIds \cup {NoFile} /\ ChipOfFile(c)'
<1>1. \A k : ContentOf(k)' = ContentOf(k)  BY TypeStays DEF ContentOf
<1>2. \A k, arrays : OfFile(arrays, k)' = OfFile(arrays, k)  BY <1>1 DEF OfFile
<1>3. ChipOfFile(c) /\ origin[c] \in FileIds \cup {NoFile}  BY DEF FromFile
<1>4. CASE r.ok
  <2>1. origin'[c] = id /\ OfFile(r.arrays, id)  BY <1>4 DEF OriginAfter
  <2>2. id \in FileIds  BY <2>1 DEF OfFile, FromFile, ArraysOk
  <2>. QED  BY <2>1, <2>2, <1>2 DEF ChipOfFile
<1>5. CASE ~r.ok /\ r.arrays = m_pixelArray[c]
  <2>1. origin'[c] = origin[c] /\ m_pixelArray'[c] = m_pixelArray[c]  BY <1>5 DEF OriginAfter
  <2>. QED  BY <2>1, <1>2, <1>3 DEF ChipOfFile
<1>6. CASE ~r.ok /\ r.arrays # m_pixelArray[c]
  <2>1. origin'[c] = NoFile  BY <1>6 DEF OriginAfter
  <2>. QED  BY <2>1 DEF ChipOfFile
<1>. QED  BY <1>4, <1>5, <1>6

\* A chip whose arrays, type and files stay.
LEMMA ChipStays ==
  ASSUME FromFile, NEW c \in Chips, UNCHANGED <<m_version, files>>,
         m_pixelArray'[c] = m_pixelArray[c], origin'[c] = origin[c]
  PROVE  origin'[c] \in FileIds \cup {NoFile} /\ ChipOfFile(c)'
<1>1. \A k : ContentOf(k)' = ContentOf(k)  BY TypeStays DEF ContentOf
<1>. QED  BY <1>1 DEF FromFile, ChipOfFile, OfFile

\* A chip whose arrays are of no file.
LEMMA ChipOfNone ==
  ASSUME NEW c \in Chips, origin'[c] = NoFile
  PROVE  origin'[c] \in FileIds \cup {NoFile} /\ ChipOfFile(c)'
BY DEF ChipOfFile

\* A step that writes no file leaves those saved as they are.
LEMMA FilesStay ==
  ASSUME FromFile, ArraysOk', UNCHANGED <<m_version, files, written>>,
         DOMAIN origin' = Chips, origin' = [c \in Chips |-> origin'[c]],
         \A c \in Chips : origin'[c] \in FileIds \cup {NoFile} /\ ChipOfFile(c)'
  PROVE  FromFile'
<1>1. \A id \in DOMAIN written : Saved(written[id], id[3])' = Saved(written[id], id[3])
  BY DEF Saved, BpcBytes, m_arrayMask, bpcShift
<1>2. \A id \in DOMAIN written' : files'[id] = Saved(written[id], id[3])' /\ written'[id] \in Arrays
  BY <1>1 DEF FromFile
<1>3. DOMAIN written' \subseteq DOMAIN files'  BY DEF FromFile
<1>4. origin' \in [Chips -> FileIds \cup {NoFile}]  OBVIOUS
<1>. QED  BY <1>2, <1>3, <1>4 DEF FromFile


\* A load answers whether it was done, and with arrays.
LEMMA LoadAnswers ==
  ASSUME ArraysOk, NEW arrays \in Arrays, NEW id
  PROVE  load(arrays, id) \in [ok : BOOLEAN, arrays : Arrays]
<1> DEFINE Answers(r) == \E a : r = Refused(a) \/ r = Taken(a)
<1>1. \A a : Answers(Refused(a)) /\ Answers(Taken(a))  OBVIOUS
<1>2. load(arrays, id).arrays \in Arrays  BY LoadOk
<1>. HIDE DEF Answers
<1>3. Answers(load(arrays, id))
  <2>1. CASE id \notin DOMAIN files \/ files[id].size = 0
    BY <1>1, <2>1 DEF load
  <2>2. CASE id \in DOMAIN files /\ files[id].size # 0
    <3>1. id[3] \in Exts  BY <2>2 DEF ArraysOk, FileIds
    <3>2. CASE id[3] = "bpc"
      <4>1. load(arrays, id) = loadBpc(arrays, files[id])  BY <2>2, <3>2 DEF load
      <4>. QED  BY <1>1, <4>1, Zenon DEF loadBpc
    <3>3. CASE id[3] = "edf"
      <4>1. load(arrays, id) = loadEdf(arrays, files[id])  BY <2>2, <3>3 DEF load
      <4>. QED  BY <1>1, <4>1, Zenon DEF loadEdf
    <3>4. CASE id[3] = "mask"  BY <1>1, <2>2, <3>4 DEF load
    <3>. QED  BY <3>1, <3>2, <3>3, <3>4 DEF Exts
  <2>. QED  BY <2>1, <2>2
<1>4. PICK a : load(arrays, id) = Refused(a) \/ load(arrays, id) = Taken(a)
  BY <1>3, Zenon DEF Answers
<1>5. a \in Arrays  BY <1>2, <1>4 DEF Refused, Taken
<1>6. Refused(a) \in [ok : BOOLEAN, arrays : Arrays] /\ Taken(a) \in [ok : BOOLEAN, arrays : Arrays]
  BY <1>5 DEF Refused, Taken
<1>. QED  BY <1>4, <1>6

\* A step on one chip.
LEMMA OneChipKeeps ==
  ASSUME FromFile, ArraysOk', NEW c \in Chips, NEW id,
         NEW r \in [ok : BOOLEAN, arrays : Arrays], r.ok => OfFile(r.arrays, id),
         SetChip(c, r.arrays, OriginAfter(c, r, id))
  PROVE  FromFile'
<1>1. /\ UNCHANGED <<m_version, files, written>>
      /\ m_pixelArray'[c] = r.arrays /\ origin'[c] = OriginAfter(c, r, id)
  BY DEF SetChip, FromFile, ArraysOk
<1>2. origin'[c] \in FileIds \cup {NoFile} /\ ChipOfFile(c)'  BY <1>1, AfterLoad
<1>3. ASSUME NEW k \in Chips, k # c
      PROVE  origin'[k] \in FileIds \cup {NoFile} /\ ChipOfFile(k)'
  <2>1. m_pixelArray'[k] = m_pixelArray[k] /\ origin'[k] = origin[k]
    BY <1>3 DEF SetChip, FromFile, ArraysOk
  <2>. QED  BY <2>1, <1>1, ChipStays
<1>4. \A k \in Chips : origin'[k] \in FileIds \cup {NoFile} /\ ChipOfFile(k)'
  BY <1>2, <1>3
<1>5. DOMAIN origin' = Chips /\ origin' = [k \in Chips |-> origin'[k]]
  BY DEF SetChip, FromFile
<1>. QED  BY <1>1, <1>4, <1>5, FilesStay

\* A file that is saved is no chip's any more but those it is loaded for next.
LEMMA SaveKeeps ==
  ASSUME FromFile, ArraysOk', NEW c \in Chips, NEW id \in FileIds, Save(c, id)
  PROVE  FromFile'
<1>1. UNCHANGED <<m_version, m_pixelArray>>  BY DEF Save
<1>2. ASSUME NEW k \in Chips PROVE origin'[k] \in FileIds \cup {NoFile} /\ ChipOfFile(k)'
  <2>1. origin'[k] = IF origin[k] = id THEN NoFile ELSE origin[k]  BY DEF Save
  <2>2. CASE origin[k] = id \/ origin[k] = NoFile
    BY <2>1, <2>2, ChipOfNone
  <2>3. CASE origin[k] # id /\ origin[k] # NoFile
    <3>1. origin'[k] = origin[k] /\ OfFile(m_pixelArray[k], origin[k])
      BY <2>1, <2>3 DEF FromFile, ChipOfFile
    <3>2. origin[k] \in DOMAIN files' /\ files'[origin[k]] = files[origin[k]]
      BY <3>1, <2>3 DEF OfFile, Save
    <3>3. ContentOf(origin[k])' = ContentOf(origin[k])
      BY <3>1, <3>2, <1>1, TypeStays DEF ContentOf
    <3>4. OfFile(m_pixelArray[k], origin[k])'
      BY <3>1, <3>2, <3>3, <1>1 DEF OfFile
    <3>. QED  BY <3>1, <3>4 DEF ChipOfFile, FromFile
  <2>. QED  BY <2>2, <2>3
<1>3. origin' \in [Chips -> FileIds \cup {NoFile}]
  <2>1. DOMAIN origin' = Chips /\ origin' = [k \in Chips |-> origin'[k]]  BY DEF Save
  <2>. QED  BY <2>1, <1>2
<1>4. DOMAIN written' \subseteq DOMAIN files'  BY DEF Save, FromFile
<1>5. ASSUME NEW i \in DOMAIN written'
      PROVE  written'[i] \in Arrays /\ files'[i] = Saved(written[i], i[3])'
  <2>1. \A arrays : Saved(arrays, i[3])' = Saved(arrays, i[3])
    BY <1>1 DEF Saved, BpcBytes, m_arrayMask, bpcShift
  <2>2. Saved(written[i], i[3])' = Saved(written'[i], i[3])
    BY <1>1 DEF Saved, BpcBytes, m_arrayMask, bpcShift
  <2>3. CASE i = id
    BY <2>2, <2>3 DEF Save, FromFile, ArraysOk
  <2>4. CASE i # id
    <3>1. i \in DOMAIN written /\ written'[i] = written[i]  BY <2>4, <1>5 DEF Save
    <3>2. files'[i] = files[i]  BY <2>4, <3>1 DEF Save, FromFile
    <3>. QED  BY <2>2, <3>1, <3>2 DEF FromFile
  <2>. QED  BY <2>3, <2>4
<1>. QED  BY <1>2, <1>3, <1>4, <1>5 DEF FromFile

\* A step that writes an array of every chip: they are of no file.
LEMMA SetAllIsOfNone ==
  ASSUME FromFile, ArraysOk', NEW f, NEW value, SetAll(f, value)
  PROVE  FromFile'
<1>1. \A c \in Chips : origin'[c] = NoFile  BY DEF SetAll
<1>2. \A c \in Chips : origin'[c] \in FileIds \cup {NoFile} /\ ChipOfFile(c)'
  BY <1>1, ChipOfNone
<1>3. DOMAIN origin' = Chips /\ origin' = [c \in Chips |-> origin'[c]]  BY DEF SetAll
<1>. QED  BY <1>2, <1>3, FilesStay DEF SetAll

\* The invariant is inductive: one case per action.
LEMMA FromFileStep == FromFile /\ [Next]_vars => FromFile'
<1> SUFFICES ASSUME FromFile, [Next]_vars PROVE FromFile'
  OBVIOUS
<1>1. ArraysOk /\ ArraysOk'  BY ArraysOkStep DEF FromFile
<1>2. \A c \in Chips : m_pixelArray[c] \in Arrays  BY <1>1 DEF ArraysOk
<1>3. ASSUME NEW c \in Single, NEW id \in Names \X Chips \X SaveExts, Save(c, id) PROVE FromFile'
  <2>1. c \in Chips /\ id \in FileIds  BY FilesAssumption DEF FileIds
  <2>. QED  BY <1>1, <1>3, <2>1, SaveKeeps
<1>4. ASSUME NEW c \in Single, NEW id \in FileIds, LoadFile(c, id) PROVE FromFile'
  <2> DEFINE r == load(m_pixelArray[c], id)
  <2>1. c \in Chips /\ m_pixelArray[c] \in Arrays  BY <1>2, FilesAssumption
  <2>2. r \in [ok : BOOLEAN, arrays : Arrays]  BY <1>1, <2>1, LoadAnswers
  <2>3. r.ok => OfFile(r.arrays, id)  BY <1>1, LoadIs
  <2>4. SetChip(c, r.arrays, OriginAfter(c, r, id))  BY <1>4 DEF LoadFile
  <2>. HIDE DEF r
  <2>. QED  BY <1>1, <2>1, <2>2, <2>3, <2>4, OneChipKeeps
<1>5. ASSUME NEW c \in Single, NEW id \in FileIds, LoadMask(c, id) PROVE FromFile'
  <2> DEFINE l == loadMask(m_pixelArray[c], files[id])
             r == [l EXCEPT !.ok = FALSE]
  <2>1. c \in Chips /\ m_pixelArray[c] \in Arrays  BY <1>2, FilesAssumption
  <2>2. files[id].images.mask \in [Pixels -> Byte]  BY <1>1, <1>5 DEF LoadMask, ArraysOk, FileOk
  <2>3. l.arrays \in Arrays  BY <2>1, <2>2, LoadMaskOk
  <2>4. \E a : l = Refused(a) \/ l = Taken(a)  BY Zenon DEF loadMask
  <2>5. SetChip(c, l.arrays, OriginAfter(c, r, id))  BY <1>5 DEF LoadMask
  <2>. HIDE DEF l
  <2>6. PICK a : l = [ok |-> FALSE, arrays |-> a] \/ l = [ok |-> TRUE, arrays |-> a]
    BY <2>4 DEF Refused, Taken
  <2>7. r \in [ok : BOOLEAN, arrays : Arrays] /\ ~r.ok /\ r.arrays = l.arrays  BY <2>3, <2>6
  <2>8. SetChip(c, r.arrays, OriginAfter(c, r, id))  BY <2>5, <2>7
  <2>. HIDE DEF r
  <2>. QED  BY <1>1, <2>1, <2>7, <2>8, OneChipKeeps
<1>6. ASSUME NEW c \in Single, ResetArrays(c) PROVE FromFile'
  <2>1. c \in Chips  BY FilesAssumption
  <2>2. UNCHANGED <<m_version, files, written>> /\ origin'[c] = NoFile
    BY <2>1, <1>6 DEF ResetArrays, SetChip, FromFile
  <2>3. ASSUME NEW k \in Chips, k # c
        PROVE  origin'[k] \in FileIds \cup {NoFile} /\ ChipOfFile(k)'
    <3>1. m_pixelArray'[k] = m_pixelArray[k] /\ origin'[k] = origin[k]
      BY <2>3, <1>6 DEF ResetArrays, SetChip, FromFile, ArraysOk
    <3>. QED  BY <2>2, <3>1, ChipStays
  <2>4. \A k \in Chips : origin'[k] \in FileIds \cup {NoFile} /\ ChipOfFile(k)'
    BY <2>1, <2>2, <2>3, ChipOfNone
  <2>5. DOMAIN origin' = Chips /\ origin' = [k \in Chips |-> origin'[k]]
    BY <1>6 DEF ResetArrays, SetChip, FromFile
  <2>. QED  BY <1>1, <2>2, <2>4, <2>5, FilesStay
<1>7. ASSUME NEW mode \in Modes, SetTimePixMode(mode) PROVE FromFile'
  BY <1>1, <1>7, SetAllIsOfNone DEF SetTimePixMode
<1>8. ASSUME SetLow2Max \/ SetLow2Min \/ SetHigh2Max \/ SetHigh2Min PROVE FromFile'
  BY <1>1, <1>8, SetAllIsOfNone DEF SetLow2Max, SetLow2Min, SetHigh2Max, SetHigh2Min
<1>9. ASSUME NEW name \in Names, LoadConfig(name) PROVE FromFile'
  <2> DEFINE id(c) == getConfigFile(name, c)
             r == [c \in Chips |-> load(m_pixelArray[c], id(c))]
             reached(c) == \A k \in 1 .. c - 1 : r[k].ok
  <2>1. UNCHANGED <<m_version, files, written>>  BY <1>9 DEF LoadConfig
  <2>2. /\ m_pixelArray' = [c \in Chips |-> IF reached(c) THEN r[c].arrays ELSE m_pixelArray[c]]
        /\ origin' = [c \in Chips |-> IF reached(c) THEN OriginAfter(c, r[c], id(c)) ELSE origin[c]]
    BY <1>9, Zenon DEF LoadConfig
  <2>3. \A c \in Chips : r[c] \in [ok : BOOLEAN, arrays : Arrays]
    BY <1>1, <1>2, LoadAnswers
  <2>4. \A c \in Chips : r[c].ok => OfFile(r[c].arrays, id(c))
    BY <1>1, LoadIs
  <2>. HIDE DEF r, reached, id
  <2>5. ASSUME NEW c \in Chips PROVE origin'[c] \in FileIds \cup {NoFile} /\ ChipOfFile(c)'
    <3>1. CASE reached(c)
      <4>1. m_pixelArray'[c] = r[c].arrays /\ origin'[c] = OriginAfter(c, r[c], id(c))
        BY <2>2, <3>1
      <4>. QED  BY <2>1, <2>3, <2>4, <4>1, AfterLoad
    <3>2. CASE ~reached(c)
      <4>1. m_pixelArray'[c] = m_pixelArray[c] /\ origin'[c] = origin[c]
        BY <2>2, <3>2
      <4>. QED  BY <2>1, <4>1, ChipStays
    <3>. QED  BY <3>1, <3>2
  <2>6. DOMAIN origin' = Chips /\ origin' = [c \in Chips |-> origin'[c]]
    BY <2>2
  <2>. QED  BY <1>1, <2>1, <2>5, <2>6, FilesStay
<1>10. ASSUME UNCHANGED vars PROVE FromFile'
  <2>1. UNCHANGED <<m_version, m_pixelArray, files, written, origin>>  BY <1>10 DEF vars
  <2>2. \A c \in Chips : origin'[c] \in FileIds \cup {NoFile} /\ ChipOfFile(c)'
    BY <2>1, ChipStays
  <2>3. DOMAIN origin' = Chips /\ origin' = [c \in Chips |-> origin'[c]]
    BY <2>1 DEF FromFile
  <2>. QED  BY <1>1, <2>1, <2>2, <2>3, FilesStay
<1>. QED  BY <1>3, <1>4, <1>5, <1>6, <1>7, <1>8, <1>9, <1>10 DEF Next

\* A file is under a name and a chip, and no file is none of them.
LEMMA NoFileIsNone == NoFile \notin FileIds
BY DEF NoFile, FileIds

\* What the invariant is for.
LEMMA FromFileKeeps == FromFile => FilesKeepArrays
<1> SUFFICES ASSUME FromFile, NEW c \in Chips
             PROVE  /\ origin[c] \in DOMAIN written =>
                         Kept(m_version, m_pixelArray[c]) = Kept(m_version, written[origin[c]])
                    /\ origin[c] # NoFile /\ origin[c][3] = "bpc" =>
                         BpcBytes(m_pixelArray[c]) = files[origin[c]].images.bpc
  BY DEF FilesKeepArrays
<1> DEFINE id == origin[c]
<1>1. m_version \in DOMAIN m_bit /\ DOMAIN files \subseteq FileIds  BY FilesAssumption DEF FromFile, ArraysOk
<1>2. id # NoFile => OfFile(m_pixelArray[c], id)  BY DEF FromFile, ChipOfFile
<1>3. ASSUME id \in DOMAIN written
      PROVE  Kept(m_version, m_pixelArray[c]) = Kept(m_version, written[id])
  <2>1. written[id] \in Arrays /\ files[id] = Saved(written[id], id[3]) /\ id \in DOMAIN files
    BY <1>3 DEF FromFile
  <2>2. id # NoFile  BY <1>1, <2>1, NoFileIsNone
  <2>3. OfFile(m_pixelArray[c], id)  BY <1>2, <2>2
  <2> DEFINE w == written[id]
  <2>. HIDE DEF w
  <2>4. CASE id[3] = "edf"
    <3>1. m_pixelArray[c] = written[id]  BY <2>1, <2>3, <2>4 DEF OfFile, ContentOf, Saved
    <3>. QED  BY <3>1
  <2>5. CASE id[3] = "bpc"
    <3>1. m_pixelArray[c] = LoadedBpc(BpcBytes(w))  BY <2>1, <2>3, <2>5 DEF OfFile, ContentOf, Saved, w
    <3>2. ASSUME NEW f \in Fields, NEW p \in Pixels
          PROVE  m_pixelArray[c][f][p] \cap Used(m_version, f) = w[f][p] \cap Used(m_version, f)
      <4>1. m_pixelArray[c][f] = FromBpc(BpcBytes(w), f)  BY <3>1 DEF LoadedBpc
      <4>2. w \in Arrays  BY <2>1 DEF w
      <4>3. FromBpc(BpcBytes(w), f)[p] = w[f][p] \cap m_arrayMask(f)  BY <4>2, SavedThenRead
      <4>4. Used(m_version, f) = m_arrayMask(f)  BY <1>1, UsedIsMask
      <4>. QED  BY <4>1, <4>3, <4>4
    <3>. QED  BY <3>2 DEF Kept, w
  <2>. QED  BY <2>3, <2>4, <2>5 DEF OfFile
<1>4. ASSUME id # NoFile, id[3] = "bpc"
      PROVE  BpcBytes(m_pixelArray[c]) = files[id].images.bpc
  <2>1. id \in DOMAIN files /\ files[id].size >= NPix /\ m_pixelArray[c] = LoadedBpc(files[id].images.bpc)
    BY <1>2, <1>4 DEF OfFile, ContentOf
  <2>2. files[id].images.bpc \in [Pixels -> Byte]  BY <2>1, <1>4 DEF FromFile, ArraysOk, FileOk
  <2>. QED  BY <2>1, <2>2, ReadThenSaved
<1>. QED  BY <1>3, <1>4

\* Arrays loaded of a file that was saved are those it was saved from, to the
\* bits the type of chip has, on whichever chip, whatever it had before and
\* whatever loads failed; and the arrays of a .bpc would be saved to the bytes
\* they were read from (loadBpc, loadEdf, saveBpc, loadConfig).
THEOREM FilesKeep == Spec => []FilesKeepArrays
BY FromFileInit, FromFileStep, FromFileKeeps, PTL DEF Spec

-----------------------------------------------------------------------------
\* A behaviour of the chips is one of their matrices, with steps of the dacs
\* that leave the matrices alone: what is proved of Spec holds of ChipsSpec.
THEOREM ChipsAreMatrices == ChipsSpec => Spec
<1>1. ChipsInit => Init  BY DEF ChipsInit
<1>2. [ChipsNext]_chipsVars => [Next]_vars  BY DEF ChipsNext, chipsVars
<1> QED  BY <1>1, <1>2, PTL DEF ChipsSpec, Spec

-----------------------------------------------------------------------------
(***************************************************************************)
(* The registers of the chips: each value has bits of its own.             *)
(***************************************************************************)
\* Bits in growing order, from lo to hi.
Spans(bits, lo, hi) ==
  /\ bits \in Seq(Nat) /\ Len(bits) <= hi - lo + 1
  /\ \A i \in DOMAIN bits : lo <= bits[i] /\ bits[i] <= hi
  /\ \A i, j \in DOMAIN bits : i < j => bits[i] < bits[j]

LEMMA OneField ==
  ASSUME NEW lsb \in Nat, NEW msb \in Nat, lsb <= msb
  PROVE  Spans(Field(lsb, msb), lsb, msb)
<1>1. msb - lsb + 1 \in Nat  OBVIOUS
<1>2. Field(lsb, msb) \in [1 .. msb - lsb + 1 -> Nat]  BY DEF Field
<1>3. Field(lsb, msb) \in Seq(Nat)  BY <1>1, <1>2, SeqDef
<1>4. \A i \in DOMAIN Field(lsb, msb) : i \in 1 .. msb - lsb + 1 /\ Field(lsb, msb)[i] = lsb + i - 1
  BY DEF Field
<1>5. Len(Field(lsb, msb)) = msb - lsb + 1
  <2>1. DOMAIN Field(lsb, msb) = 1 .. msb - lsb + 1  BY DEF Field
  <2>2. DOMAIN Field(lsb, msb) = 1 .. Len(Field(lsb, msb)) /\ Len(Field(lsb, msb)) \in Nat
    BY <1>3
  <2> QED  BY <1>1, <2>1, <2>2
<1> HIDE DEF Field
<1>6. Len(Field(lsb, msb)) <= msb - lsb + 1  BY <1>1, <1>5
<1>7. \A i \in DOMAIN Field(lsb, msb) : lsb <= Field(lsb, msb)[i] /\ Field(lsb, msb)[i] <= msb
  BY <1>4
<1>8. \A i, j \in DOMAIN Field(lsb, msb) : i < j => Field(lsb, msb)[i] < Field(lsb, msb)[j]
  BY <1>4
<1> QED  BY <1>3, <1>6, <1>7, <1>8 DEF Spans

LEMMA Within32 ==
  ASSUME NEW s \in Seq(Nat), Len(s) <= 32
  PROVE  DOMAIN s \subseteq 1 .. 32
<1> DEFINE n == Len(s)
<1>1. DOMAIN s = 1 .. n /\ n \in Nat /\ n <= 32  OBVIOUS
<1> HIDE DEF n
<1> QED  BY <1>1

\* One field after another.
LEMMA NextField ==
  ASSUME NEW s, NEW t, NEW a \in Nat, NEW b \in Nat, NEW c \in Nat, NEW d \in Nat,
         Spans(s, a, b), Spans(t, c, d), a <= b, b < c, c <= d
  PROVE  Spans(s \o t, a, d)
<1>1. s \in Seq(Nat) /\ t \in Seq(Nat)  BY DEF Spans
<1>2. s \o t \in Seq(Nat) /\ Len(s \o t) = Len(s) + Len(t)  BY <1>1
<1>3. Len(s) \in Nat /\ Len(t) \in Nat  BY <1>1
<1>4. DOMAIN s = 1 .. Len(s) /\ DOMAIN t = 1 .. Len(t) /\ DOMAIN (s \o t) = 1 .. Len(s) + Len(t)
  BY <1>1, <1>2, <1>3
<1>5. \A i \in DOMAIN (s \o t) :
         \/ i \in DOMAIN s /\ (s \o t)[i] = s[i]
         \/ i > Len(s) /\ i - Len(s) \in DOMAIN t /\ (s \o t)[i] = t[i - Len(s)]
  BY <1>1, <1>3, <1>4
<1>6. \A i \in DOMAIN s : s[i] \in Nat /\ a <= s[i] /\ s[i] <= b  BY <1>1 DEF Spans
<1>7. \A i \in DOMAIN t : t[i] \in Nat /\ c <= t[i] /\ t[i] <= d  BY <1>1 DEF Spans
<1>8. \A i \in DOMAIN (s \o t) : a <= (s \o t)[i] /\ (s \o t)[i] <= d
  BY <1>5, <1>6, <1>7
<1>9. ASSUME NEW i \in DOMAIN (s \o t), NEW j \in DOMAIN (s \o t), i < j
      PROVE  (s \o t)[i] < (s \o t)[j]
  <2>1. CASE i \in DOMAIN s /\ j \in DOMAIN s /\ (s \o t)[i] = s[i] /\ (s \o t)[j] = s[j]
    BY <1>9, <2>1 DEF Spans
  <2>2. CASE i \in DOMAIN s /\ (s \o t)[i] = s[i]
             /\ j - Len(s) \in DOMAIN t /\ (s \o t)[j] = t[j - Len(s)]
    BY <1>6, <1>7, <2>2
  <2>3. CASE /\ i - Len(s) \in DOMAIN t /\ (s \o t)[i] = t[i - Len(s)]
             /\ j - Len(s) \in DOMAIN t /\ (s \o t)[j] = t[j - Len(s)]
    <3>1. i - Len(s) < j - Len(s)  BY <1>3, <1>4, <1>9
    <3> QED  BY <2>3, <3>1 DEF Spans
  <2> QED  BY <1>3, <1>4, <1>5, <1>9, <2>1, <2>2, <2>3
<1>10. Len(s \o t) <= d - a + 1  BY <1>2, <1>3 DEF Spans
<1> QED  BY <1>2, <1>8, <1>9, <1>10 DEF Spans

LEMMA TwoFields ==
  ASSUME NEW a \in Nat, NEW b \in Nat, NEW c \in Nat, NEW d \in Nat, a <= b, b < c, c <= d
  PROVE  Spans(Field(a, b) \o Field(c, d), a, d)
<1>1. Spans(Field(a, b), a, b) /\ Spans(Field(c, d), c, d)  BY OneField
<1> QED  BY <1>1, NextField, Zenon

\* Where the bits of each value are: those of two values never overlap.
OwnBits(v) ==
  /\ \A k \in DOMAIN Tables[v].fsrKeys : DOMAIN Bits(v, k) \subseteq 1 .. 32
  /\ \A k \in DOMAIN Tables[v].fsrKeys, l \in DOMAIN Tables[v].fsrKeys :
       \A i \in DOMAIN Bits(v, k), j \in DOMAIN Bits(v, l) :
         /\ Bits(v, k)[i] \in 0 .. 255
         /\ Bits(v, k)[i] = Bits(v, l)[j] => k = l /\ i = j

LEMMA OwnBitsTPX1 == OwnBits("TPX1")
<1>1. DOMAIN Tables["TPX1"].fsrKeys = {"ikrum", "disc", "preamp", "daccode", "sensedac", "dacsel", "buffanaloga", "buffanalogb", "hist", "thl", "vcas", "fbk", "gnd", "ctpr", "ths", "biaslvds", "reflvds"}
  BY DEF Tables, initTPX1
<1>2. Spans(Bits("TPX1", "ikrum"), 4, 11)
  <2>1. Bits("TPX1", "ikrum") = Field(4, 11)  BY DEF Bits, Tables, initTPX1
  <2> QED  BY <2>1, OneField
<1>3. Spans(Bits("TPX1", "disc"), 12, 19)
  <2>1. Bits("TPX1", "disc") = Field(12, 19)  BY DEF Bits, Tables, initTPX1
  <2> QED  BY <2>1, OneField
<1>4. Spans(Bits("TPX1", "preamp"), 20, 27)
  <2>1. Bits("TPX1", "preamp") = Field(20, 27)  BY DEF Bits, Tables, initTPX1
  <2> QED  BY <2>1, OneField
<1>5. Spans(Bits("TPX1", "daccode"), 38, 42)
  <2>1. Bits("TPX1", "daccode") = Field(38, 39) \o Field(41, 42)  BY DEF Bits, Tables, initTPX1
  <2>2. Spans(Field(38, 39) \o Field(41, 42), 38, 42)  BY TwoFields
  <2> QED  BY <2>1, <2>2
<1>6. Spans(Bits("TPX1", "sensedac"), 43, 43)
  <2>1. Bits("TPX1", "sensedac") = Field(43, 43)  BY DEF Bits, Tables, initTPX1
  <2> QED  BY <2>1, OneField
<1>7. Spans(Bits("TPX1", "dacsel"), 44, 44)
  <2>1. Bits("TPX1", "dacsel") = Field(44, 44)  BY DEF Bits, Tables, initTPX1
  <2> QED  BY <2>1, OneField
<1>8. Spans(Bits("TPX1", "buffanaloga"), 46, 59)
  <2>1. Bits("TPX1", "buffanaloga") = Field(46, 49) \o Field(56, 59)  BY DEF Bits, Tables, initTPX1
  <2>2. Spans(Field(46, 49) \o Field(56, 59), 46, 59)  BY TwoFields
  <2> QED  BY <2>1, <2>2
<1>9. Spans(Bits("TPX1", "buffanalogb"), 60, 67)
  <2>1. Bits("TPX1", "buffanalogb") = Field(60, 67)  BY DEF Bits, Tables, initTPX1
  <2> QED  BY <2>1, OneField
<1>10. Spans(Bits("TPX1", "hist"), 86, 93)
  <2>1. Bits("TPX1", "hist") = Field(86, 93)  BY DEF Bits, Tables, initTPX1
  <2> QED  BY <2>1, OneField
<1>11. Spans(Bits("TPX1", "thl"), 100, 113)
  <2>1. Bits("TPX1", "thl") = Field(100, 113)  BY DEF Bits, Tables, initTPX1
  <2> QED  BY <2>1, OneField
<1>12. Spans(Bits("TPX1", "vcas"), 120, 127)
  <2>1. Bits("TPX1", "vcas") = Field(120, 127)  BY DEF Bits, Tables, initTPX1
  <2> QED  BY <2>1, OneField
<1>13. Spans(Bits("TPX1", "fbk"), 128, 135)
  <2>1. Bits("TPX1", "fbk") = Field(128, 135)  BY DEF Bits, Tables, initTPX1
  <2> QED  BY <2>1, OneField
<1>14. Spans(Bits("TPX1", "gnd"), 136, 143)
  <2>1. Bits("TPX1", "gnd") = Field(136, 143)  BY DEF Bits, Tables, initTPX1
  <2> QED  BY <2>1, OneField
<1>15. Spans(Bits("TPX1", "ctpr"), 144, 175)
  <2>1. Bits("TPX1", "ctpr") = Field(144, 175)  BY DEF Bits, Tables, initTPX1
  <2> QED  BY <2>1, OneField
<1>16. Spans(Bits("TPX1", "ths"), 181, 188)
  <2>1. Bits("TPX1", "ths") = Field(181, 188)  BY DEF Bits, Tables, initTPX1
  <2> QED  BY <2>1, OneField
<1>17. Spans(Bits("TPX1", "biaslvds"), 227, 234)
  <2>1. Bits("TPX1", "biaslvds") = Field(227, 234)  BY DEF Bits, Tables, initTPX1
  <2> QED  BY <2>1, OneField
<1>18. Spans(Bits("TPX1", "reflvds"), 235, 242)
  <2>1. Bits("TPX1", "reflvds") = Field(235, 242)  BY DEF Bits, Tables, initTPX1
  <2> QED  BY <2>1, OneField
<1>19. ASSUME NEW k \in DOMAIN Tables["TPX1"].fsrKeys, NEW i \in DOMAIN Bits("TPX1", k)
      PROVE  /\ Bits("TPX1", k)[i] \in Nat
             /\ k = "ikrum" => 4 <= Bits("TPX1", k)[i] /\ Bits("TPX1", k)[i] <= 11
             /\ k = "disc" => 12 <= Bits("TPX1", k)[i] /\ Bits("TPX1", k)[i] <= 19
             /\ k = "preamp" => 20 <= Bits("TPX1", k)[i] /\ Bits("TPX1", k)[i] <= 27
             /\ k = "daccode" => 38 <= Bits("TPX1", k)[i] /\ Bits("TPX1", k)[i] <= 42
             /\ k = "sensedac" => 43 <= Bits("TPX1", k)[i] /\ Bits("TPX1", k)[i] <= 43
             /\ k = "dacsel" => 44 <= Bits("TPX1", k)[i] /\ Bits("TPX1", k)[i] <= 44
             /\ k = "buffanaloga" => 46 <= Bits("TPX1", k)[i] /\ Bits("TPX1", k)[i] <= 59
             /\ k = "buffanalogb" => 60 <= Bits("TPX1", k)[i] /\ Bits("TPX1", k)[i] <= 67
             /\ k = "hist" => 86 <= Bits("TPX1", k)[i] /\ Bits("TPX1", k)[i] <= 93
             /\ k = "thl" => 100 <= Bits("TPX1", k)[i] /\ Bits("TPX1", k)[i] <= 113
             /\ k = "vcas" => 120 <= Bits("TPX1", k)[i] /\ Bits("TPX1", k)[i] <= 127
             /\ k = "fbk" => 128 <= Bits("TPX1", k)[i] /\ Bits("TPX1", k)[i] <= 135
             /\ k = "gnd" => 136 <= Bits("TPX1", k)[i] /\ Bits("TPX1", k)[i] <= 143
             /\ k = "ctpr" => 144 <= Bits("TPX1", k)[i] /\ Bits("TPX1", k)[i] <= 175
             /\ k = "ths" => 181 <= Bits("TPX1", k)[i] /\ Bits("TPX1", k)[i] <= 188
             /\ k = "biaslvds" => 227 <= Bits("TPX1", k)[i] /\ Bits("TPX1", k)[i] <= 234
             /\ k = "reflvds" => 235 <= Bits("TPX1", k)[i] /\ Bits("TPX1", k)[i] <= 242
  <2>1. /\ k = "ikrum" => Spans(Bits("TPX1", k), 4, 11)
        /\ k = "disc" => Spans(Bits("TPX1", k), 12, 19)
        /\ k = "preamp" => Spans(Bits("TPX1", k), 20, 27)
        /\ k = "daccode" => Spans(Bits("TPX1", k), 38, 42)
        /\ k = "sensedac" => Spans(Bits("TPX1", k), 43, 43)
        /\ k = "dacsel" => Spans(Bits("TPX1", k), 44, 44)
        /\ k = "buffanaloga" => Spans(Bits("TPX1", k), 46, 59)
        /\ k = "buffanalogb" => Spans(Bits("TPX1", k), 60, 67)
        /\ k = "hist" => Spans(Bits("TPX1", k), 86, 93)
        /\ k = "thl" => Spans(Bits("TPX1", k), 100, 113)
        /\ k = "vcas" => Spans(Bits("TPX1", k), 120, 127)
        /\ k = "fbk" => Spans(Bits("TPX1", k), 128, 135)
        /\ k = "gnd" => Spans(Bits("TPX1", k), 136, 143)
        /\ k = "ctpr" => Spans(Bits("TPX1", k), 144, 175)
        /\ k = "ths" => Spans(Bits("TPX1", k), 181, 188)
        /\ k = "biaslvds" => Spans(Bits("TPX1", k), 227, 234)
        /\ k = "reflvds" => Spans(Bits("TPX1", k), 235, 242)
    BY <1>2, <1>3, <1>4, <1>5, <1>6, <1>7, <1>8, <1>9, <1>10, <1>11, <1>12, <1>13, <1>14, <1>15, <1>16, <1>17, <1>18
  <2>2. ASSUME NEW lo, NEW hi, Spans(Bits("TPX1", k), lo, hi)
        PROVE  Bits("TPX1", k)[i] \in Nat /\ lo <= Bits("TPX1", k)[i] /\ Bits("TPX1", k)[i] <= hi
    BY <2>2 DEF Spans
  <2> QED  BY <1>1, <2>1, <2>2
<1>20. \A k \in DOMAIN Tables["TPX1"].fsrKeys :
        \E lo, hi : Spans(Bits("TPX1", k), lo, hi) /\ lo \in Nat /\ hi \in Nat /\ hi - lo < 32
  BY <1>1, <1>2, <1>3, <1>4, <1>5, <1>6, <1>7, <1>8, <1>9, <1>10, <1>11, <1>12, <1>13, <1>14, <1>15, <1>16, <1>17, <1>18
<1>21. \A k \in DOMAIN Tables["TPX1"].fsrKeys : \A i, j \in DOMAIN Bits("TPX1", k) :
        i < j => Bits("TPX1", k)[i] < Bits("TPX1", k)[j]
  BY <1>20 DEF Spans
<1>22. ASSUME NEW k \in DOMAIN Tables["TPX1"].fsrKeys, NEW l \in DOMAIN Tables["TPX1"].fsrKeys,
             NEW i \in DOMAIN Bits("TPX1", k), NEW j \in DOMAIN Bits("TPX1", l),
             Bits("TPX1", k)[i] = Bits("TPX1", l)[j]
      PROVE  k = l
  BY <1>1, <1>19, <1>22
<1>23. \A k \in DOMAIN Tables["TPX1"].fsrKeys : DOMAIN Bits("TPX1", k) \subseteq 1 .. 32
  <2> SUFFICES ASSUME NEW k \in DOMAIN Tables["TPX1"].fsrKeys PROVE DOMAIN Bits("TPX1", k) \subseteq 1 .. 32
    OBVIOUS
  <2>1. Bits("TPX1", k) \in Seq(Nat) /\ Len(Bits("TPX1", k)) <= 32  BY <1>20 DEF Spans
  <2> QED  BY <2>1, Within32
<1>24. \A k \in DOMAIN Tables["TPX1"].fsrKeys : \A i \in DOMAIN Bits("TPX1", k) : Bits("TPX1", k)[i] \in 0 .. 255
  BY <1>1, <1>19
<1> QED  BY <1>19, <1>21, <1>22, <1>23, <1>24 DEF OwnBits

LEMMA OwnBitsMPX2 == OwnBits("MPX2")
<1>1. DOMAIN Tables["MPX2"].fsrKeys = {"biasdelayn", "biasdisc", "biaspreamp", "daccode", "sensedac", "dacsel", "biassetdisc", "biasths", "biasikrum", "biasabuffer", "thh", "thl", "fbk", "gnd", "biaslvdstx", "reflvdstx"}
  BY DEF Tables, initMPX2
<1>2. Spans(Bits("MPX2", "biasdelayn"), 3, 10)
  <2>1. Bits("MPX2", "biasdelayn") = Field(3, 10)  BY DEF Bits, Tables, initMPX2
  <2> QED  BY <2>1, OneField
<1>3. Spans(Bits("MPX2", "biasdisc"), 11, 18)
  <2>1. Bits("MPX2", "biasdisc") = Field(11, 18)  BY DEF Bits, Tables, initMPX2
  <2> QED  BY <2>1, OneField
<1>4. Spans(Bits("MPX2", "biaspreamp"), 19, 26)
  <2>1. Bits("MPX2", "biaspreamp") = Field(19, 26)  BY DEF Bits, Tables, initMPX2
  <2> QED  BY <2>1, OneField
<1>5. Spans(Bits("MPX2", "daccode"), 37, 41)
  <2>1. Bits("MPX2", "daccode") = Field(37, 38) \o Field(40, 40) \o Field(41, 41)  BY DEF Bits, Tables, initMPX2
  <2>2. Spans(Field(37, 38) \o Field(40, 40), 37, 40)  BY TwoFields
  <2>3. Spans(Field(41, 41), 41, 41)  BY OneField
  <2>4. Spans(Field(37, 38) \o Field(40, 40) \o Field(41, 41), 37, 41)  BY <2>2, <2>3, NextField
  <2> QED  BY <2>1, <2>4
<1>6. Spans(Bits("MPX2", "sensedac"), 42, 42)
  <2>1. Bits("MPX2", "sensedac") = Field(42, 42)  BY DEF Bits, Tables, initMPX2
  <2> QED  BY <2>1, OneField
<1>7. Spans(Bits("MPX2", "dacsel"), 43, 43)
  <2>1. Bits("MPX2", "dacsel") = Field(43, 43)  BY DEF Bits, Tables, initMPX2
  <2> QED  BY <2>1, OneField
<1>8. Spans(Bits("MPX2", "biassetdisc"), 45, 58)
  <2>1. Bits("MPX2", "biassetdisc") = Field(45, 48) \o Field(55, 58)  BY DEF Bits, Tables, initMPX2
  <2>2. Spans(Field(45, 48) \o Field(55, 58), 45, 58)  BY TwoFields
  <2> QED  BY <2>1, <2>2
<1>9. Spans(Bits("MPX2", "biasths"), 59, 66)
  <2>1. Bits("MPX2", "biasths") = Field(59, 66)  BY DEF Bits, Tables, initMPX2
  <2> QED  BY <2>1, OneField
<1>10. Spans(Bits("MPX2", "biasikrum"), 99, 106)
  <2>1. Bits("MPX2", "biasikrum") = Field(99, 106)  BY DEF Bits, Tables, initMPX2
  <2> QED  BY <2>1, OneField
<1>11. Spans(Bits("MPX2", "biasabuffer"), 107, 114)
  <2>1. Bits("MPX2", "biasabuffer") = Field(107, 114)  BY DEF Bits, Tables, initMPX2
  <2> QED  BY <2>1, OneField
<1>12. Spans(Bits("MPX2", "thh"), 115, 122)
  <2>1. Bits("MPX2", "thh") = Field(115, 122)  BY DEF Bits, Tables, initMPX2
  <2> QED  BY <2>1, OneField
<1>13. Spans(Bits("MPX2", "thl"), 123, 130)
  <2>1. Bits("MPX2", "thl") = Field(123, 130)  BY DEF Bits, Tables, initMPX2
  <2> QED  BY <2>1, OneField
<1>14. Spans(Bits("MPX2", "fbk"), 131, 138)
  <2>1. Bits("MPX2", "fbk") = Field(131, 138)  BY DEF Bits, Tables, initMPX2
  <2> QED  BY <2>1, OneField
<1>15. Spans(Bits("MPX2", "gnd"), 180, 187)
  <2>1. Bits("MPX2", "gnd") = Field(180, 187)  BY DEF Bits, Tables, initMPX2
  <2> QED  BY <2>1, OneField
<1>16. Spans(Bits("MPX2", "biaslvdstx"), 226, 233)
  <2>1. Bits("MPX2", "biaslvdstx") = Field(226, 233)  BY DEF Bits, Tables, initMPX2
  <2> QED  BY <2>1, OneField
<1>17. Spans(Bits("MPX2", "reflvdstx"), 234, 241)
  <2>1. Bits("MPX2", "reflvdstx") = Field(234, 241)  BY DEF Bits, Tables, initMPX2
  <2> QED  BY <2>1, OneField
<1>18. ASSUME NEW k \in DOMAIN Tables["MPX2"].fsrKeys, NEW i \in DOMAIN Bits("MPX2", k)
      PROVE  /\ Bits("MPX2", k)[i] \in Nat
             /\ k = "biasdelayn" => 3 <= Bits("MPX2", k)[i] /\ Bits("MPX2", k)[i] <= 10
             /\ k = "biasdisc" => 11 <= Bits("MPX2", k)[i] /\ Bits("MPX2", k)[i] <= 18
             /\ k = "biaspreamp" => 19 <= Bits("MPX2", k)[i] /\ Bits("MPX2", k)[i] <= 26
             /\ k = "daccode" => 37 <= Bits("MPX2", k)[i] /\ Bits("MPX2", k)[i] <= 41
             /\ k = "sensedac" => 42 <= Bits("MPX2", k)[i] /\ Bits("MPX2", k)[i] <= 42
             /\ k = "dacsel" => 43 <= Bits("MPX2", k)[i] /\ Bits("MPX2", k)[i] <= 43
             /\ k = "biassetdisc" => 45 <= Bits("MPX2", k)[i] /\ Bits("MPX2", k)[i] <= 58
             /\ k = "biasths" => 59 <= Bits("MPX2", k)[i] /\ Bits("MPX2", k)[i] <= 66
             /\ k = "biasikrum" => 99 <= Bits("MPX2", k)[i] /\ Bits("MPX2", k)[i] <= 106
             /\ k = "biasabuffer" => 107 <= Bits("MPX2", k)[i] /\ Bits("MPX2", k)[i] <= 114
             /\ k = "thh" => 115 <= Bits("MPX2", k)[i] /\ Bits("MPX2", k)[i] <= 122
             /\ k = "thl" => 123 <= Bits("MPX2", k)[i] /\ Bits("MPX2", k)[i] <= 130
             /\ k = "fbk" => 131 <= Bits("MPX2", k)[i] /\ Bits("MPX2", k)[i] <= 138
             /\ k = "gnd" => 180 <= Bits("MPX2", k)[i] /\ Bits("MPX2", k)[i] <= 187
             /\ k = "biaslvdstx" => 226 <= Bits("MPX2", k)[i] /\ Bits("MPX2", k)[i] <= 233
             /\ k = "reflvdstx" => 234 <= Bits("MPX2", k)[i] /\ Bits("MPX2", k)[i] <= 241
  <2>1. /\ k = "biasdelayn" => Spans(Bits("MPX2", k), 3, 10)
        /\ k = "biasdisc" => Spans(Bits("MPX2", k), 11, 18)
        /\ k = "biaspreamp" => Spans(Bits("MPX2", k), 19, 26)
        /\ k = "daccode" => Spans(Bits("MPX2", k), 37, 41)
        /\ k = "sensedac" => Spans(Bits("MPX2", k), 42, 42)
        /\ k = "dacsel" => Spans(Bits("MPX2", k), 43, 43)
        /\ k = "biassetdisc" => Spans(Bits("MPX2", k), 45, 58)
        /\ k = "biasths" => Spans(Bits("MPX2", k), 59, 66)
        /\ k = "biasikrum" => Spans(Bits("MPX2", k), 99, 106)
        /\ k = "biasabuffer" => Spans(Bits("MPX2", k), 107, 114)
        /\ k = "thh" => Spans(Bits("MPX2", k), 115, 122)
        /\ k = "thl" => Spans(Bits("MPX2", k), 123, 130)
        /\ k = "fbk" => Spans(Bits("MPX2", k), 131, 138)
        /\ k = "gnd" => Spans(Bits("MPX2", k), 180, 187)
        /\ k = "biaslvdstx" => Spans(Bits("MPX2", k), 226, 233)
        /\ k = "reflvdstx" => Spans(Bits("MPX2", k), 234, 241)
    BY <1>2, <1>3, <1>4, <1>5, <1>6, <1>7, <1>8, <1>9, <1>10, <1>11, <1>12, <1>13, <1>14, <1>15, <1>16, <1>17
  <2>2. ASSUME NEW lo, NEW hi, Spans(Bits("MPX2", k), lo, hi)
        PROVE  Bits("MPX2", k)[i] \in Nat /\ lo <= Bits("MPX2", k)[i] /\ Bits("MPX2", k)[i] <= hi
    BY <2>2 DEF Spans
  <2> QED  BY <1>1, <2>1, <2>2
<1>19. \A k \in DOMAIN Tables["MPX2"].fsrKeys :
        \E lo, hi : Spans(Bits("MPX2", k), lo, hi) /\ lo \in Nat /\ hi \in Nat /\ hi - lo < 32
  BY <1>1, <1>2, <1>3, <1>4, <1>5, <1>6, <1>7, <1>8, <1>9, <1>10, <1>11, <1>12, <1>13, <1>14, <1>15, <1>16, <1>17
<1>20. \A k \in DOMAIN Tables["MPX2"].fsrKeys : \A i, j \in DOMAIN Bits("MPX2", k) :
        i < j => Bits("MPX2", k)[i] < Bits("MPX2", k)[j]
  BY <1>19 DEF Spans
<1>21. ASSUME NEW k \in DOMAIN Tables["MPX2"].fsrKeys, NEW l \in DOMAIN Tables["MPX2"].fsrKeys,
             NEW i \in DOMAIN Bits("MPX2", k), NEW j \in DOMAIN Bits("MPX2", l),
             Bits("MPX2", k)[i] = Bits("MPX2", l)[j]
      PROVE  k = l
  BY <1>1, <1>18, <1>21
<1>22. \A k \in DOMAIN Tables["MPX2"].fsrKeys : DOMAIN Bits("MPX2", k) \subseteq 1 .. 32
  <2> SUFFICES ASSUME NEW k \in DOMAIN Tables["MPX2"].fsrKeys PROVE DOMAIN Bits("MPX2", k) \subseteq 1 .. 32
    OBVIOUS
  <2>1. Bits("MPX2", k) \in Seq(Nat) /\ Len(Bits("MPX2", k)) <= 32  BY <1>19 DEF Spans
  <2> QED  BY <2>1, Within32
<1>23. \A k \in DOMAIN Tables["MPX2"].fsrKeys : \A i \in DOMAIN Bits("MPX2", k) : Bits("MPX2", k)[i] \in 0 .. 255
  BY <1>1, <1>18
<1> QED  BY <1>18, <1>20, <1>21, <1>22, <1>23 DEF OwnBits

LEMMA OwnBitsMXR2 == OwnBits("MXR2")
<1>1. DOMAIN Tables["MXR2"].fsrKeys = {"ikrum", "disc", "preamp", "daccode", "sensedac", "dacsel", "buffanaloga", "buffanalogb", "delayn", "thl", "thh", "fbk", "gnd", "ctpr", "ths", "biaslvds", "reflvds"}
  BY DEF Tables, initMXR2
<1>2. Spans(Bits("MXR2", "ikrum"), 3, 10)
  <2>1. Bits("MXR2", "ikrum") = Field(3, 10)  BY DEF Bits, Tables, initMXR2
  <2> QED  BY <2>1, OneField
<1>3. Spans(Bits("MXR2", "disc"), 11, 18)
  <2>1. Bits("MXR2", "disc") = Field(11, 18)  BY DEF Bits, Tables, initMXR2
  <2> QED  BY <2>1, OneField
<1>4. Spans(Bits("MXR2", "preamp"), 19, 26)
  <2>1. Bits("MXR2", "preamp") = Field(19, 26)  BY DEF Bits, Tables, initMXR2
  <2> QED  BY <2>1, OneField
<1>5. Spans(Bits("MXR2", "daccode"), 37, 41)
  <2>1. Bits("MXR2", "daccode") = Field(37, 38) \o Field(40, 41)  BY DEF Bits, Tables, initMXR2
  <2>2. Spans(Field(37, 38) \o Field(40, 41), 37, 41)  BY TwoFields
  <2> QED  BY <2>1, <2>2
<1>6. Spans(Bits("MXR2", "sensedac"), 42, 42)
  <2>1. Bits("MXR2", "sensedac") = Field(42, 42)  BY DEF Bits, Tables, initMXR2
  <2> QED  BY <2>1, OneField
<1>7. Spans(Bits("MXR2", "dacsel"), 43, 43)
  <2>1. Bits("MXR2", "dacsel") = Field(43, 43)  BY DEF Bits, Tables, initMXR2
  <2> QED  BY <2>1, OneField
<1>8. Spans(Bits("MXR2", "buffanaloga"), 45, 58)
  <2>1. Bits("MXR2", "buffanaloga") = Field(45, 48) \o Field(55, 58)  BY DEF Bits, Tables, initMXR2
  <2>2. Spans(Field(45, 48) \o Field(55, 58), 45, 58)  BY TwoFields
  <2> QED  BY <2>1, <2>2
<1>9. Spans(Bits("MXR2", "buffanalogb"), 59, 66)
  <2>1. Bits("MXR2", "buffanalogb") = Field(59, 66)  BY DEF Bits, Tables, initMXR2
  <2> QED  BY <2>1, OneField
<1>10. Spans(Bits("MXR2", "delayn"), 85, 92)
  <2>1. Bits("MXR2", "delayn") = Field(85, 92)  BY DEF Bits, Tables, initMXR2
  <2> QED  BY <2>1, OneField
<1>11. Spans(Bits("MXR2", "thl"), 99, 112)
  <2>1. Bits("MXR2", "thl") = Field(99, 112)  BY DEF Bits, Tables, initMXR2
  <2> QED  BY <2>1, OneField
<1>12. Spans(Bits("MXR2", "thh"), 113, 126)
  <2>1. Bits("MXR2", "thh") = Field(113, 126)  BY DEF Bits, Tables, initMXR2
  <2> QED  BY <2>1, OneField
<1>13. Spans(Bits("MXR2", "fbk"), 127, 134)
  <2>1. Bits("MXR2", "fbk") = Field(127, 134)  BY DEF Bits, Tables, initMXR2
  <2> QED  BY <2>1, OneField
<1>14. Spans(Bits("MXR2", "gnd"), 135, 142)
  <2>1. Bits("MXR2", "gnd") = Field(135, 142)  BY DEF Bits, Tables, initMXR2
  <2> QED  BY <2>1, OneField
<1>15. Spans(Bits("MXR2", "ctpr"), 143, 174)
  <2>1. Bits("MXR2", "ctpr") = Field(143, 174)  BY DEF Bits, Tables, initMXR2
  <2> QED  BY <2>1, OneField
<1>16. Spans(Bits("MXR2", "ths"), 180, 187)
  <2>1. Bits("MXR2", "ths") = Field(180, 187)  BY DEF Bits, Tables, initMXR2
  <2> QED  BY <2>1, OneField
<1>17. Spans(Bits("MXR2", "biaslvds"), 226, 233)
  <2>1. Bits("MXR2", "biaslvds") = Field(226, 233)  BY DEF Bits, Tables, initMXR2
  <2> QED  BY <2>1, OneField
<1>18. Spans(Bits("MXR2", "reflvds"), 234, 241)
  <2>1. Bits("MXR2", "reflvds") = Field(234, 241)  BY DEF Bits, Tables, initMXR2
  <2> QED  BY <2>1, OneField
<1>19. ASSUME NEW k \in DOMAIN Tables["MXR2"].fsrKeys, NEW i \in DOMAIN Bits("MXR2", k)
      PROVE  /\ Bits("MXR2", k)[i] \in Nat
             /\ k = "ikrum" => 3 <= Bits("MXR2", k)[i] /\ Bits("MXR2", k)[i] <= 10
             /\ k = "disc" => 11 <= Bits("MXR2", k)[i] /\ Bits("MXR2", k)[i] <= 18
             /\ k = "preamp" => 19 <= Bits("MXR2", k)[i] /\ Bits("MXR2", k)[i] <= 26
             /\ k = "daccode" => 37 <= Bits("MXR2", k)[i] /\ Bits("MXR2", k)[i] <= 41
             /\ k = "sensedac" => 42 <= Bits("MXR2", k)[i] /\ Bits("MXR2", k)[i] <= 42
             /\ k = "dacsel" => 43 <= Bits("MXR2", k)[i] /\ Bits("MXR2", k)[i] <= 43
             /\ k = "buffanaloga" => 45 <= Bits("MXR2", k)[i] /\ Bits("MXR2", k)[i] <= 58
             /\ k = "buffanalogb" => 59 <= Bits("MXR2", k)[i] /\ Bits("MXR2", k)[i] <= 66
             /\ k = "delayn" => 85 <= Bits("MXR2", k)[i] /\ Bits("MXR2", k)[i] <= 92
             /\ k = "thl" => 99 <= Bits("MXR2", k)[i] /\ Bits("MXR2", k)[i] <= 112
             /\ k = "thh" => 113 <= Bits("MXR2", k)[i] /\ Bits("MXR2", k)[i] <= 126
             /\ k = "fbk" => 127 <= Bits("MXR2", k)[i] /\ Bits("MXR2", k)[i] <= 134
             /\ k = "gnd" => 135 <= Bits("MXR2", k)[i] /\ Bits("MXR2", k)[i] <= 142
             /\ k = "ctpr" => 143 <= Bits("MXR2", k)[i] /\ Bits("MXR2", k)[i] <= 174
             /\ k = "ths" => 180 <= Bits("MXR2", k)[i] /\ Bits("MXR2", k)[i] <= 187
             /\ k = "biaslvds" => 226 <= Bits("MXR2", k)[i] /\ Bits("MXR2", k)[i] <= 233
             /\ k = "reflvds" => 234 <= Bits("MXR2", k)[i] /\ Bits("MXR2", k)[i] <= 241
  <2>1. /\ k = "ikrum" => Spans(Bits("MXR2", k), 3, 10)
        /\ k = "disc" => Spans(Bits("MXR2", k), 11, 18)
        /\ k = "preamp" => Spans(Bits("MXR2", k), 19, 26)
        /\ k = "daccode" => Spans(Bits("MXR2", k), 37, 41)
        /\ k = "sensedac" => Spans(Bits("MXR2", k), 42, 42)
        /\ k = "dacsel" => Spans(Bits("MXR2", k), 43, 43)
        /\ k = "buffanaloga" => Spans(Bits("MXR2", k), 45, 58)
        /\ k = "buffanalogb" => Spans(Bits("MXR2", k), 59, 66)
        /\ k = "delayn" => Spans(Bits("MXR2", k), 85, 92)
        /\ k = "thl" => Spans(Bits("MXR2", k), 99, 112)
        /\ k = "thh" => Spans(Bits("MXR2", k), 113, 126)
        /\ k = "fbk" => Spans(Bits("MXR2", k), 127, 134)
        /\ k = "gnd" => Spans(Bits("MXR2", k), 135, 142)
        /\ k = "ctpr" => Spans(Bits("MXR2", k), 143, 174)
        /\ k = "ths" => Spans(Bits("MXR2", k), 180, 187)
        /\ k = "biaslvds" => Spans(Bits("MXR2", k), 226, 233)
        /\ k = "reflvds" => Spans(Bits("MXR2", k), 234, 241)
    BY <1>2, <1>3, <1>4, <1>5, <1>6, <1>7, <1>8, <1>9, <1>10, <1>11, <1>12, <1>13, <1>14, <1>15, <1>16, <1>17, <1>18
  <2>2. ASSUME NEW lo, NEW hi, Spans(Bits("MXR2", k), lo, hi)
        PROVE  Bits("MXR2", k)[i] \in Nat /\ lo <= Bits("MXR2", k)[i] /\ Bits("MXR2", k)[i] <= hi
    BY <2>2 DEF Spans
  <2> QED  BY <1>1, <2>1, <2>2
<1>20. \A k \in DOMAIN Tables["MXR2"].fsrKeys :
        \E lo, hi : Spans(Bits("MXR2", k), lo, hi) /\ lo \in Nat /\ hi \in Nat /\ hi - lo < 32
  BY <1>1, <1>2, <1>3, <1>4, <1>5, <1>6, <1>7, <1>8, <1>9, <1>10, <1>11, <1>12, <1>13, <1>14, <1>15, <1>16, <1>17, <1>18
<1>21. \A k \in DOMAIN Tables["MXR2"].fsrKeys : \A i, j \in DOMAIN Bits("MXR2", k) :
        i < j => Bits("MXR2", k)[i] < Bits("MXR2", k)[j]
  BY <1>20 DEF Spans
<1>22. ASSUME NEW k \in DOMAIN Tables["MXR2"].fsrKeys, NEW l \in DOMAIN Tables["MXR2"].fsrKeys,
             NEW i \in DOMAIN Bits("MXR2", k), NEW j \in DOMAIN Bits("MXR2", l),
             Bits("MXR2", k)[i] = Bits("MXR2", l)[j]
      PROVE  k = l
  BY <1>1, <1>19, <1>22
<1>23. \A k \in DOMAIN Tables["MXR2"].fsrKeys : DOMAIN Bits("MXR2", k) \subseteq 1 .. 32
  <2> SUFFICES ASSUME NEW k \in DOMAIN Tables["MXR2"].fsrKeys PROVE DOMAIN Bits("MXR2", k) \subseteq 1 .. 32
    OBVIOUS
  <2>1. Bits("MXR2", k) \in Seq(Nat) /\ Len(Bits("MXR2", k)) <= 32  BY <1>20 DEF Spans
  <2> QED  BY <2>1, Within32
<1>24. \A k \in DOMAIN Tables["MXR2"].fsrKeys : \A i \in DOMAIN Bits("MXR2", k) : Bits("MXR2", k)[i] \in 0 .. 255
  BY <1>1, <1>19
<1> QED  BY <1>19, <1>21, <1>22, <1>23, <1>24 DEF OwnBits

LEMMA TypesOwnBits == \A v \in DOMAIN Tables : OwnBits(v)
<1>1. DOMAIN Tables = {"TPX1", "MPX2", "MXR2"}  BY DEF Tables
<1> QED  BY <1>1, OwnBitsTPX1, OwnBitsMPX2, OwnBitsMXR2

\* Two bits of a register are not sent as one.
LEMMA PlaceUnique ==
  ASSUME NEW a \in 0 .. 255, NEW b \in 0 .. 255, Place(a) = Place(b)
  PROVE  a = b
<1>1. a = 8 * (a \div 8) + (a % 8) /\ a % 8 \in 0 .. 7 /\ a \div 8 \in Int  OBVIOUS
<1>2. b = 8 * (b \div 8) + (b % 8) /\ b % 8 \in 0 .. 7 /\ b \div 8 \in Int  OBVIOUS
<1>3. 8 * (31 - (a \div 8)) + (a % 8) = 8 * (31 - (b \div 8)) + (b % 8)  BY DEF Place
<1>4. a \div 8 = b \div 8  BY <1>1, <1>2, <1>3
<1> QED  BY <1>1, <1>2, <1>3, <1>4

\* The register for some values has exactly these: each can be read back from
\* its own bits, whatever the others are.
LEMMA RegisterHolds ==
  ASSUME NEW v \in DOMAIN Tables, NEW data, DOMAIN data \subseteq DOMAIN Tables[v].fsrKeys,
         NEW key \in DOMAIN Tables[v].fsrKeys, NEW i \in DOMAIN Bits(v, key)
  PROVE  InFsr(v, key, i, FsrString(v, data)) <=> key \in DOMAIN data /\ BitOf(data[key], i - 1)
<1>1. OwnBits(v)  BY TypesOwnBits
<1>2. Bits(v, key)[i] \in 0 .. 255  BY <1>1 DEF OwnBits
<1>3. ReadAt[Bits(v, key)[i]] = Place(Bits(v, key)[i])  BY <1>2 DEF ReadAt, Place
<1>4. ASSUME NEW bit
      PROVE  bit \in FsrString(v, data) <=>
               \E k \in DOMAIN data : \E j \in DOMAIN Bits(v, k) :
                 BitOf(data[k], j - 1) /\ bit = Place(Bits(v, k)[j])
  BY DEF FsrString
<1>5. ASSUME NEW k \in DOMAIN data, NEW j \in DOMAIN Bits(v, k),
             Place(Bits(v, key)[i]) = Place(Bits(v, k)[j])
      PROVE  k = key /\ j = i
  <2>1. k \in DOMAIN Tables[v].fsrKeys  OBVIOUS
  <2>2. Bits(v, k)[j] \in 0 .. 255  BY <1>1, <2>1 DEF OwnBits
  <2>3. Bits(v, key)[i] = Bits(v, k)[j]  BY <1>2, <1>5, <2>2, PlaceUnique
  <2> QED  BY <1>1, <2>1, <2>3 DEF OwnBits
<1> QED  BY <1>3, <1>4, <1>5 DEF InFsr

\* The powers that BitOf divides by are positive: no bit of 0 is on.
LEMMA Powers ==
  /\ 2 ^ 0 > 0 /\ 2 ^ 1 > 0 /\ 2 ^ 2 > 0 /\ 2 ^ 3 > 0 /\ 2 ^ 4 > 0 /\ 2 ^ 5 > 0
  /\ 2 ^ 6 > 0 /\ 2 ^ 7 > 0 /\ 2 ^ 8 > 0 /\ 2 ^ 9 > 0 /\ 2 ^ 10 > 0 /\ 2 ^ 11 > 0
  /\ 2 ^ 12 > 0 /\ 2 ^ 13 > 0 /\ 2 ^ 14 > 0 /\ 2 ^ 15 > 0 /\ 2 ^ 16 > 0 /\ 2 ^ 17 > 0
  /\ 2 ^ 18 > 0 /\ 2 ^ 19 > 0 /\ 2 ^ 20 > 0 /\ 2 ^ 21 > 0 /\ 2 ^ 22 > 0 /\ 2 ^ 23 > 0
  /\ 2 ^ 24 > 0 /\ 2 ^ 25 > 0 /\ 2 ^ 26 > 0 /\ 2 ^ 27 > 0 /\ 2 ^ 28 > 0 /\ 2 ^ 29 > 0
  /\ 2 ^ 30 > 0
OBVIOUS

LEMMA NoBitOf0 == ASSUME NEW k \in 0 .. 31 PROVE ~ BitOf(0, k)
<1>1. CASE k = 31  BY <1>1 DEF BitOf
<1>2. CASE k # 31
  <2>1. \/ k = 0 \/ k = 1 \/ k = 2 \/ k = 3 \/ k = 4 \/ k = 5 \/ k = 6 \/ k = 7
        \/ k = 8 \/ k = 9 \/ k = 10 \/ k = 11 \/ k = 12 \/ k = 13 \/ k = 14 \/ k = 15
        \/ k = 16 \/ k = 17 \/ k = 18 \/ k = 19 \/ k = 20 \/ k = 21 \/ k = 22 \/ k = 23
        \/ k = 24 \/ k = 25 \/ k = 26 \/ k = 27 \/ k = 28 \/ k = 29 \/ k = 30
    BY <1>2
  <2>2. 2 ^ k > 0  BY <2>1, Powers, Zenon
  <2>3. ASSUME NEW x \in Int, x > 0 PROVE 0 \div x = 0  BY <2>3
  <2>4. 2 ^ k \in Int  OBVIOUS
  <2>5. 0 \div (2 ^ k) = 0  BY <2>2, <2>3, <2>4, Zenon
  <2>6. 0 % 2 # 1  OBVIOUS
  <2> QED  BY <1>2, <2>5, <2>6, Zenon DEF BitOf
<1> QED  BY <1>1, <1>2

\* MpxDacs sees the tables of its own MpxFsr, which are the same.
LEMMA SameFsr ==
  /\ Dacs!Tables = Tables
  /\ \A v, saved : Dacs!listKeys(v, saved) = listKeys(v, saved)
  /\ \A v, key : Dacs!Bits(v, key) = Bits(v, key)
  /\ \A v, data : Dacs!FsrString(v, data) = FsrString(v, data)
  /\ \A v, key, i, register : Dacs!InFsr(v, key, i, register) = InFsr(v, key, i, register)
  /\ \A val, k : Dacs!BitOf(val, k) = BitOf(val, k)
<1>1. Dacs!Tables = Tables
  <2>1. \A a, b : Dacs!Field(a, b) = Field(a, b)  BY DEF Dacs!Field, Field
  <2>2. Dacs!initTPX1 = initTPX1  BY <2>1 DEF Dacs!initTPX1, initTPX1
  <2>3. Dacs!initMPX2 = initMPX2  BY <2>1 DEF Dacs!initMPX2, initMPX2
  <2>4. Dacs!initMXR2 = initMXR2  BY <2>1 DEF Dacs!initMXR2, initMXR2
  <2> QED  BY <2>2, <2>3, <2>4 DEF Dacs!Tables, Tables
<1>2. \A v, key : Dacs!Bits(v, key) = Bits(v, key)  BY <1>1 DEF Dacs!Bits, Bits
<1>3. \A v, saved : Dacs!listKeys(v, saved) = listKeys(v, saved)
  BY <1>1 DEF Dacs!listKeys, listKeys
<1>4. \A val, k : Dacs!BitOf(val, k) = BitOf(val, k)  BY DEF Dacs!BitOf, BitOf
<1>5. \A bit : Dacs!Place(bit) = Place(bit)  BY DEF Dacs!Place, Place
<1>6. \A v, data : Dacs!FsrString(v, data) = FsrString(v, data)
  BY <1>2, <1>4, <1>5 DEF Dacs!FsrString, FsrString
<1>7. Dacs!ReadAt = ReadAt  BY DEF Dacs!ReadAt, ReadAt
<1>8. \A v, key, i, register : Dacs!InFsr(v, key, i, register) = InFsr(v, key, i, register)
  BY <1>2, <1>7 DEF Dacs!InFsr, InFsr
<1> QED  BY <1>1, <1>2, <1>3, <1>4, <1>6, <1>8

(***************************************************************************)
(* The chips: what each was sent last.                                     *)
(***************************************************************************)
\* Any function on the first numbers is a list.
LEMMA ListOf ==
  ASSUME NEW n \in Nat, NEW f, f = [c \in 1 .. n |-> f[c]]
  PROVE  f \in Seq(Range(f)) /\ Len(f) = n /\ DOMAIN f = 1 .. n
<1>1. f \in [1 .. n -> Range(f)]  BY DEF Range
<1>2. f \in Seq(Range(f))  BY <1>1, SeqDef
<1>3. DOMAIN f = 1 .. Len(f) /\ Len(f) \in Nat  BY <1>2
<1>4. DOMAIN f = 1 .. n  BY <1>1
<1> QED  BY <1>2, <1>3, <1>4

\* The largest of a set is the member no other exceeds.
LEMMA MaxIsDacs ==
  ASSUME NEW S, NEW j \in S, \A i \in S : i \in Int /\ i <= j
  PROVE  Dacs!Max(S) = j
BY DEF Dacs!Max

\* The chip on a port holds what was written there last ...
LEMMA LastWrite ==
  ASSUME NEW steps, NEW k \in Nat, NEW j \in 1 .. k, NEW p \in DOMAIN fsr, steps[j].port = p,
         \A i \in j + 1 .. k : steps[i].port # p
  PROVE  Dacs!Written(steps, k)[p] = steps[j].sent
<1> DEFINE js == {i \in 1 .. k : steps[i].port = p}
<1>1. j \in js /\ \A i \in js : i \in Int /\ i <= j  OBVIOUS
<1>2. Dacs!Max(js) = j  BY <1>1, MaxIsDacs
<1>3. js # {}  BY <1>1
<1> HIDE DEF js
<1>4. Dacs!Written(steps, k)[p] = IF js = {} THEN fsr[p] ELSE steps[Dacs!Max(js)].sent
  BY DEF Dacs!Written, js
<1> QED  BY <1>2, <1>3, <1>4

\* ... and what it held before if nothing was.
LEMMA NoWrite ==
  ASSUME NEW steps, NEW k \in Nat, NEW p \in DOMAIN fsr, \A i \in 1 .. k : steps[i].port # p
  PROVE  Dacs!Written(steps, k)[p] = fsr[p]
BY DEF Dacs!Written

LEMMA WrittenPorts ==
  ASSUME NEW steps, NEW k
  PROVE  DOMAIN Dacs!Written(steps, k) = DOMAIN fsr
BY DEF Dacs!Written

\* One port for each chip.
PortsFor(p, n) == p \in Seq(0 .. 4) /\ Len(p) = n /\ Dacs!IsInjective(p)

\* The writes of all the chips: of chip c, the dummy and then its own.
LEMMA ApplyAllIs ==
  ASSUME NEW d, NEW p, NEW n \in Nat, Len(d) = n
  PROVE  /\ Len(Dacs!applyAll(d, p)) = 2 * n
         /\ \A j \in 1 .. 2 * n : Dacs!applyAll(d, p)[j].port = p[(j + 1) \div 2]
         /\ \A c \in 1 .. n : Dacs!applyAll(d, p)[2 * c].sent = Dacs!Packed(d[c])
<1>1. 2 * n \in Nat  OBVIOUS
<1>2. Dacs!applyAll(d, p) =
        [j \in 1 .. 2 * n |-> Dacs!setChipFsr(p[(j + 1) \div 2], d[(j + 1) \div 2])[2 - (j % 2)]]
  BY DEF Dacs!applyAll
<1>3. Len(Dacs!applyAll(d, p)) = 2 * n  BY <1>1, <1>2, ListOf
<1>4. \A port, data : /\ Dacs!setChipFsr(port, data)[1].port = port
                      /\ Dacs!setChipFsr(port, data)[2].port = port
                      /\ Dacs!setChipFsr(port, data)[2].sent = Dacs!Packed(data)
  BY DEF Dacs!setChipFsr
<1>5. ASSUME NEW j \in 1 .. 2 * n PROVE Dacs!applyAll(d, p)[j].port = p[(j + 1) \div 2]
  <2>1. Dacs!applyAll(d, p)[j] =
          Dacs!setChipFsr(p[(j + 1) \div 2], d[(j + 1) \div 2])[2 - (j % 2)]
    BY <1>2
  <2>2. 2 - (j % 2) = 1 \/ 2 - (j % 2) = 2  OBVIOUS
  <2> QED  BY <1>4, <2>1, <2>2
<1>6. ASSUME NEW c \in 1 .. n PROVE Dacs!applyAll(d, p)[2 * c].sent = Dacs!Packed(d[c])
  <2>1. 2 * c \in 1 .. 2 * n /\ 2 - ((2 * c) % 2) = 2 /\ (2 * c + 1) \div 2 = c  OBVIOUS
  <2>2. Dacs!applyAll(d, p)[2 * c] = Dacs!setChipFsr(p[c], d[c])[2]  BY <1>2, <2>1
  <2> QED  BY <1>4, <2>2
<1> QED  BY <1>3, <1>5, <1>6

\* The writes of all the chips come after the first m.
Follow(all, steps, m, n) == \A j \in 1 .. 2 * n : steps[m + j] = all[j]

\* A chip whose own register is among the first writes of all the chips, after
\* some others, holds it: the other chips are on other ports.
LEMMA ApplyAllWrites ==
  ASSUME NEW d, NEW p, NEW n \in Nat, Len(d) = n, PortsFor(p, n), DOMAIN fsr = 0 .. 4,
         NEW steps, NEW m \in Nat,
         Follow(Dacs!applyAll(d, p), steps, m, n),
         NEW k \in 0 .. m + 2 * n, NEW c \in 1 .. n, 2 * c <= k - m
  PROVE  Dacs!Written(steps, k)[p[c]] = Dacs!Packed(d[c])
<1>1. p[c] \in DOMAIN fsr  BY DEF PortsFor
<1>2. m + 2 * c \in 1 .. k  OBVIOUS
<1>3. 2 * c \in 1 .. 2 * n /\ (2 * c + 1) \div 2 = c  OBVIOUS
<1>4. steps[m + 2 * c].port = p[c] /\ steps[m + 2 * c].sent = Dacs!Packed(d[c])
  <2>1. steps[m + 2 * c] = Dacs!applyAll(d, p)[2 * c]  BY <1>3 DEF Follow
  <2>2. Dacs!applyAll(d, p)[2 * c].port = p[(2 * c + 1) \div 2]  BY <1>3, ApplyAllIs
  <2>3. Dacs!applyAll(d, p)[2 * c].sent = Dacs!Packed(d[c])  BY ApplyAllIs
  <2> QED  BY <1>3, <2>1, <2>2, <2>3
<1>5. ASSUME NEW i \in m + 2 * c + 1 .. k PROVE steps[i].port # p[c]
  <2>1. PICK j \in 1 .. 2 * n : i = m + j /\ j > 2 * c
    <3>1. i - m \in 1 .. 2 * n /\ i - m > 2 * c /\ i = m + (i - m)  BY <1>2
    <3> QED  BY <3>1
  <2>2. (j + 1) \div 2 \in 1 .. n /\ (j + 1) \div 2 # c  BY <2>1
  <2>3. steps[i].port = p[(j + 1) \div 2]
    <3>1. steps[i] = Dacs!applyAll(d, p)[j]  BY <2>1 DEF Follow
    <3>2. Dacs!applyAll(d, p)[j].port = p[(j + 1) \div 2]  BY ApplyAllIs
    <3> QED  BY <3>1, <3>2
  <2>4. DOMAIN p = 1 .. n  BY DEF PortsFor
  <2> QED  BY <2>2, <2>3, <2>4 DEF PortsFor, Dacs!IsInjective
<1>6. k \in Nat  OBVIOUS
<1> QED  BY <1>1, <1>2, <1>4, <1>5, <1>6, LastWrite

\* The values of n chips, all of the table of type v.
ValuesOf(v, d, n) ==
  /\ d \in Seq(Range(d)) /\ Len(d) = n /\ DOMAIN d = 1 .. n
  /\ \A c \in 1 .. n : DOMAIN d[c] \subseteq Dacs!listKeys(v, FALSE)

\* MpxFsrDef's instance is of a type that is loaded, a chip has only values of
\* that type's table and a port of its own, and one that was written since its
\* values were last set has just these on its port.
SentInv ==
  /\ version \in DOMAIN Dacs!Tables \cup {Dacs!NoVersion}
  /\ dacs # <<>> => version \in DOMAIN Dacs!Tables
  /\ \E n \in Nat : ValuesOf(version, dacs, n) /\ PortsFor(ports, n)
  /\ DOMAIN fsr = 0 .. 4
  /\ \A c \in synced : c \in DOMAIN dacs /\ fsr[ports[c]] = Dacs!Packed(dacs[c])

LEMMA ListKeys ==
  /\ \A v : Dacs!listKeys(v, TRUE) \subseteq Dacs!listKeys(v, FALSE)
  /\ \A v : Dacs!listKeys(v, FALSE) = DOMAIN Dacs!Tables[v].fsrKeys
  /\ \A v \in DOMAIN Dacs!Tables : "thl" \in Dacs!listKeys(v, FALSE)
<1>1. \A v : Dacs!listKeys(v, FALSE) = DOMAIN Dacs!Tables[v].fsrKeys
         /\ Dacs!listKeys(v, TRUE) \subseteq Dacs!listKeys(v, FALSE)
  BY DEF Dacs!listKeys
<1>2. DOMAIN Tables = {"TPX1", "MPX2", "MXR2"}  BY DEF Tables
<1>3. "thl" \in DOMAIN Tables["TPX1"].fsrKeys  BY DEF Tables, initTPX1
<1>4. "thl" \in DOMAIN Tables["MPX2"].fsrKeys  BY DEF Tables, initMPX2
<1>5. "thl" \in DOMAIN Tables["MXR2"].fsrKeys  BY DEF Tables, initMXR2
<1>6. \A v \in DOMAIN Tables : "thl" \in DOMAIN Tables[v].fsrKeys  BY <1>2, <1>3, <1>4, <1>5
<1> QED  BY <1>1, <1>6, SameFsr

\* Settings of values of a table leave values of it.
LEMMA SettingsOf ==
  ASSUME NEW K, NEW data, DOMAIN data \subseteq K,
         NEW list, \A i \in DOMAIN list : list[i][1] \in K
  PROVE  DOMAIN Dacs!WithDacs(data, list) \subseteq K
BY DEF Dacs!WithDacs

LEMMA OnlyOne == \A x : \A i \in DOMAIN <<x>> : <<x>>[i] = x
OBVIOUS

LEMMA AtEnergyIs ==
  ASSUME NEW v \in DOMAIN Dacs!Tables, NEW d, NEW n \in Nat, ValuesOf(v, d, n), NEW energy, NEW k
  PROVE  ValuesOf(v, Dacs!AtEnergy(d, energy, k), n)
<1>1. Dacs!AtEnergy(d, energy, k) =
        [c \in 1 .. n |-> Dacs!WithDacs(d[c], << <<"thl", Dacs!Threshold(c, energy, k)>> >>)]
  BY DEF Dacs!AtEnergy, ValuesOf
<1>2. ASSUME NEW c \in 1 .. n
      PROVE  DOMAIN Dacs!AtEnergy(d, energy, k)[c] \subseteq Dacs!listKeys(v, FALSE)
  <2> DEFINE thl  == <<"thl", Dacs!Threshold(c, energy, k)>>
             list == <<thl>>
  <2>0. thl[1] \in Dacs!listKeys(v, FALSE)  BY ListKeys
  <2>1. \A i \in DOMAIN list : list[i][1] \in Dacs!listKeys(v, FALSE)
    BY <2>0, OnlyOne, Zenon
  <2>2. Dacs!AtEnergy(d, energy, k)[c] = Dacs!WithDacs(d[c], list)  BY <1>1
  <2>3. DOMAIN d[c] \subseteq Dacs!listKeys(v, FALSE)  BY DEF ValuesOf
  <2> HIDE DEF list
  <2> QED  BY <2>1, <2>2, <2>3, SettingsOf
<1>3. Dacs!AtEnergy(d, energy, k) =
        [c \in 1 .. n |-> Dacs!AtEnergy(d, energy, k)[c]]
  BY <1>1
<1> QED  BY <1>2, <1>3, ListOf DEF ValuesOf

LEMMA PortsAre ==
  ASSUME NEW n \in Nat, PortsFor(ports, n), DOMAIN fsr = 0 .. 4, NEW c \in 1 .. n
  PROVE  ports[c] \in DOMAIN fsr /\ \A b \in 1 .. n : ports[b] = ports[c] => b = c
<1>1. DOMAIN ports = 1 .. n /\ ports[c] \in 0 .. 4  BY DEF PortsFor
<1> QED  BY <1>1 DEF PortsFor, Dacs!IsInjective

LEMMA SentInit == Dacs!Init => SentInv
<1> SUFFICES ASSUME Dacs!Init PROVE SentInv  OBVIOUS
<1>1. dacs = <<>> /\ ports = <<>> /\ DOMAIN fsr = 0 .. 4 /\ synced = {}
  BY DEF Dacs!Init
<1>2. <<>> \in Seq(Range(<<>>)) /\ Len(<<>>) = 0 /\ DOMAIN <<>> = {}  OBVIOUS
<1>3. PortsFor(<<>>, 0)  BY DEF PortsFor, Dacs!IsInjective
<1>5. ValuesOf(version, dacs, 0)  BY <1>1, <1>2 DEF ValuesOf
<1>4. version = Dacs!NoVersion  BY DEF Dacs!Init
<1> QED  BY <1>1, <1>3, <1>4, <1>5 DEF SentInv

LEMMA AfterTwo ==
  ASSUME NEW a, NEW b, NEW s, NEW n \in Nat, s \in Seq(Range(s)), Len(s) = n
  PROVE  /\ Len(<<a, b>> \o s) = 2 + n /\ Len(<<a, b>>) = 2
         /\ \A j \in 1 .. n : (<<a, b>> \o s)[2 + j] = s[j]
<1> DEFINE T == Range(s) \cup {a, b}
<1>1. s \in Seq(T)  BY SeqMonotonic
<1>2. <<a, b>> \in Seq(T) /\ Len(<<a, b>>) = 2  OBVIOUS
<1> HIDE DEF T
<1>3. PICK t \in Seq(T) : t = <<a, b>> /\ Len(t) = 2  BY <1>2
<1>4. Len(t \o s) = 2 + n /\ \A j \in 1 .. n : (t \o s)[2 + j] = s[j]  BY <1>1, <1>3
<1> QED  BY <1>3, <1>4


LEMMA SetEnergyKeeps ==
  ASSUME SentInv, NEW energy, Dacs!SetEnergy(energy)
  PROVE  SentInv'
<1> DEFINE warm  == Dacs!AtEnergy(dacs, energy, cal)
           steps == Dacs!applyAll(warm, ports)
<1>1. PICK n \in Nat : ValuesOf(version, dacs, n) /\ PortsFor(ports, n)  BY DEF SentInv
<1>2. version \in DOMAIN Dacs!Tables /\ dacs' = warm /\ version' = version /\ ports' = ports
  BY DEF Dacs!SetEnergy, SentInv
<1>3. PICK k \in 0 .. Len(steps) : /\ fsr' = Dacs!Written(steps, k)
                                   /\ synced' = Dacs!Reached([c \in DOMAIN dacs |-> c], k)
  BY DEF Dacs!SetEnergy, Dacs!Chips
<1>4. ValuesOf(version, warm, n)  BY <1>1, <1>2, AtEnergyIs
<1>5. DOMAIN fsr = 0 .. 4  BY DEF SentInv
<1> HIDE DEF warm
<1>6. Len(warm) = n /\ DOMAIN warm = 1 .. n /\ DOMAIN dacs = 1 .. n  BY <1>1, <1>4 DEF ValuesOf
<1>7. Len(steps) = 2 * n  BY <1>6, ApplyAllIs
<1>8. DOMAIN fsr' = 0 .. 4  BY <1>3, <1>5, WrittenPorts
<1>9. ASSUME NEW c \in synced' PROVE c \in DOMAIN warm /\ fsr'[ports[c]] = Dacs!Packed(warm[c])
  <2>1. c \in 1 .. n /\ 2 * c <= k - 0 /\ k \in 0 .. 0 + 2 * n
    BY <1>3, <1>6, <1>7 DEF Dacs!Reached
  <2>2. Follow(steps, steps, 0, n)  BY DEF Follow
  <2> HIDE DEF steps
  <2>3. Follow(Dacs!applyAll(warm, ports), steps, 0, n)  BY <2>2 DEF steps
  <2>4. Dacs!Written(steps, k)[ports[c]] = Dacs!Packed(warm[c])
    BY <1>1, <1>5, <1>6, <2>1, <2>3, ApplyAllWrites
  <2> QED  BY <1>3, <1>6, <2>1, <2>4
<1> QED  BY <1>1, <1>2, <1>4, <1>8, <1>9 DEF SentInv

LEMMA LoadKeeps ==
  ASSUME SentInv, NEW d \in Detectors, Dacs!Load(d)
  PROVE  SentInv'
<1> DEFINE v     == Dacs!Instance(d)
           asked == Dacs!listKeys(v, TRUE)
           data  == [key \in DOMAIN Dacs!m_default(v) \cup asked |->
                       IF key \in asked THEN d.dacs[key] ELSE Dacs!m_default(v)[key]]
           read  == [c \in DOMAIN d.ports |-> data]
           k0    == [noise |-> d.noise, xray |-> d.xray, calib |-> d.calib, last |-> 0]
           warm  == Dacs!AtEnergy(read, d.energy, k0)
           setup == Dacs!setChipFsr(0, data)
           all   == Dacs!applyAll(warm, d.ports)
           steps == setup \o all
<1>1. version' = v /\ ports' = d.ports  BY DEF Dacs!Load
<1>2. PICK k \in 0 .. Len(steps) :
        /\ fsr' = Dacs!Written(steps, k)
        /\ \/ dacs' = read /\ synced' = {}
           \/ /\ dacs' = warm /\ k >= Len(setup)
              /\ synced' = Dacs!Reached([c \in DOMAIN d.ports |-> c], k - Len(setup))
  BY DEF Dacs!Load
<1>3. v \in DOMAIN Dacs!Tables
  BY DacsAssumption DEF SentInv, Dacs!Instance, Dacs!DetectorsAssumption
<1>4. d.ports \in Seq(0 .. 4) /\ Dacs!IsInjective(d.ports)
  BY DacsAssumption DEF Dacs!DetectorsAssumption
<1>5. PICK n \in Nat : n = Len(d.ports) /\ DOMAIN d.ports = 1 .. n /\ PortsFor(d.ports, n)
  BY <1>4 DEF PortsFor
<1>6. DOMAIN data \subseteq Dacs!listKeys(v, FALSE)
  BY ListKeys DEF Dacs!m_default, Dacs!NoDacs
<1>7. \E a, b : setup = <<a, b>>  BY DEF Dacs!setChipFsr
<1> HIDE DEF v, data, setup
<1>8. ValuesOf(v, read, n)
  <2>1. read = [c \in 1 .. n |-> read[c]] /\ \A c \in 1 .. n : read[c] = data  BY <1>5
  <2> HIDE DEF read
  <2> QED  BY <1>6, <2>1, ListOf DEF ValuesOf
<1> HIDE DEF read, k0
<1>9. ValuesOf(v, warm, n)  BY <1>3, <1>8, AtEnergyIs
<1> HIDE DEF warm
<1>10. DOMAIN fsr = 0 .. 4 /\ DOMAIN fsr' = 0 .. 4  BY <1>2, WrittenPorts DEF SentInv
<1>11. Len(warm) = n /\ DOMAIN warm = 1 .. n  BY <1>9 DEF ValuesOf
<1>12. Len(steps) = 2 + 2 * n /\ Len(setup) = 2 /\ Follow(all, steps, 2, n)
  <2>1. all = [j \in 1 .. 2 * n |-> all[j]]  BY <1>11 DEF Dacs!applyAll
  <2>2. Len(all) = 2 * n /\ 2 * n \in Nat  BY <1>11, ApplyAllIs
  <2> HIDE DEF all
  <2>3. all \in Seq(Range(all))  BY <2>1, <2>2, ListOf
  <2>4. PICK a, b : setup = <<a, b>>  BY <1>7
  <2> QED  BY <2>2, <2>3, <2>4, AfterTwo DEF Follow
<1> HIDE DEF steps
<1>13. ASSUME NEW c \in synced'
       PROVE  c \in DOMAIN dacs' /\ fsr'[ports'[c]] = Dacs!Packed(dacs'[c])
  <2>1. dacs' = warm /\ synced' = Dacs!Reached([j \in 1 .. n |-> j], k - 2)
    BY <1>2, <1>5, <1>12, <1>13
  <2>2. k \in 0 .. 2 + 2 * n /\ c \in 1 .. n /\ 2 * c <= k - 2
    BY <1>12, <2>1 DEF Dacs!Reached
  <2>3. Dacs!Written(steps, k)[d.ports[c]] = Dacs!Packed(warm[c])
    BY <1>5, <1>10, <1>11, <1>12, <2>2, ApplyAllWrites
  <2> QED  BY <1>1, <1>2, <1>11, <2>1, <2>2, <2>3
<1>14. dacs' = read \/ dacs' = warm  BY <1>2
<1> QED  BY <1>1, <1>3, <1>5, <1>8, <1>9, <1>10, <1>13, <1>14 DEF SentInv

LEMMA SetOneDacKeeps ==
  ASSUME SentInv, NEW chipid, NEW setting, Dacs!SetOneDac(chipid, setting)
  PROVE  SentInv'
<1> DEFINE chips == Dacs!getChipIdx(chipid)
           data(c) == Dacs!WithDacs(dacs[c], <<setting>>)
<1>1. PICK n \in Nat : ValuesOf(version, dacs, n) /\ PortsFor(ports, n)  BY DEF SentInv
<1>2. DOMAIN dacs = 1 .. n  BY <1>1 DEF ValuesOf
<1>3. /\ dacs' = [c \in 1 .. n |-> IF c \in chips THEN data(c) ELSE dacs[c]]
      /\ synced' = synced \ chips /\ UNCHANGED <<version, ports, fsr>>
      /\ setting[1] \in Dacs!listKeys(version, FALSE)
  BY <1>2 DEF Dacs!SetOneDac, Dacs!Chips, Dacs!Valid
<1> HIDE DEF chips
<1>4. ASSUME NEW c \in 1 .. n PROVE DOMAIN data(c) \subseteq Dacs!listKeys(version, FALSE)
  <2>1. \A i \in DOMAIN <<setting>> : <<setting>>[i][1] \in Dacs!listKeys(version, FALSE)
    BY <1>3, OnlyOne, Zenon
  <2>2. DOMAIN dacs[c] \subseteq Dacs!listKeys(version, FALSE)  BY <1>1 DEF ValuesOf
  <2> QED  BY <2>1, <2>2, SettingsOf
<1> HIDE DEF data
<1>5. ValuesOf(version, dacs', n)
  <2>1. dacs' = [c \in 1 .. n |-> dacs'[c]]  BY <1>3
  <2>2. \A c \in 1 .. n : DOMAIN dacs'[c] \subseteq Dacs!listKeys(version, FALSE)
    BY <1>1, <1>3, <1>4 DEF ValuesOf
  <2> QED  BY <2>1, <2>2, ListOf DEF ValuesOf
<1>6. \A c \in synced' : c \in DOMAIN dacs' /\ fsr'[ports'[c]] = Dacs!Packed(dacs'[c])
  BY <1>2, <1>3 DEF SentInv
<1>7. dacs # <<>>  BY DEF Dacs!SetOneDac
<1> QED  BY <1>1, <1>3, <1>5, <1>6, <1>7 DEF SentInv

LEMMA SetDacsKeeps ==
  ASSUME SentInv, NEW chipid, NEW list \in Lists, Dacs!SetDacs(chipid, list)
  PROVE  SentInv'
<1> DEFINE done == [i \in {i \in DOMAIN list : \A j \in 1 .. i : Dacs!Valid(list[j])} |-> list[i]]
           chips == IF DOMAIN done = DOMAIN list THEN Dacs!getChipIdx(chipid)
                    ELSE {IF chipid = 0 THEN 1 ELSE chipid}
           data(c) == Dacs!WithDacs(dacs[c], done)
<1>1. PICK n \in Nat : ValuesOf(version, dacs, n) /\ PortsFor(ports, n)  BY DEF SentInv
<1>2. DOMAIN dacs = 1 .. n  BY <1>1 DEF ValuesOf
<1>3. /\ dacs' = [c \in 1 .. n |-> IF c \in chips THEN data(c) ELSE dacs[c]]
      /\ synced' = synced \ chips /\ UNCHANGED <<version, ports, fsr>>
  BY <1>2 DEF Dacs!SetDacs, Dacs!Chips
<1>4. \A i \in DOMAIN done : done[i][1] \in Dacs!listKeys(version, FALSE)
  <2> SUFFICES ASSUME NEW i \in DOMAIN done PROVE done[i][1] \in Dacs!listKeys(version, FALSE)
    OBVIOUS
  <2>1. i \in 1 .. Len(list)  BY DacsAssumption DEF Dacs!DetectorsAssumption
  <2>2. i \in 1 .. i  BY <2>1
  <2>3. done[i] = list[i] /\ Dacs!Valid(list[i])  BY <2>2
  <2> QED  BY <2>3 DEF Dacs!Valid
<1> HIDE DEF chips, done
<1>5. ASSUME NEW c \in 1 .. n PROVE DOMAIN data(c) \subseteq Dacs!listKeys(version, FALSE)
  <2>1. DOMAIN dacs[c] \subseteq Dacs!listKeys(version, FALSE)  BY <1>1 DEF ValuesOf
  <2> QED  BY <1>4, <2>1, SettingsOf
<1> HIDE DEF data
<1>6. ValuesOf(version, dacs', n)
  <2>1. dacs' = [c \in 1 .. n |-> dacs'[c]]  BY <1>3
  <2>2. \A c \in 1 .. n : DOMAIN dacs'[c] \subseteq Dacs!listKeys(version, FALSE)
    BY <1>1, <1>3, <1>5 DEF ValuesOf
  <2> QED  BY <2>1, <2>2, ListOf DEF ValuesOf
<1>7. \A c \in synced' : c \in DOMAIN dacs' /\ fsr'[ports'[c]] = Dacs!Packed(dacs'[c])
  BY <1>2, <1>3 DEF SentInv
<1>8. dacs # <<>>  BY DEF Dacs!SetDacs
<1> QED  BY <1>1, <1>3, <1>6, <1>7, <1>8 DEF SentInv

LEMMA ApplyKeeps ==
  ASSUME SentInv, NEW chipid, Dacs!ApplyChipDacs(chipid)
  PROVE  SentInv'
<1> DEFINE cs    == IF chipid = 0 THEN [c \in DOMAIN dacs |-> c] ELSE <<chipid>>
           steps == IF chipid = 0 THEN Dacs!applyAll(dacs, ports)
                    ELSE Dacs!setChipFsr(ports[chipid], dacs[chipid])
<1>1. PICK n \in Nat : ValuesOf(version, dacs, n) /\ PortsFor(ports, n)  BY DEF SentInv
<1>2. DOMAIN dacs = 1 .. n /\ Len(dacs) = n  BY <1>1 DEF ValuesOf
<1>3. chipid \in 1 .. n \cup {0} /\ UNCHANGED <<version, dacs, ports>>
  BY <1>2 DEF Dacs!ApplyChipDacs, Dacs!Chips
<1>4. PICK k \in 0 .. Len(steps) :
        /\ fsr' = Dacs!Written(steps, k)
        /\ synced' = (synced \ {cs[j] : j \in DOMAIN cs}) \cup Dacs!Reached(cs, k)
  BY DEF Dacs!ApplyChipDacs, Dacs!Chips
<1>5. DOMAIN fsr = 0 .. 4 /\ DOMAIN fsr' = 0 .. 4  BY <1>4, WrittenPorts DEF SentInv
<1>6. \A c \in synced : c \in 1 .. n /\ fsr[ports[c]] = Dacs!Packed(dacs[c])
  BY <1>2 DEF SentInv
<1>7. ASSUME NEW c \in synced' PROVE c \in 1 .. n /\ fsr'[ports[c]] = Dacs!Packed(dacs[c])
  <2>1. CASE chipid = 0
    <3>1. steps = Dacs!applyAll(dacs, ports) /\ cs = [j \in 1 .. n |-> j]  BY <1>2, <2>1
    <3>2. c \in 1 .. n /\ 2 * c <= k - 0
      <4> HIDE DEF cs
      <4>1. {cs[j] : j \in DOMAIN cs} = 1 .. n  BY <3>1
      <4>2. c \in Dacs!Reached(cs, k)  BY <1>4, <1>6, <4>1
      <4>3. \E j \in 1 .. n : 2 * j <= k /\ c = j  BY <3>1, <4>2 DEF Dacs!Reached
      <4> QED  BY <4>3
    <3>3. k \in 0 .. 0 + 2 * n  BY <1>2, <3>1, ApplyAllIs
    <3>4. Follow(Dacs!applyAll(dacs, ports), Dacs!applyAll(dacs, ports), 0, n)  BY DEF Follow
    <3>5. Dacs!Written(steps, k)[ports[c]] = Dacs!Packed(dacs[c])
      BY <1>1, <1>2, <1>5, <3>1, <3>2, <3>3, <3>4, ApplyAllWrites
    <3> QED  BY <1>4, <3>2, <3>5
  <2>2. CASE chipid # 0
    <3>1. steps = Dacs!setChipFsr(ports[chipid], dacs[chipid]) /\ cs = <<chipid>>
          /\ chipid \in 1 .. n
      BY <1>3, <2>2
    <3>2. /\ steps[1].port = ports[chipid] /\ steps[2].port = ports[chipid]
          /\ steps[2].sent = Dacs!Packed(dacs[chipid]) /\ Len(steps) = 2
      BY <3>1 DEF Dacs!setChipFsr
    <3>3. DOMAIN cs = {1} /\ cs[1] = chipid  BY <3>1
    <3> HIDE DEF steps, cs
    <3>4. CASE c = chipid
      <4>1. k = 2  BY <1>4, <3>2, <3>3, <3>4 DEF Dacs!Reached
      <4>2. ports[c] \in DOMAIN fsr  BY <1>1, <1>5, <3>1, <3>4, PortsAre
      <4>3. 2 \in 1 .. k /\ k \in Nat /\ \A i \in 2 + 1 .. k : steps[i].port # ports[c]
        BY <4>1
      <4>4. Dacs!Written(steps, k)[ports[c]] = steps[2].sent
        BY <3>2, <3>4, <4>2, <4>3, LastWrite
      <4> QED  BY <1>4, <3>1, <3>2, <3>4, <4>4
    <3>5. CASE c # chipid
      <4>1. c \in synced  BY <1>4, <3>3, <3>5 DEF Dacs!Reached
      <4>2. c \in 1 .. n /\ fsr[ports[c]] = Dacs!Packed(dacs[c])  BY <1>6, <4>1
      <4>3. ports[c] \in DOMAIN fsr /\ ports[chipid] # ports[c]
        BY <1>1, <1>5, <3>1, <3>5, <4>2, PortsAre
      <4>4. k \in Nat /\ \A i \in 1 .. k : i = 1 \/ i = 2  BY <3>2
      <4>5. \A i \in 1 .. k : steps[i].port # ports[c]  BY <3>2, <4>3, <4>4
      <4>6. Dacs!Written(steps, k)[ports[c]] = fsr[ports[c]]  BY <4>3, <4>4, <4>5, NoWrite
      <4> QED  BY <1>4, <4>2, <4>6
    <3> QED  BY <3>4, <3>5
  <2> QED  BY <2>1, <2>2
<1> QED  BY <1>1, <1>2, <1>3, <1>5, <1>7 DEF SentInv

LEMMA ResetKeeps ==
  ASSUME SentInv, Dacs!Reset
  PROVE  SentInv'
<1>1. PICK n \in Nat : ValuesOf(version, dacs, n) /\ PortsFor(ports, n)  BY DEF SentInv
<1>2. DOMAIN dacs = 1 .. n  BY <1>1 DEF ValuesOf
<1>3. /\ dacs' = [c \in 1 .. n |-> Dacs!NoDacs] /\ synced' = {} /\ UNCHANGED <<version, ports, fsr>>
      /\ dacs # <<>>
  BY <1>2 DEF Dacs!Reset, Dacs!Chips, Dacs!m_default
<1>4. ValuesOf(version, dacs', n)
  <2>1. dacs' = [c \in 1 .. n |-> dacs'[c]]  BY <1>3
  <2>2. \A c \in 1 .. n : DOMAIN dacs'[c] = {}  BY <1>3 DEF Dacs!NoDacs
  <2> QED  BY <2>1, <2>2, ListOf DEF ValuesOf
<1> QED  BY <1>1, <1>3, <1>4 DEF SentInv

LEMMA SentStep == SentInv /\ [Dacs!Next]_dacsVars => SentInv'
<1> SUFFICES ASSUME SentInv, [Dacs!Next]_dacsVars PROVE SentInv'  OBVIOUS
<1>1. ASSUME NEW d \in Detectors, Dacs!LoadRefused(d) PROVE SentInv'
  <2>1. Dacs!Instance(d) \in DOMAIN Dacs!Tables /\ (dacs # <<>> => Dacs!Instance(d) = version)
    <3>1. Dacs!NoVersion \notin DOMAIN Dacs!Tables  BY DEF Dacs!NoVersion, Dacs!Tables
    <3> QED  BY <3>1, DacsAssumption DEF SentInv, Dacs!Instance, Dacs!DetectorsAssumption
  <2>2. version' = Dacs!Instance(d) /\ UNCHANGED <<dacs, ports, fsr, synced>>
    BY <1>1 DEF Dacs!LoadRefused
  <2>3. PICK n \in Nat : ValuesOf(version, dacs, n) /\ PortsFor(ports, n)  BY DEF SentInv
  <2>4. ValuesOf(version', dacs, n)
    <3>1. CASE dacs # <<>>  BY <2>1, <2>2, <2>3, <3>1
    <3>2. CASE dacs = <<>>
      <4>1. n = 0  BY <2>3, <3>2 DEF ValuesOf
      <4> QED  BY <2>3, <4>1 DEF ValuesOf
    <3> QED  BY <3>1, <3>2
  <2> QED  BY <2>1, <2>2, <2>3, <2>4 DEF SentInv
<1>2. CASE UNCHANGED dacsVars
  BY <1>2 DEF SentInv, dacsVars, ValuesOf
<1> QED
  BY <1>1, <1>2, LoadKeeps, SetEnergyKeeps, SetOneDacKeeps, SetDacsKeeps, ApplyKeeps, ResetKeeps
     DEF Dacs!Next

LEMMA SentHolds == ChipsSpec => []SentInv
<1>1. ChipsInit => SentInv  BY SentInit DEF ChipsInit
<1>2. SentInv /\ [ChipsNext]_chipsVars => SentInv'
  <2>1. [ChipsNext]_chipsVars => [Dacs!Next]_dacsVars  BY DEF ChipsNext, chipsVars, dacsVars
  <2> QED  BY <2>1, SentStep
<1> QED  BY <1>1, <1>2, PTL DEF ChipsSpec

\* The register of a chip written since its values were set has each value in
\* its own bits, on the chip's own port, for any detectors, any settings and any
\* access that fails.
THEOREM RegistersHold == ChipsSpec => []FsrHolds
<1>1. ASSUME SentInv PROVE FsrHolds
  <2> SUFFICES ASSUME NEW c \in synced, NEW key \in Dacs!listKeys(version, FALSE),
                      NEW i \in DOMAIN Dacs!Bits(version, key)
               PROVE  Dacs!InFsr(version, key, i, Dacs!Register(ports[c]))
                        <=> key \in DOMAIN dacs[c] /\ Dacs!BitOf(dacs[c][key], i - 1)
    BY DEF FsrHolds, Dacs!FsrHolds
  <2>1. PICK n \in Nat : ValuesOf(version, dacs, n)  BY <1>1 DEF SentInv
  <2>2. c \in 1 .. n /\ fsr[ports[c]] = Dacs!Packed(dacs[c])
    BY <1>1, <2>1 DEF SentInv, ValuesOf
  <2>3. dacs # <<>>  BY <2>1, <2>2 DEF ValuesOf
  <2>4. version \in DOMAIN Tables  BY <1>1, <2>3, SameFsr DEF SentInv
  <2>5. DOMAIN dacs[c] \subseteq DOMAIN Tables[version].fsrKeys
        /\ key \in DOMAIN Tables[version].fsrKeys
    BY <2>1, <2>2, ListKeys, SameFsr DEF ValuesOf
  <2>6. Dacs!Register(ports[c]) = FsrString(version, dacs[c])
    BY <2>2, SameFsr DEF Dacs!Register, Dacs!Packed
  <2>7. i \in DOMAIN Bits(version, key)  BY SameFsr
  <2>8. InFsr(version, key, i, FsrString(version, dacs[c]))
          <=> key \in DOMAIN dacs[c] /\ BitOf(dacs[c][key], i - 1)
    BY <2>4, <2>5, <2>7, RegisterHolds
  <2> QED  BY <2>6, <2>8, SameFsr
<1> QED  BY <1>1, SentHolds, PTL

\* What is read for all the chips is what the register of each would have.
THEOREM ReadersAreRight == ChipsSpec => []ReadersAgree
<1>1. ASSUME SentInv PROVE ReadersAgree
  <2> SUFFICES ASSUME dacs # <<>>
               PROVE  /\ \A c \in DOMAIN dacs : \A key \in DOMAIN Dacs!getDacs :
                           \A i \in DOMAIN Dacs!Bits(version, key) :
                             Dacs!InFsr(version, key, i, Dacs!FsrString(version, dacs[c]))
                               <=> Dacs!BitOf(Dacs!getDacs[key], i - 1)
                      /\ \A key \in Dacs!listKeys(version, FALSE) : Dacs!getOneDac(key) # -1 =>
                           key \in DOMAIN Dacs!getDacs /\ Dacs!getDacs[key] = Dacs!getOneDac(key)
    BY DEF ReadersAgree, Dacs!ReadersAgree, Dacs!Chips
  <2>1. PICK n \in Nat : ValuesOf(version, dacs, n)  BY <1>1 DEF SentInv
  <2>2. version \in DOMAIN Tables  BY <1>1, SameFsr DEF SentInv
  <2>3. DOMAIN dacs = 1 .. n /\ 1 \in 1 .. n
    <3>1. n # 0  BY <2>1 DEF ValuesOf
    <3> QED  BY <2>1, <3>1 DEF ValuesOf
  <2>4. /\ DOMAIN Dacs!getDacs = {key \in DOMAIN dacs[1] : Dacs!Agree(key)}
        /\ \A key \in DOMAIN Dacs!getDacs : Dacs!getDacs[key] = dacs[1][key]
    BY DEF Dacs!getDacs
  <2>5. ASSUME NEW c \in 1 .. n, NEW key \in DOMAIN Dacs!getDacs, NEW i \in DOMAIN Bits(version, key)
        PROVE  InFsr(version, key, i, FsrString(version, dacs[c])) <=> BitOf(dacs[1][key], i - 1)
    <3>1. DOMAIN dacs[c] \subseteq DOMAIN Tables[version].fsrKeys
          /\ DOMAIN dacs[1] \subseteq DOMAIN Tables[version].fsrKeys
      BY <2>1, <2>3, ListKeys, SameFsr DEF ValuesOf
    <3>2. key \in DOMAIN dacs[1] /\ key \in DOMAIN Tables[version].fsrKeys  BY <2>4, <3>1
    <3>3. InFsr(version, key, i, FsrString(version, dacs[c]))
            <=> key \in DOMAIN dacs[c] /\ BitOf(dacs[c][key], i - 1)
      BY <2>2, <3>1, <3>2, RegisterHolds
    <3>4. c # 1 => dacs[1][key] = IF key \in DOMAIN dacs[c] THEN dacs[c][key] ELSE 0
      BY <2>3, <2>4 DEF Dacs!Agree, Dacs!Chips
    <3>5. i - 1 \in 0 .. 31
      <4>1. OwnBits(version)  BY <2>2, TypesOwnBits
      <4>2. i \in 1 .. 32  BY <3>2, <4>1 DEF OwnBits
      <4> QED  BY <4>2
    <3>6. ~ BitOf(0, i - 1)  BY <3>5, NoBitOf0
    <3> QED  BY <3>2, <3>3, <3>4, <3>6
  <2>6. ASSUME NEW key, Dacs!getOneDac(key) # -1
        PROVE  key \in DOMAIN Dacs!getDacs /\ dacs[1][key] = Dacs!getOneDac(key)
    <3>1. Dacs!getOneDac(key) = Dacs!OneDac(1, key)
          /\ \A c \in 1 .. n : Dacs!OneDac(c, key) = Dacs!OneDac(1, key)
      BY <2>3, <2>6 DEF Dacs!getOneDac, Dacs!Chips
    <3>2. \A c \in 1 .. n : key \in DOMAIN dacs[c] /\ dacs[c][key] = Dacs!OneDac(1, key)
      BY <2>6, <3>1 DEF Dacs!OneDac
    <3>3. Dacs!Agree(key)  BY <2>3, <3>2 DEF Dacs!Agree, Dacs!Chips
    <3> QED  BY <2>3, <2>4, <3>1, <3>2, <3>3
  <2> QED  BY <2>3, <2>4, <2>5, <2>6, SameFsr
<1> QED  BY <1>1, SentHolds, PTL

(***************************************************************************)
(* The energy: the chip's field has the bits of its threshold, and the     *)
(* threshold is on the line through the points of the calibration.         *)
(***************************************************************************)
\* The low bits of a number, one bit more at a time.
LEMMA LowBits ==
  ASSUME NEW val \in Nat
  PROVE  /\ (val % (2 ^ 1)) = (val % (2 ^ 0)) + IF BitOf(val, 0) THEN 2 ^ 0 ELSE 0
         /\ (val % (2 ^ 2)) = (val % (2 ^ 1)) + IF BitOf(val, 1) THEN 2 ^ 1 ELSE 0
         /\ (val % (2 ^ 3)) = (val % (2 ^ 2)) + IF BitOf(val, 2) THEN 2 ^ 2 ELSE 0
         /\ (val % (2 ^ 4)) = (val % (2 ^ 3)) + IF BitOf(val, 3) THEN 2 ^ 3 ELSE 0
         /\ (val % (2 ^ 5)) = (val % (2 ^ 4)) + IF BitOf(val, 4) THEN 2 ^ 4 ELSE 0
         /\ (val % (2 ^ 6)) = (val % (2 ^ 5)) + IF BitOf(val, 5) THEN 2 ^ 5 ELSE 0
         /\ (val % (2 ^ 7)) = (val % (2 ^ 6)) + IF BitOf(val, 6) THEN 2 ^ 6 ELSE 0
         /\ (val % (2 ^ 8)) = (val % (2 ^ 7)) + IF BitOf(val, 7) THEN 2 ^ 7 ELSE 0
         /\ (val % (2 ^ 9)) = (val % (2 ^ 8)) + IF BitOf(val, 8) THEN 2 ^ 8 ELSE 0
         /\ (val % (2 ^ 10)) = (val % (2 ^ 9)) + IF BitOf(val, 9) THEN 2 ^ 9 ELSE 0
         /\ (val % (2 ^ 11)) = (val % (2 ^ 10)) + IF BitOf(val, 10) THEN 2 ^ 10 ELSE 0
         /\ (val % (2 ^ 12)) = (val % (2 ^ 11)) + IF BitOf(val, 11) THEN 2 ^ 11 ELSE 0
         /\ (val % (2 ^ 13)) = (val % (2 ^ 12)) + IF BitOf(val, 12) THEN 2 ^ 12 ELSE 0
         /\ (val % (2 ^ 14)) = (val % (2 ^ 13)) + IF BitOf(val, 13) THEN 2 ^ 13 ELSE 0
BY DEF BitOf

\* The same for any bit.
LEMMA OneBitMore ==
  ASSUME NEW val \in Nat, NEW n \in 1 .. 14
  PROVE  (val % (2 ^ n)) = (val % (2 ^ (n - 1))) + IF BitOf(val, n - 1) THEN 2 ^ (n - 1) ELSE 0
<1>1. \/ n = 1 \/ n = 2 \/ n = 3 \/ n = 4 \/ n = 5 \/ n = 6 \/ n = 7
      \/ n = 8 \/ n = 9 \/ n = 10 \/ n = 11 \/ n = 12 \/ n = 13 \/ n = 14
  OBVIOUS
<1>2. CASE n = 1  BY <1>2, LowBits
<1>3. CASE n = 2  BY <1>3, LowBits
<1>4. CASE n = 3  BY <1>4, LowBits
<1>5. CASE n = 4  BY <1>5, LowBits
<1>6. CASE n = 5  BY <1>6, LowBits
<1>7. CASE n = 6  BY <1>7, LowBits
<1>8. CASE n = 7  BY <1>8, LowBits
<1>9. CASE n = 8  BY <1>9, LowBits
<1>10. CASE n = 9  BY <1>10, LowBits
<1>11. CASE n = 10  BY <1>11, LowBits
<1>12. CASE n = 11  BY <1>12, LowBits
<1>13. CASE n = 12  BY <1>13, LowBits
<1>14. CASE n = 13  BY <1>14, LowBits
<1>15. CASE n = 14  BY <1>15, LowBits
<1> QED
  BY <1>1, <1>2, <1>3, <1>4, <1>5, <1>6, <1>7, <1>8, <1>9, <1>10, <1>11, <1>12, <1>13, <1>14, <1>15

\* The bits of a field are those of a number.
HasBits(v, key, register, m, val) ==
  /\ Len(Dacs!Bits(v, key)) = m
  /\ \A i \in 1 .. m : Dacs!InFsr(v, key, i, register) <=> BitOf(val, i - 1)

\* A field of up to 14 bits that has those of a number reads as its low bits.
LEMMA FieldHas ==
  ASSUME NEW v, NEW key, NEW register, NEW val \in Nat,
         NEW m \in 0 .. 14, HasBits(v, key, register, m, val)
  PROVE  Dacs!FieldOf(v, key, register) = val % (2 ^ m)
<1> DEFINE G(f) == [n \in 0 .. m |->
             IF n = 0 THEN 0
             ELSE f[n - 1] + IF Dacs!InFsr(v, key, n, register) THEN 2 ^ (n - 1) ELSE 0]
           g   == [n \in 0 .. m |-> val % (2 ^ n)]
           low == CHOOSE f : f = G(f)
<1>1. Dacs!FieldOf(v, key, register) = low[m]  BY DEF Dacs!FieldOf, HasBits
<1>2. val % (2 ^ 0) = 0  OBVIOUS
<1>3. ASSUME NEW n \in 1 .. m
      PROVE  (val % (2 ^ n)) = (val % (2 ^ (n - 1)))
                               + IF Dacs!InFsr(v, key, n, register) THEN 2 ^ (n - 1) ELSE 0
  <2>1. n \in 1 .. 14  OBVIOUS
  <2> QED  BY <2>1, OneBitMore DEF HasBits
<1>4. g = G(g)
  <2>1. ASSUME NEW n \in 0 .. m PROVE g[n] = G(g)[n]
    <3>1. CASE n = 0  BY <1>2, <3>1
    <3>2. CASE n # 0  
      <4>1. n \in 1 .. m /\ n - 1 \in 0 .. m /\ g[n - 1] = val % (2 ^ (n - 1))  BY <3>2
      <4> QED  BY <1>3, <3>2, <4>1
    <3> QED  BY <3>1, <3>2
  <2> QED  BY <2>1
<1>5. low = G(low)
  <2>1. \E f : f = G(f)  BY <1>4
  <2> HIDE DEF G
  <2> QED  BY <2>1
<1> HIDE DEF low
<1>6. low[0] = 0  BY <1>5
<1>7. \A n \in 1 .. m : low[n] = low[n - 1] + IF Dacs!InFsr(v, key, n, register) THEN 2 ^ (n - 1) ELSE 0
  <2> SUFFICES ASSUME NEW n \in 1 .. m
               PROVE  low[n] = low[n - 1] + IF Dacs!InFsr(v, key, n, register) THEN 2 ^ (n - 1) ELSE 0
    OBVIOUS
  <2>1. n \in 0 .. m /\ n # 0  OBVIOUS
  <2>2. low[n] = G(low)[n]  BY <1>5
  <2> QED  BY <2>1, <2>2
<1> DEFINE P(n) == n \in 0 .. m => low[n] = val % (2 ^ n)
<1>8. P(0)  BY <1>2, <1>6
<1>9. ASSUME NEW n \in 1 .. 14, P(n - 1) PROVE P(n)
  <2>1. n \in 0 .. m => n \in 1 .. m /\ n - 1 \in 0 .. m  OBVIOUS
  <2> QED  BY <1>3, <1>7, <1>9, <2>1
<1> HIDE DEF P
<1>10. P(1)  BY <1>8, <1>9

<1>11. P(2)  BY <1>10, <1>9
<1>12. P(3)  BY <1>11, <1>9
<1>13. P(4)  BY <1>12, <1>9
<1>14. P(5)  BY <1>13, <1>9
<1>15. P(6)  BY <1>14, <1>9
<1>16. P(7)  BY <1>15, <1>9
<1>17. P(8)  BY <1>16, <1>9
<1>18. P(9)  BY <1>17, <1>9
<1>19. P(10)  BY <1>18, <1>9
<1>20. P(11)  BY <1>19, <1>9
<1>21. P(12)  BY <1>20, <1>9
<1>22. P(13)  BY <1>21, <1>9
<1>23. P(14)  BY <1>22, <1>9
<1>24. P(m)
  <2>1. \/ m = 0 \/ m = 1 \/ m = 2 \/ m = 3 \/ m = 4 \/ m = 5 \/ m = 6 \/ m = 7
        \/ m = 8 \/ m = 9 \/ m = 10 \/ m = 11 \/ m = 12 \/ m = 13 \/ m = 14
    OBVIOUS
  <2> QED
    BY <1>8, <1>10, <1>11, <1>12, <1>13, <1>14, <1>15, <1>16, <1>17, <1>18, <1>19, <1>20,
       <1>21, <1>22, <1>23, <2>1, Zenon
<1> QED  BY <1>1, <1>24 DEF P

\* The field of the threshold: 14 bits, 8 for MPX2.
LEMMA ThlBits ==
  ASSUME NEW v \in DOMAIN Tables
  PROVE  /\ "thl" \in DOMAIN Tables[v].fsrKeys
         /\ \E m \in {8, 14} : /\ Len(Bits(v, "thl")) = m
                               /\ DOMAIN Bits(v, "thl") = 1 .. m
<1>0. "thl" \in DOMAIN Tables[v].fsrKeys  BY ListKeys, SameFsr
<1>1. v \in {"TPX1", "MPX2", "MXR2"}  BY DEF Tables
<1>2. ASSUME NEW a \in Nat, NEW b \in Nat, a <= b, NEW m, m = b - a + 1
      PROVE  Len(Field(a, b)) = m /\ DOMAIN Field(a, b) = 1 .. m
  <2>1. m \in Nat /\ Field(a, b) = [c \in 1 .. m |-> Field(a, b)[c]]  BY <1>2 DEF Field
  <2> QED  BY <2>1, ListOf
<1>3. CASE v = "TPX1"
  <2>1. Bits(v, "thl") = Field(100, 113)  BY <1>3 DEF Bits, Tables, initTPX1
  <2>3. 100 \in Nat /\ 113 \in Nat /\ 100 <= 113 /\ 14 = 113 - 100 + 1  OBVIOUS
  <2>4. Len(Field(100, 113)) = 14 /\ DOMAIN Field(100, 113) = 1 .. 14  BY <1>2, <2>3, Zenon
  <2> QED  BY <1>0, <2>1, <2>4
<1>4. CASE v = "MPX2"
  <2>1. Bits(v, "thl") = Field(123, 130)  BY <1>4 DEF Bits, Tables, initMPX2
  <2>3. 123 \in Nat /\ 130 \in Nat /\ 123 <= 130 /\ 8 = 130 - 123 + 1  OBVIOUS
  <2>4. Len(Field(123, 130)) = 8 /\ DOMAIN Field(123, 130) = 1 .. 8  BY <1>2, <2>3, Zenon
  <2> QED  BY <1>0, <2>1, <2>4
<1>5. CASE v = "MXR2"
  <2>1. Bits(v, "thl") = Field(99, 112)  BY <1>5 DEF Bits, Tables, initMXR2
  <2>3. 99 \in Nat /\ 112 \in Nat /\ 99 <= 112 /\ 14 = 112 - 99 + 1  OBVIOUS
  <2>4. Len(Field(99, 112)) = 14 /\ DOMAIN Field(99, 112) = 1 .. 14  BY <1>2, <2>3, Zenon
  <2> QED  BY <1>0, <2>1, <2>4
<1> QED  BY <1>1, <1>3, <1>4, <1>5

\* The value of the thl field of a register for some values.
LEMMA ThlRead ==
  ASSUME NEW v \in DOMAIN Tables, NEW data, DOMAIN data \subseteq DOMAIN Tables[v].fsrKeys,
         "thl" \in DOMAIN data, data["thl"] \in 0 .. 2 ^ Len(Bits(v, "thl")) - 1
  PROVE  Dacs!FieldOf(v, "thl", FsrString(v, data)) = data["thl"]
<1>1. PICK m \in {8, 14} : Len(Bits(v, "thl")) = m /\ DOMAIN Bits(v, "thl") = 1 .. m
  BY ThlBits
<1>2. \A i \in 1 .. m : InFsr(v, "thl", i, FsrString(v, data)) <=> BitOf(data["thl"], i - 1)
  BY <1>1, ThlBits, RegisterHolds
<1>3. data["thl"] \in Nat /\ data["thl"] < 2 ^ m
  <2>1. 2 ^ 8 = 256 /\ 2 ^ 14 = 16384  OBVIOUS
  <2> QED  BY <1>1, <2>1
<1>4. Dacs!FieldOf(v, "thl", FsrString(v, data)) = data["thl"] % (2 ^ m)
  <2>1. HasBits(v, "thl", FsrString(v, data), m, data["thl"])  BY <1>1, <1>2, SameFsr DEF HasBits
  <2>2. m \in 0 .. 14 /\ data["thl"] \in Nat  BY <1>3
  <2> QED  BY <2>1, <2>2, FieldHas
<1>5. data["thl"] % (2 ^ m) = data["thl"]
  <2>1. 2 ^ 8 = 256 /\ 2 ^ 14 = 16384  OBVIOUS
  <2>2. CASE m = 8  BY <1>3, <2>1, <2>2
  <2>3. CASE m = 14  BY <1>3, <2>1, <2>3
  <2> QED  BY <1>1, <2>2, <2>3
<1> QED  BY <1>4, <1>5

LEMMA Times ==
  ASSUME NEW a \in Int, NEW b \in Int, a <= b, NEW c \in Nat
  PROVE  a * c <= b * c
<1>1. (b - a) * c >= 0  OBVIOUS
<1>2. b * c = a * c + (b - a) * c  OBVIOUS
<1>3. a * c \in Int /\ b * c \in Int /\ (b - a) * c \in Int  OBVIOUS
<1> QED  BY <1>1, <1>2, <1>3

\* A quotient is between the bounds its dividend is between.
LEMMA QuotientBetween ==
  ASSUME NEW a \in Nat, NEW k \in Nat \ {0}, NEW lo \in Int, NEW hi \in Int,
         lo * k <= a, a <= hi * k
  PROVE  a \div k \in Nat /\ lo <= a \div k /\ a \div k <= hi
<1> DEFINE q == a \div k
           r == a % k
<1>1. q \in Nat /\ r \in Nat /\ r < k /\ a = k * q + r  OBVIOUS
<1> HIDE DEF q, r
<1>2. lo <= q
  <2> SUFFICES ASSUME q + 1 <= lo PROVE FALSE  BY <1>1
  <2>1. (q + 1) * k <= lo * k  BY <1>1, Times
  <2>2. (q + 1) * k = k * q + k  BY <1>1
  <2>3. k * q \in Int /\ lo * k \in Int  BY <1>1
  <2> QED  BY <1>1, <2>1, <2>2, <2>3
<1>3. q <= hi
  <2> SUFFICES ASSUME hi + 1 <= q PROVE FALSE  BY <1>1
  <2>1. (hi + 1) * k <= q * k  BY <1>1, Times
  <2>2. (hi + 1) * k = hi * k + k /\ q * k = k * q  BY <1>1
  <2>3. k * q \in Int /\ hi * k \in Int  BY <1>1
  <2> QED  BY <1>1, <2>1, <2>2, <2>3
<1> QED  BY <1>1, <1>2, <1>3 DEF q

\* The threshold between those of the calibration.
LEMMA ThresholdBetween ==
  ASSUME NEW c, NEW k, NEW energy \in 0 .. k.calib, k.calib \in Nat \ {0},
         NEW noise \in Int, NEW xray \in Int, k.noise[c] = noise, k.xray[c] = xray,
         NEW lo \in Nat, NEW hi \in Int,
         lo <= noise, noise <= hi, lo <= xray, xray <= hi
  PROVE  /\ Dacs!Threshold(c, energy, k) \in lo .. hi
         /\ energy = 0 => Dacs!Threshold(c, energy, k) = noise
         /\ energy = k.calib => Dacs!Threshold(c, energy, k) = xray
<1> DEFINE n == k.calib
           a == noise * n + (xray - noise) * energy
<1>1. n \in Nat \ {0} /\ energy \in 0 .. n  OBVIOUS
<1>2. Dacs!Threshold(c, energy, k) = Dacs!Truncated(a, n)  BY DEF Dacs!Threshold
<1> HIDE DEF n
<1>3. a = noise * (n - energy) + xray * energy
  BY <1>1
<1> HIDE DEF a
<1>4. n - energy \in Nat /\ energy \in Nat  BY <1>1
<1>5. ASSUME NEW x \in Int, NEW y \in Int, x <= noise, x <= xray, noise <= y, xray <= y
      PROVE  x * n <= a /\ a <= y * n
  <2>1. x * (n - energy) <= noise * (n - energy) /\ x * energy <= xray * energy
    BY <1>4, <1>5, Times
  <2>2. noise * (n - energy) <= y * (n - energy) /\ xray * energy <= y * energy
    BY <1>4, <1>5, Times
  <2>3. x * n = x * (n - energy) + x * energy /\ y * n = y * (n - energy) + y * energy
    BY <1>1, <1>4
  <2>4. /\ x * (n - energy) \in Int /\ x * energy \in Int /\ y * (n - energy) \in Int
        /\ y * energy \in Int /\ noise * (n - energy) \in Int /\ xray * energy \in Int
    BY <1>1, <1>4
  <2> QED  BY <1>3, <2>1, <2>2, <2>3, <2>4
<1>6. lo * n <= a /\ a <= hi * n  BY <1>5
<1>7. a \in Nat
  <2>1. 0 <= lo * n /\ lo * n \in Int  BY <1>1
  <2>2. a \in Int  BY <1>3, <1>4
  <2> QED  BY <1>6, <2>1, <2>2
<1>8. Dacs!Threshold(c, energy, k) = a \div n  BY <1>2, <1>7 DEF Dacs!Truncated
<1>9. a \div n \in Nat /\ lo <= a \div n /\ a \div n <= hi
  <2>1. lo \in Int /\ n \in Nat \ {0}  BY <1>1
  <2> QED  BY <1>6, <1>7, <2>1, QuotientBetween
<1>10. energy = 0 => a \div n = noise
  <2> SUFFICES ASSUME energy = 0 PROVE a \div n = noise  OBVIOUS
  <2>1. a = noise * n  BY <1>1, <1>3
  <2>2. noise <= a \div n /\ a \div n <= noise  BY <1>1, <1>7, <2>1, QuotientBetween
  <2> QED  BY <1>9, <2>2
<1>11. energy = n => a \div n = xray
  <2> SUFFICES ASSUME energy = n PROVE a \div n = xray  OBVIOUS
  <2>1. a = xray * n  BY <1>1, <1>3
  <2>2. xray <= a \div n /\ a \div n <= xray  BY <1>1, <1>7, <2>1, QuotientBetween
  <2> QED  BY <1>9, <2>2
<1> QED  BY <1>8, <1>9, <1>10, <1>11 DEF n

\* Settings leave the values they are not of.
LEMMA OthersStay ==
  ASSUME NEW data, NEW key \in DOMAIN data, NEW list, \A i \in DOMAIN list : list[i][1] # key
  PROVE  key \in DOMAIN Dacs!WithDacs(data, list) /\ Dacs!WithDacs(data, list)[key] = data[key]
BY DEF Dacs!WithDacs

\* A setting is the value it gives.
LEMMA IsSet ==
  ASSUME NEW data, NEW key, NEW val
  PROVE  /\ key \in DOMAIN Dacs!WithDacs(data, << <<key, val>> >>)
         /\ Dacs!WithDacs(data, << <<key, val>> >>)[key] = val
<1> DEFINE list == << <<key, val>> >>
           is   == {i \in DOMAIN list : list[i][1] = key}
<1>1. DOMAIN list = {1} /\ list[1][1] = key /\ list[1][2] = val  OBVIOUS
<1> HIDE DEF list
<1>2. 1 \in is /\ \A i \in is : i \in Int /\ i <= 1  BY <1>1
<1>3. Dacs!Max(is) = 1 /\ is # {}  BY <1>2, MaxIsDacs
<1>4. key \in {list[i][1] : i \in DOMAIN list}  BY <1>1
<1> HIDE DEF is
<1>5. Dacs!WithDacs(data, list) =
        [k \in DOMAIN data \cup {list[i][1] : i \in DOMAIN list} |->
           LET s == {i \in DOMAIN list : list[i][1] = k}
           IN IF s = {} THEN data[k] ELSE list[Dacs!Max(s)][2]]
  BY DEF Dacs!WithDacs
<1>6. Dacs!WithDacs(data, list)[key] = list[Dacs!Max(is)][2] /\ key \in DOMAIN Dacs!WithDacs(data, list)
  BY <1>3, <1>4, <1>5 DEF is
<1> QED  BY <1>1, <1>3, <1>6 DEF list

\* Chip c of the values d has the threshold of an energy.
HasThreshold(d, c, energy, k) ==
  "thl" \in DOMAIN d[c] /\ d[c]["thl"] = Dacs!Threshold(c, energy, k)

\* setEnergy gives every chip the threshold of the energy.
LEMMA ThresholdsSet ==
  ASSUME NEW d, NEW energy, NEW k
  PROVE  /\ DOMAIN Dacs!AtEnergy(d, energy, k) = DOMAIN d
         /\ \A c \in DOMAIN d : HasThreshold(Dacs!AtEnergy(d, energy, k), c, energy, k)
<1> DEFINE thl(c) == <<"thl", Dacs!Threshold(c, energy, k)>>
<1>1. Dacs!AtEnergy(d, energy, k) = [c \in DOMAIN d |-> Dacs!WithDacs(d[c], <<thl(c)>>)]
  BY DEF Dacs!AtEnergy
<1>2. ASSUME NEW c \in DOMAIN d
      PROVE  HasThreshold(Dacs!AtEnergy(d, energy, k), c, energy, k)
  <2>1. Dacs!AtEnergy(d, energy, k)[c] = Dacs!WithDacs(d[c], <<thl(c)>>)  BY <1>1
  <2> QED  BY <2>1, IsSet DEF HasThreshold
<1> QED  BY <1>1, <1>2

\* The calibration is of the chips there are, and while the thresholds are
\* those of the energy, each chip's is that of the last one set.
Calibrated ==
  cal \in [noise : [DOMAIN dacs -> Int], xray : [DOMAIN dacs -> Int], calib : Int, last : Int]

\* The inductive invariant of EnergyIsApplied.
EnergyInv ==
  /\ Calibrated
  /\ byEnergy => \A c \in DOMAIN dacs : HasThreshold(dacs, c, cal.last, cal)

\* Before a detector is loaded there is no chip.
LEMMA EnergyInit == Dacs!Init => EnergyInv
<1> SUFFICES ASSUME Dacs!Init PROVE EnergyInv  OBVIOUS
<1>1. dacs = <<>> /\ cal = [noise |-> <<>>, xray |-> <<>>, calib |-> 0, last |-> 0] /\ ~byEnergy
  BY DEF Dacs!Init
<1>2. <<>> \in [DOMAIN <<>> -> Int]  OBVIOUS
<1> QED  BY <1>1, <1>2 DEF EnergyInv, Calibrated

\* The threshold does not depend on the energy set last.
LEMMA LastIsApart ==
  ASSUME Calibrated, NEW energy \in Int, NEW k, k = [cal EXCEPT !.last = energy]
  PROVE  /\ k \in [noise : [DOMAIN dacs -> Int], xray : [DOMAIN dacs -> Int],
                   calib : Int, last : Int]
         /\ k.last = energy /\ k.noise = cal.noise /\ k.xray = cal.xray /\ k.calib = cal.calib
         /\ \A c, e : Dacs!Threshold(c, e, k) = Dacs!Threshold(c, e, cal)
<1>1. /\ k \in [noise : [DOMAIN dacs -> Int], xray : [DOMAIN dacs -> Int],
                calib : Int, last : Int]
      /\ k.last = energy /\ k.noise = cal.noise /\ k.xray = cal.xray /\ k.calib = cal.calib
  BY DEF Calibrated
<1> QED  BY <1>1 DEF Dacs!Threshold

LEMMA SetEnergyThresholds ==
  ASSUME EnergyInv, NEW energy \in Energies, Dacs!SetEnergy(energy)
  PROVE  EnergyInv'
<1>1. dacs' = Dacs!AtEnergy(dacs, energy, cal) /\ cal' = [cal EXCEPT !.last = energy]
  BY DEF Dacs!SetEnergy
<1>2. energy \in Int  BY DacsAssumption DEF Dacs!DetectorsAssumption
<1>3. DOMAIN dacs' = DOMAIN dacs /\ \A c \in DOMAIN dacs : HasThreshold(dacs', c, energy, cal)
  BY <1>1, ThresholdsSet
<1>4. /\ Calibrated' /\ cal'.last = energy
      /\ \A c, e : Dacs!Threshold(c, e, cal') = Dacs!Threshold(c, e, cal)
  BY <1>1, <1>2, <1>3, LastIsApart DEF EnergyInv, Calibrated
<1> QED  BY <1>3, <1>4 DEF EnergyInv, HasThreshold

LEMMA LoadThresholds ==
  ASSUME EnergyInv, NEW d \in Detectors, Dacs!Load(d)
  PROVE  EnergyInv'
<1> DEFINE v     == Dacs!Instance(d)
           asked == Dacs!listKeys(v, TRUE)
           data  == [key \in DOMAIN Dacs!m_default(v) \cup asked |->
                       IF key \in asked THEN d.dacs[key] ELSE Dacs!m_default(v)[key]]
           read  == [c \in DOMAIN d.ports |-> data]
           k0    == [noise |-> d.noise, xray |-> d.xray, calib |-> d.calib, last |-> 0]
           warm  == Dacs!AtEnergy(read, d.energy, k0)
<1>1. \/ dacs' = read /\ cal' = k0 /\ ~byEnergy'
      \/ dacs' = warm /\ cal' = [k0 EXCEPT !.last = d.energy]
  BY DEF Dacs!Load
<1>2. /\ d.noise \in Seq(Int) /\ d.xray \in Seq(Int) /\ d.ports \in Seq(0 .. 4)
      /\ Len(d.noise) = Len(d.ports) /\ Len(d.xray) = Len(d.ports)
      /\ d.calib \in Int /\ d.energy \in Int
  BY DacsAssumption DEF Dacs!DetectorsAssumption
<1>3. DOMAIN read = DOMAIN d.ports  OBVIOUS
<1> HIDE DEF read
<1>4. d.noise \in [DOMAIN read -> Int] /\ d.xray \in [DOMAIN read -> Int]
  <2>1. DOMAIN read = 1 .. Len(d.noise) /\ DOMAIN read = 1 .. Len(d.xray)  BY <1>2, <1>3
  <2> QED  BY <1>2, <2>1
<1>5. DOMAIN warm = DOMAIN read /\ \A c \in DOMAIN read : HasThreshold(warm, c, d.energy, k0)
  BY ThresholdsSet
<1> HIDE DEF warm
<1>6. CASE dacs' = read /\ cal' = k0 /\ ~byEnergy'
  BY <1>2, <1>4, <1>6 DEF EnergyInv, Calibrated
<1>7. CASE dacs' = warm /\ cal' = [k0 EXCEPT !.last = d.energy]
  <2>1. cal' = [noise |-> d.noise, xray |-> d.xray, calib |-> d.calib, last |-> d.energy]
    BY <1>7
  <2>2. \A c, e : Dacs!Threshold(c, e, cal') = Dacs!Threshold(c, e, k0)
    BY <2>1 DEF Dacs!Threshold
  <2>3. Calibrated' /\ cal'.last = d.energy  BY <1>2, <1>4, <1>5, <1>7, <2>1 DEF Calibrated
  <2>4. \A c \in DOMAIN dacs' : HasThreshold(dacs', c, d.energy, cal')
    BY <1>5, <1>7, <2>2 DEF HasThreshold
  <2> QED  BY <2>3, <2>4 DEF EnergyInv
<1> QED  BY <1>1, <1>6, <1>7

\* Values of other keys may be set.
LEMMA OtherKeys ==
  ASSUME EnergyInv, cal' = cal, DOMAIN dacs' = DOMAIN dacs,
         byEnergy' => byEnergy,
         byEnergy' => \A c \in DOMAIN dacs : "thl" \in DOMAIN dacs[c] =>
                        "thl" \in DOMAIN dacs'[c] /\ dacs'[c]["thl"] = dacs[c]["thl"]
  PROVE  EnergyInv'
<1>1. Calibrated'  BY DEF EnergyInv, Calibrated
<1>2. ASSUME byEnergy', NEW c \in DOMAIN dacs PROVE HasThreshold(dacs', c, cal.last, cal)
  BY <1>2 DEF EnergyInv, HasThreshold
<1> QED  BY <1>1, <1>2 DEF EnergyInv

LEMMA SetOneDacThresholds ==
  ASSUME EnergyInv, NEW chipid, NEW setting, Dacs!SetOneDac(chipid, setting)
  PROVE  EnergyInv'
<1> DEFINE chips == Dacs!getChipIdx(chipid)
<1>1. /\ dacs' = [c \in DOMAIN dacs |-> IF c \in chips
                                        THEN Dacs!WithDacs(dacs[c], <<setting>>) ELSE dacs[c]]
      /\ cal' = cal /\ byEnergy' = (byEnergy /\ setting[1] # "thl")
  BY DEF Dacs!SetOneDac, Dacs!Chips
<1> HIDE DEF chips
<1>2. ASSUME byEnergy', NEW c \in DOMAIN dacs, "thl" \in DOMAIN dacs[c]
      PROVE  "thl" \in DOMAIN dacs'[c] /\ dacs'[c]["thl"] = dacs[c]["thl"]
  <2>1. \A i \in DOMAIN <<setting>> : <<setting>>[i][1] # "thl"
    BY <1>1, <1>2, OnlyOne, Zenon
  <2>2. /\ "thl" \in DOMAIN Dacs!WithDacs(dacs[c], <<setting>>)
        /\ Dacs!WithDacs(dacs[c], <<setting>>)["thl"] = dacs[c]["thl"]
    BY <1>2, <2>1, OthersStay
  <2>3. dacs'[c] = Dacs!WithDacs(dacs[c], <<setting>>) \/ dacs'[c] = dacs[c]  BY <1>1
  <2> QED  BY <1>2, <2>2, <2>3
<1> QED  BY <1>1, <1>2, OtherKeys

LEMMA SetDacsThresholds ==
  ASSUME EnergyInv, NEW chipid, NEW list, Dacs!SetDacs(chipid, list)
  PROVE  EnergyInv'
<1> DEFINE done == [i \in {i \in DOMAIN list : \A j \in 1 .. i : Dacs!Valid(list[j])} |-> list[i]]
           chips == IF DOMAIN done = DOMAIN list THEN Dacs!getChipIdx(chipid)
                    ELSE {IF chipid = 0 THEN 1 ELSE chipid}
<1>1. /\ dacs' = [c \in DOMAIN dacs |-> IF c \in chips
                                        THEN Dacs!WithDacs(dacs[c], done) ELSE dacs[c]]
      /\ cal' = cal /\ byEnergy' = (byEnergy /\ \A i \in DOMAIN done : done[i][1] # "thl")
  BY DEF Dacs!SetDacs, Dacs!Chips
<1> HIDE DEF chips, done
<1>2. ASSUME byEnergy', NEW c \in DOMAIN dacs, "thl" \in DOMAIN dacs[c]
      PROVE  "thl" \in DOMAIN dacs'[c] /\ dacs'[c]["thl"] = dacs[c]["thl"]
  <2>1. \A i \in DOMAIN done : done[i][1] # "thl"  BY <1>1, <1>2
  <2>2. /\ "thl" \in DOMAIN Dacs!WithDacs(dacs[c], done)
        /\ Dacs!WithDacs(dacs[c], done)["thl"] = dacs[c]["thl"]
    BY <1>2, <2>1, OthersStay
  <2>3. dacs'[c] = Dacs!WithDacs(dacs[c], done) \/ dacs'[c] = dacs[c]  BY <1>1
  <2> QED  BY <1>2, <2>2, <2>3
<1> QED  BY <1>1, <1>2, OtherKeys

LEMMA ResetThresholds ==
  ASSUME Dacs!Reset
  PROVE  EnergyInv'
<1>1. /\ dacs' = [c \in DOMAIN dacs |-> Dacs!m_default(version)] /\ ~byEnergy'
      /\ cal' = [noise |-> [c \in DOMAIN dacs |-> 0], xray |-> [c \in DOMAIN dacs |-> 0],
                 calib |-> 0, last |-> 0]
  BY DEF Dacs!Reset, Dacs!Chips
<1>2. DOMAIN dacs' = DOMAIN dacs /\ [c \in DOMAIN dacs |-> 0] \in [DOMAIN dacs -> Int]  BY <1>1
<1> QED  BY <1>1, <1>2 DEF EnergyInv, Calibrated

LEMMA EnergyStep == EnergyInv /\ [Dacs!Next]_dacsVars => EnergyInv'
<1> SUFFICES ASSUME EnergyInv, [Dacs!Next]_dacsVars PROVE EnergyInv'  OBVIOUS
<1>1. CASE UNCHANGED <<dacs, cal, byEnergy>>
  BY <1>1 DEF EnergyInv, Calibrated, HasThreshold
<1>2. ASSUME NEW d \in Detectors, Dacs!LoadRefused(d) PROVE EnergyInv'
  BY <1>1, <1>2 DEF Dacs!LoadRefused
<1>3. ASSUME NEW c, Dacs!ApplyChipDacs(c) PROVE EnergyInv'
  BY <1>1, <1>3 DEF Dacs!ApplyChipDacs
<1>4. CASE UNCHANGED dacsVars  BY <1>1, <1>4 DEF dacsVars
<1> QED
  BY <1>2, <1>3, <1>4, LoadThresholds, SetEnergyThresholds, SetOneDacThresholds,
     SetDacsThresholds, ResetThresholds DEF Dacs!Next

LEMMA EnergyHolds == ChipsSpec => []EnergyInv
<1>1. ChipsInit => EnergyInv  BY EnergyInit DEF ChipsInit
<1>2. EnergyInv /\ [ChipsNext]_chipsVars => EnergyInv'
  <2>1. [ChipsNext]_chipsVars => [Dacs!Next]_dacsVars  BY DEF ChipsNext, chipsVars, dacsVars
  <2> QED  BY <2>1, EnergyStep
<1> QED  BY <1>1, <1>2, PTL DEF ChipsSpec

\* Once an energy of the calibrated range is set and every chip written, the
\* threshold in the register of each chip is between the two measured for it,
\* whatever was set, applied, reset or failed before (setEnergy, getFsrString).
THEOREM EnergiesAreApplied == ChipsSpec => []EnergyIsApplied
<1>1. ASSUME SentInv, EnergyInv PROVE EnergyIsApplied
  <2> DEFINE lo(c) == IF cal.noise[c] < cal.xray[c] THEN cal.noise[c] ELSE cal.xray[c]
             hi(c) == IF cal.noise[c] < cal.xray[c] THEN cal.xray[c] ELSE cal.noise[c]
             thl(c) == Dacs!FieldOf(version, "thl", Dacs!Register(ports[c]))
  <2>1. SUFFICES ASSUME byEnergy, synced = DOMAIN dacs, cal.calib > 0, cal.last \in 0 .. cal.calib,
                        NEW c \in DOMAIN dacs, lo(c) >= 0, hi(c) <= Dacs!Widest("thl")
                 PROVE  /\ lo(c) <= thl(c) /\ thl(c) <= hi(c)
                        /\ cal.last = 0 => thl(c) = cal.noise[c]
                        /\ cal.last = cal.calib => thl(c) = cal.xray[c]
    BY DEF EnergyIsApplied, Dacs!EnergyIsApplied, Dacs!Chips
  <2>2. PICK n \in Nat : ValuesOf(version, dacs, n)  BY <1>1 DEF SentInv
  <2>3. c \in 1 .. n /\ fsr[ports[c]] = Dacs!Packed(dacs[c])
    BY <1>1, <2>1, <2>2 DEF SentInv, ValuesOf
  <2>4. dacs # <<>>  BY <2>2, <2>3 DEF ValuesOf
  <2>5. version \in DOMAIN Tables  BY <1>1, <2>4, SameFsr DEF SentInv
  <2>6. DOMAIN dacs[c] \subseteq DOMAIN Tables[version].fsrKeys
    BY <2>2, <2>3, ListKeys, SameFsr DEF ValuesOf
  <2>7. Dacs!Register(ports[c]) = FsrString(version, dacs[c])
    BY <2>3, SameFsr DEF Dacs!Register, Dacs!Packed
  <2>8. "thl" \in DOMAIN dacs[c] /\ dacs[c]["thl"] = Dacs!Threshold(c, cal.last, cal)
    BY <1>1, <2>1 DEF EnergyInv, HasThreshold
  <2>9. /\ cal.noise[c] \in Int /\ cal.xray[c] \in Int /\ cal.calib \in Nat \ {0}
        /\ lo(c) \in Nat /\ hi(c) \in Int
        /\ lo(c) <= cal.noise[c] /\ lo(c) <= cal.xray[c]
        /\ cal.noise[c] <= hi(c) /\ cal.xray[c] <= hi(c)
    <3>1. cal.noise[c] \in Int /\ cal.xray[c] \in Int /\ cal.calib \in Int
      BY <1>1 DEF EnergyInv, Calibrated
    <3> QED  BY <2>1, <3>1
  <2> HIDE DEF lo, hi
  <2>10. /\ dacs[c]["thl"] \in lo(c) .. hi(c)
         /\ cal.last = 0 => dacs[c]["thl"] = cal.noise[c]
         /\ cal.last = cal.calib => dacs[c]["thl"] = cal.xray[c]
    BY <2>1, <2>8, <2>9, ThresholdBetween
  <2>11. dacs[c]["thl"] \in 0 .. 2 ^ Len(Bits(version, "thl")) - 1
    <3>1. hi(c) <= 2 ^ Len(Bits(version, "thl")) - 1  BY <2>1, SameFsr DEF Dacs!Widest
    <3>2. 2 ^ Len(Bits(version, "thl")) \in Int
      <4>1. Len(Bits(version, "thl")) \in Nat  BY <2>5, ThlBits
      <4> QED  BY <4>1
    <3> QED  BY <2>9, <2>10, <3>1, <3>2
  <2>12. thl(c) = dacs[c]["thl"]
    BY <2>5, <2>6, <2>7, <2>8, <2>11, ThlRead
  <2> QED  BY <2>9, <2>10, <2>12
<1> QED  BY <1>1, SentHolds, EnergyHolds, PTL
=============================================================================
