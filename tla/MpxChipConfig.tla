--------------------------- MODULE MpxChipConfig ----------------------------
(***************************************************************************)
(* MpxChipConfig: the pixel matrices of the chips of a detector            *)
(* (MpxPixelConfig, one MpxPixelArray for each chip), the files they are   *)
(* loaded from and saved to, and the settings that write whole arrays.     *)
(*                                                                         *)
(* A file of a detector's configuration is found under its name and the    *)
(* number of the chip, an .edf before a .bpc.  A .bpc has one byte for a   *)
(* pixel, with the bits of the four arrays; an .edf four images of a byte  *)
(* for a pixel; a mask file one.                                           *)
(***************************************************************************)
EXTENDS PixelArray, FiniteSets

CONSTANTS Versions,    \* types of chip, among DOMAIN m_bit
          NChip,
          Single,      \* chips the methods of one chip are called for
          Names,       \* names of configurations
          GivenFiles,  \* the files there are at the start, by <<name, chip, ext>>
          Modes,       \* modes given to setTimePixMode, as sets of bits
          SaveExts,    \* kinds of files save is asked for: "bpc", "edf", "mask"
          MaxEdits,    \* bound: saves and settings of whole arrays
          HeaderSize   \* 1024

Exts   == {"bpc", "edf", "mask"}
Chips  == 1 .. NChip
FileIds == Names \X Chips \X Exts
NPix   == NRow * NCol

\* A file: its size in bytes, its images, and those of them with a header
\* that does end where one of HeaderSize would.  A .bpc has one image, "bpc",
\* its first NPix bytes.
FileOk(id, file) ==
  /\ file.size \in Nat /\ file.ended \subseteq Fields
  /\ id[3] = "bpc" /\ file.size >= NPix => file.images.bpc \in [Pixels -> Byte]
  /\ id[3] = "edf" => file.images \in Arrays
  /\ id[3] = "mask" => file.images.mask \in [Pixels -> Byte]

ASSUME FilesAssumption ==
  /\ Versions \subseteq DOMAIN m_bit
  /\ NChip \in Nat \ {0} /\ Single \subseteq Chips /\ MaxEdits \in Nat /\ HeaderSize \in Nat
  /\ SaveExts \subseteq Exts /\ Modes \subseteq SUBSET {0, 1}
  /\ DOMAIN GivenFiles \subseteq FileIds
  /\ \A id \in DOMAIN GivenFiles : FileOk(id, GivenFiles[id])

VARIABLES m_version,
          m_pixelArray,  \* the arrays of each chip
          files,         \* the files there are
          edits,         \* saves and settings so far
          written,       \* ghost: the arrays of the chip a file was saved from
          origin         \* ghost: the file a chip's arrays are still those of

vars == <<m_version, m_pixelArray, files, edits, written, origin>>

NoFile == <<"none">>

(***************************************************************************)
(* The arrays.  m_arrayDefs: the bits of an array in use, the same as the  *)
(* type's planes, and how far they are shifted in a byte of a .bpc.        *)
(***************************************************************************)
m_arrayMask(f) ==
  CASE f \in {"mask", "test"} -> {0}
    [] f = "low"  -> IF m_version = "TPX1" THEN {0, 1, 2, 3} ELSE {0, 1, 2}
    [] f = "high" -> IF m_version = "TPX1" THEN {0, 1} ELSE {0, 1, 2}

bpcShift(f) ==
  CASE f = "mask" -> 7 [] f = "test" -> 6 [] f = "low" -> 0
    [] f = "high" -> IF m_version = "TPX1" THEN 4 ELSE 3

ShiftLeft(bits, n)  == {b + n : b \in bits} \cap 0 .. 7
ShiftRight(bits, n) == {b - n : b \in {b \in bits : b >= n}}

ZeroArray == [p \in Pixels |-> {}]
Blank     == [f \in Fields |-> ZeroArray]

\* setArrayValue, and setArray, which adds to what is there.
setArrayValue(arrays, f, value) == [arrays EXCEPT ![f] = [p \in Pixels |-> value]]
setArray(arrays, f, data) == [arrays EXCEPT ![f] = [p \in Pixels |-> @[p] \cup data[p]]]

(***************************************************************************)
(* Files.                                                                  *)
(***************************************************************************)
BpcBytes(arrays) ==
  [p \in Pixels |-> UNION {ShiftLeft(arrays[f][p] \cap m_arrayMask(f), bpcShift(f)) : f \in Fields}]

\* What a save writes: the header of an .edf or of a mask file is put
\* together and not written.
Saved(arrays, ext) ==
  CASE ext = "bpc"  -> [size |-> NPix, ended |-> {}, images |-> [bpc |-> BpcBytes(arrays)]]
    [] ext = "edf"  -> [size |-> 4 * NPix, ended |-> {}, images |-> arrays]
    [] ext = "mask" -> [size |-> NPix, ended |-> {}, images |-> [mask |-> arrays.mask]]

FromBpc(data, f) == [p \in Pixels |-> ShiftRight(data[p], bpcShift(f)) \cap m_arrayMask(f)]

Refused(arrays) == [ok |-> FALSE, arrays |-> arrays]
Taken(arrays)   == [ok |-> TRUE,  arrays |-> arrays]

\* Mutant: the arrays are not reset before they are added to.
loadBpcAdds(arrays, file) ==
  IF file.size < NPix THEN Refused(arrays)
  ELSE Taken([f \in Fields |-> setArray(arrays, f, FromBpc(file.images.bpc, f))[f]])

\* As many bytes are read as there are pixels, before the arrays are reset: a
\* longer file is taken, and the rest of it left.
loadBpc(arrays, file) ==
  IF file.size < NPix THEN Refused(arrays)
  ELSE Taken([f \in Fields |-> setArray(Blank, f, FromBpc(file.images.bpc, f))[f]])

\* The place of an array's image in an .edf.
Index == [mask |-> 0, test |-> 1, low |-> 2, high |-> 3]

\* The arrays, reset, with the images up to the first whose header does end
\* where it should, which is refused.
ReadEdf(file) ==
  [f \in Fields |-> IF \A g \in file.ended : Index[f] < Index[g]
                   THEN setArray(Blank, f, file.images[f])[f] ELSE ZeroArray]

\* The size wanted is that of four headers for every pixel.
loadEdf(arrays, file) ==
  IF file.size # 4 * HeaderSize * NPix THEN Refused(arrays)
  ELSE IF file.ended # {} THEN Refused(ReadEdf(file))
  ELSE Taken(ReadEdf(file))

loadMask(arrays, file) ==
  LET clean == [arrays EXCEPT !.mask = ZeroArray]
  IN IF file.size # HeaderSize * NPix THEN Refused(arrays)
     ELSE IF file.ended # {} THEN Refused(clean)
     ELSE Taken(setArray(clean, "mask", file.images.mask))

\* An empty file is refused whatever its kind.
load(arrays, id) ==
  IF id \notin DOMAIN files \/ files[id].size = 0 THEN Refused(arrays)
  ELSE CASE id[3] = "bpc"  -> loadBpc(arrays, files[id])
         [] id[3] = "edf"  -> loadEdf(arrays, files[id])
         [] id[3] = "mask" -> Refused(arrays)   \* an unknown extension

(***************************************************************************)
(* MpxPixelArray: one chip.                                                *)
(***************************************************************************)
Edit == edits < MaxEdits /\ edits' = edits + 1

SetChip(c, arrays, from) ==
  /\ m_pixelArray' = [m_pixelArray EXCEPT ![c] = arrays]
  /\ origin' = [origin EXCEPT ![c] = from]
  /\ UNCHANGED <<m_version, files, written>>

Save(c, id) ==
  /\ Edit
  /\ files' = [i \in DOMAIN files \cup {id} |->
                 IF i = id THEN Saved(m_pixelArray[c], id[3]) ELSE files[i]]
  /\ written' = [i \in DOMAIN written \cup {id} |->
                   IF i = id THEN m_pixelArray[c] ELSE written[i]]
  /\ origin' = [k \in Chips |-> IF origin[k] = id THEN NoFile ELSE origin[k]]
  /\ UNCHANGED <<m_version, m_pixelArray>>

\* The file a chip's arrays are those of after trying to load id.
OriginAfter(c, r, id) ==
  IF r.ok THEN id ELSE IF r.arrays = m_pixelArray[c] THEN origin[c] ELSE NoFile

LoadFile(c, id) ==
  LET r == load(m_pixelArray[c], id)
  IN SetChip(c, r.arrays, OriginAfter(c, r, id)) /\ UNCHANGED edits

LoadMask(c, id) ==
  /\ id \in DOMAIN files /\ id[3] = "mask"
  /\ LET r == loadMask(m_pixelArray[c], files[id])
     IN SetChip(c, r.arrays, OriginAfter(c, [r EXCEPT !.ok = FALSE], id))
  /\ UNCHANGED edits

ResetArrays(c) == Edit /\ SetChip(c, Blank, NoFile)

(***************************************************************************)
(* MpxPixelConfig: all the chips.  setLow2Max and its like are given a     *)
(* chip and set them all.                                                  *)
(***************************************************************************)
SetAll(f, value) ==
  /\ Edit
  /\ m_pixelArray' = [c \in Chips |-> setArrayValue(m_pixelArray[c], f, value)]
  /\ origin' = [c \in Chips |-> NoFile]
  /\ UNCHANGED <<m_version, files, written>>

SetTimePixMode(mode) == SetAll("high", mode)
SetLow2Max  == SetAll("low", m_arrayMask("low"))
SetLow2Min  == SetAll("low", {})
SetHigh2Max == SetAll("high", m_arrayMask("high"))
SetHigh2Min == SetAll("high", {})

\* getConfigFile; NoFile where it throws.
getConfigFile(name, c) ==
  IF <<name, c, "edf">> \in DOMAIN files THEN <<name, c, "edf">>
  ELSE IF <<name, c, "bpc">> \in DOMAIN files THEN <<name, c, "bpc">>
  ELSE NoFile

\* The chips are loaded in order up to the first whose file is refused.
LoadConfig(name) ==
  LET r == [c \in Chips |-> load(m_pixelArray[c], getConfigFile(name, c))]
      reached(c) == \A k \in 1 .. c - 1 : r[k].ok
  IN /\ m_pixelArray' = [c \in Chips |-> IF reached(c) THEN r[c].arrays ELSE m_pixelArray[c]]
     /\ origin' = [c \in Chips |->
          IF reached(c) THEN OriginAfter(c, r[c], getConfigFile(name, c)) ELSE origin[c]]
     /\ UNCHANGED <<m_version, files, edits, written>>

Init ==
  /\ m_version \in Versions
  /\ m_pixelArray = [c \in Chips |-> Blank]
  /\ files = GivenFiles
  /\ edits = 0
  /\ written = [i \in {} |-> Blank]
  /\ origin = [c \in Chips |-> NoFile]

Next ==
  \/ \E c \in Single : \/ \E id \in Names \X Chips \X SaveExts : Save(c, id)
                       \/ \E id \in FileIds : LoadFile(c, id) \/ LoadMask(c, id)
                       \/ ResetArrays(c)
  \/ \E mode \in Modes : SetTimePixMode(mode)
  \/ SetLow2Max \/ SetLow2Min \/ SetHigh2Max \/ SetHigh2Min
  \/ \E name \in Names : LoadConfig(name)

Spec == Init /\ [][Next]_vars

-----------------------------------------------------------------------------
\* Whatever sequence of loads, settings and failed loads made a chip's
\* arrays, the string sent to the board has each of their bits at its own
\* pixel and place, for every type of chip (PixelConfigArray's tables against
\* the reader of the chips' frames).
MatrixReadsBack == OwnPlaces(m_version) /\ \A c \in Chips : ReadsBack(m_version, m_pixelArray[c])

\* Files keep what they are given: arrays still those of a file that was
\* saved are those it was saved from, to the bits the type has, on whichever
\* chip they are loaded and whatever it had before; and the arrays of any
\* .bpc would be saved to the bytes they were read from, its first NPix.
FilesKeepArrays ==
  \A c \in Chips :
    /\ origin[c] \in DOMAIN written =>
         Kept(m_version, m_pixelArray[c]) = Kept(m_version, written[origin[c]])
    /\ origin[c] # NoFile /\ origin[c][3] = "bpc" =>
         BpcBytes(m_pixelArray[c]) = files[origin[c]].images.bpc
=============================================================================
