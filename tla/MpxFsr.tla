------------------------------- MODULE MpxFsr -------------------------------
(***************************************************************************)
(* MpxFsr: the "fast shift register" of a Medipix/Timepix chip.  A chip is *)
(* tuned by some fifteen dac values, packed in a register of 256 bits that *)
(* is sent as a string of 32 bytes.  Where each value goes depends on the  *)
(* type of chip; a value may be split over several fields of the register. *)
(* This module holds the tables of MpxFsrDef and the packing of            *)
(* MpxChipDacs.  A register is the set of its bits that are on: bit b of byte *)
(* n of the string is the number 8 * n + b.                                *)
(***************************************************************************)
EXTENDS Integers, Sequences, SequencesExt

\* The bits of one field of the register.
Field(lsb, msb) == [idx \in 1 .. msb - lsb + 1 |-> lsb + idx - 1]

(***************************************************************************)
(* The tables, one for each type of chip:                                  *)
(*   fsrKeys       where each value goes: the bits of the register, in one *)
(*                 field or several, from the low bit of the value on      *)
(*   DefaultCList  the values listed for a chip to start with              *)
(*   DacCodeCList  the codes listed for "daccode"                          *)
(***************************************************************************)
initTPX1 ==
 [fsrKeys |->
   [ikrum |-> Field(4, 11),         disc |-> Field(12, 19),
    preamp |-> Field(20, 27),       daccode |-> Field(38, 39) \o Field(41, 42),
    sensedac |-> Field(43, 43),     dacsel |-> Field(44, 44),
    buffanaloga |-> Field(46, 49) \o Field(56, 59),
    buffanalogb |-> Field(60, 67),  hist |-> Field(86, 93),
    thl |-> Field(100, 113),        vcas |-> Field(120, 127),
    fbk |-> Field(128, 135),        gnd |-> Field(136, 143),
    ctpr |-> Field(144, 175),       ths |-> Field(181, 188),
    biaslvds |-> Field(227, 234),   reflvds |-> Field(235, 242)],
  DefaultCList |->
   [ikrum |-> 200, disc |-> 250, preamp |-> 128, buffanaloga |-> 128,
    buffanalogb |-> 128, hist |-> 128, vcas |-> 128, fbk |-> 115, gnd |-> 128,
    ths |-> 180, biaslvds |-> 128, reflvds |-> 129, thl |-> 6600],
  DacCodeCList |-> 1 .. 15 \ {5, 8}]

initMPX2 ==
 [fsrKeys |->
   [biasdelayn |-> Field(3, 10),    biasdisc |-> Field(11, 18),
    biaspreamp |-> Field(19, 26),   biassetdisc |-> Field(45, 48) \o Field(55, 58),
    biasths |-> Field(59, 66),      biasikrum |-> Field(99, 106),
    biasabuffer |-> Field(107, 114), thh |-> Field(115, 122),
    thl |-> Field(123, 130),        fbk |-> Field(131, 138),
    gnd |-> Field(180, 187),        biaslvdstx |-> Field(226, 233),
    reflvdstx |-> Field(234, 241),
    daccode |-> Field(37, 38) \o Field(40, 40) \o Field(41, 41),
    sensedac |-> Field(42, 42),     dacsel |-> Field(43, 43)],
  DefaultCList |->
   [biasdelayn |-> 0, biasdisc |-> 128, biaspreamp |-> 60, biassetdisc |-> 240,
    biasths |-> 150, biasikrum |-> 200, biasabuffer |-> 255, fbk |-> 180,
    gnd |-> 128, biaslvdstx |-> 128, reflvdstx |-> 128, thh |-> 0, thl |-> 6600],
  DacCodeCList |-> 1 .. 14]

initMXR2 ==
 [fsrKeys |->
   [ikrum |-> Field(3, 10),         disc |-> Field(11, 18),
    preamp |-> Field(19, 26),       daccode |-> Field(37, 38) \o Field(40, 41),
    sensedac |-> Field(42, 42),     dacsel |-> Field(43, 43),
    buffanaloga |-> Field(45, 48) \o Field(55, 58),
    buffanalogb |-> Field(59, 66),  delayn |-> Field(85, 92),
    thl |-> Field(99, 112),         thh |-> Field(113, 126),
    fbk |-> Field(127, 134),        gnd |-> Field(135, 142),
    ctpr |-> Field(143, 174),       ths |-> Field(180, 187),
    biaslvds |-> Field(226, 233),   reflvds |-> Field(234, 241)],
  DefaultCList |->
   [ikrum |-> 200, disc |-> 250, preamp |-> 128, buffanaloga |-> 128,
    buffanalogb |-> 128, delayn |-> 128, fbk |-> 115, gnd |-> 128, ths |-> 180,
    biaslvds |-> 128, reflvds |-> 129, thh |-> 0, thl |-> 6600],
  DacCodeCList |-> 1 .. 15 \ {5, 8}]

Tables == [TPX1 |-> initTPX1, MPX2 |-> initMPX2, MXR2 |-> initMXR2]

\* The lists are copied into local variables named m_default and m_dacCode:
\* the members they hide stay empty.
NoDacs       == [key \in {} |-> 0]
m_default(v) == NoDacs
m_dacCode(v) == {}

\* listKeys: with saved, only the values a configuration file holds.
listKeys(v, saved) ==
  DOMAIN Tables[v].fsrKeys \ (IF saved THEN {"daccode", "sensedac", "dacsel"} ELSE {})

\* The bits of the register a key stands for, its low bit first.
Bits(v, key) == Tables[v].fsrKeys[key]

\* Bit k of a 32-bit int.
BitOf(val, k) == IF k = 31 THEN val < 0 ELSE (val \div 2 ^ k) % 2 = 1

\* Mutant: a register whose bytes are in the order of the bits.
PlaceForward(bit) == 8 * (bit \div 8) + (bit % 8)

\* The byte of the string a bit is in, and its place in it: the last byte
\* holds the first bits.
Place(bit) == 8 * (31 - (bit \div 8)) + (bit % 8)

\* getFsrString: the register for the values data.
FsrString(v, data) ==
  UNION {LET bits == Bits(v, key)  val == data[key]
         IN {Place(bits[i]) : i \in {i \in DOMAIN bits : BitOf(val, i - 1)}} : key \in DOMAIN data}

AllOn == 0 .. 255   \* the dummy FSR, 32 times 0xff

\* How the chip reads a value back from its register.
ReadAt == [bit \in 0 .. 255 |-> 8 * (31 - (bit \div 8)) + (bit % 8)]
InFsr(v, key, i, fsr) == ReadAt[Bits(v, key)[i]] \in fsr
FieldOf(v, key, fsr) ==
  LET bits == Bits(v, key)
      low[n \in 0 .. Len(bits)] ==   \* the value of its first n bits
        IF n = 0 THEN 0 ELSE low[n - 1] + IF InFsr(v, key, n, fsr) THEN 2 ^ (n - 1) ELSE 0
  IN low[Len(bits)]
=============================================================================
