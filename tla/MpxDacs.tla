------------------------------- MODULE MpxDacs -------------------------------
(***************************************************************************)
(* MpxDacs: the dac values of the chips of a detector, the energy threshold*)
(* computed from its calibration, and the registers of the chips, one per  *)
(* port of the board, the values are sent to.  Values are set in memory,   *)
(* and reach a chip only when its register is written, which a failing     *)
(* access to the board interrupts.                                         *)
(***************************************************************************)
EXTENDS MpxFsr, FiniteSets

CONSTANTS Detectors, \* configuration files: [version, ports, dacs, noise, xray,
                     \* calib, energy], "ports" the port of each chip
          Energies,  \* energies setEnergy is called with, in keV
          Settings,  \* <<key, value>> pairs for setOneDac
          Lists,     \* lists of such pairs, in the order of a std::map, for setDacs
          ChipIds,   \* chips the methods are called for, 0 for all
          MaxFails   \* bound: accesses to the board that fail

DetectorsAssumption ==
  /\ \A d \in Detectors : /\ d.version \in DOMAIN Tables
                          /\ Len(d.noise) = Len(d.ports) /\ Len(d.xray) = Len(d.ports)
                          /\ d.ports \in Seq(0 .. 4) /\ IsInjective(d.ports)
                          /\ d.noise \in Seq(Int) /\ d.xray \in Seq(Int)
                          /\ d.calib \in Int /\ d.energy \in Int
  /\ Energies \subseteq Int
  /\ \A list \in Lists : DOMAIN list = 1 .. Len(list)

VARIABLES version, \* of MpxFsrDef's only instance: the first one asked for
          dacs,    \* m_chipDacs: the values of each chip
          cal,     \* m_thlNoise, m_thlXray, m_energyCalib, m_lastEnergy
          ports,   \* m_priamPorts
          fsr,     \* the last string sent to the chip on each port
          synced,  \* ghost: chips written since their values were last set
          byEnergy,\* ghost: the thresholds are those setEnergy computed
          fails    \* ghost: accesses that have failed

dacsVars == <<version, dacs, cal, ports, fsr, synced, byEnergy, fails>>

NoVersion == "none"
Chips     == DOMAIN dacs

(***************************************************************************)
(* The energy threshold: on the line through the two calibration points,   *)
(* rounded towards 0.  0 / 0, with no calibration, gives INT_MIN.          *)
(***************************************************************************)
INT_MIN == -2147483647 - 1
Truncated(a, b) == IF a >= 0 THEN a \div b ELSE -((-a) \div b)

\* Mutant: the two calibration points swapped.
ThresholdSwapped(c, energy, k) ==
  IF k.calib = 0 THEN INT_MIN
  ELSE Truncated(k.xray[c] * k.calib + (k.noise[c] - k.xray[c]) * energy, k.calib)

Threshold(c, energy, k) ==
  IF k.calib = 0 THEN INT_MIN
  ELSE Truncated(k.noise[c] * k.calib + (k.xray[c] - k.noise[c]) * energy, k.calib)

\* The settings in a list of <<key, value>> pairs, done in turn.
WithDacs(data, list) ==
  [key \in DOMAIN data \cup {list[i][1] : i \in DOMAIN list} |->
     LET is == {i \in DOMAIN list : list[i][1] = key}
     IN IF is = {} THEN data[key] ELSE list[Max(is)][2]]

AtEnergy(d, energy, k) ==
  [c \in DOMAIN d |-> WithDacs(d[c], << <<"thl", Threshold(c, energy, k)>> >>)]

(***************************************************************************)
(* Writing registers: for every chip a dummy FSR and then its own.         *)
(***************************************************************************)
Ones        == [kind |-> "ones", data |-> NoDacs]    \* the dummy FSR
Packed(data) == [kind |-> "fsr", data |-> data]      \* the FsrString of data

setChipFsr(port, data) == <<[port |-> port, sent |-> Ones],
                            [port |-> port, sent |-> Packed(data)]>>

\* The register of the chip on a port.
Register(port) == IF fsr[port].kind = "ones" THEN AllOn ELSE FsrString(version, fsr[port].data)

applyAll(d, p) ==
  [j \in 1 .. 2 * Len(d) |-> LET c == (j + 1) \div 2 IN setChipFsr(p[c], d[c])[2 - (j % 2)]]

\* What the chips hold after the first k writes: the last one to their port.
Written(steps, k) ==
  [p \in DOMAIN fsr |-> LET js == {j \in 1 .. k : steps[j].port = p}
                        IN IF js = {} THEN fsr[p] ELSE steps[Max(js)].sent]

\* How many of a method's writes happen: all, or fewer if an access fails.
Cut(steps, k) == \/ k = Len(steps) /\ fails' = fails
                 \/ k \in 0 .. Len(steps) /\ fails < MaxFails /\ fails' = fails + 1

\* The chips cs, in that order, whose own register is among the first k writes.
Reached(cs, k) == {cs[j] : j \in {j \in DOMAIN cs : 2 * j <= k}}

(***************************************************************************)
(* A configuration is read and sent: parseDacsSection wants every value    *)
(* the instance of MpxFsrDef lists, whatever version that instance is of.  *)
(* The board's set-up sends the first chip's register to port 0, before    *)
(* the startup energy is set and every chip is written.                    *)
(***************************************************************************)
Instance(d) == IF version = NoVersion THEN d.version ELSE version

LoadRefused(d) ==
  /\ ~ listKeys(Instance(d), TRUE) \subseteq DOMAIN d.dacs
  /\ version' = Instance(d)
  /\ UNCHANGED <<dacs, cal, ports, fsr, synced, byEnergy, fails>>

Load(d) ==
  LET v     == Instance(d)
      asked == listKeys(v, TRUE)
      data  == [key \in DOMAIN m_default(v) \cup asked |->
                  IF key \in asked THEN d.dacs[key] ELSE m_default(v)[key]]
      read  == [c \in DOMAIN d.ports |-> data]
      k0    == [noise |-> d.noise, xray |-> d.xray, calib |-> d.calib, last |-> 0]
      warm  == AtEnergy(read, d.energy, k0)
      setup == setChipFsr(0, data)
      steps == setup \o applyAll(warm, d.ports)
  IN /\ asked \subseteq DOMAIN d.dacs
     /\ version' = v /\ ports' = d.ports
     /\ \E k \in 0 .. Len(steps) :
          /\ Cut(steps, k)
          /\ fsr' = Written(steps, k)
          /\ \/ /\ k <= Len(setup)
                /\ dacs' = read /\ cal' = k0 /\ byEnergy' = FALSE /\ synced' = {}
             \/ /\ k >= Len(setup)
                /\ dacs' = warm /\ cal' = [k0 EXCEPT !.last = d.energy] /\ byEnergy' = TRUE
                /\ synced' = Reached([c \in DOMAIN d.ports |-> c], k - Len(setup))

(***************************************************************************)
(* The energy: the thresholds are set, then every chip is written.         *)
(***************************************************************************)
SetEnergy(energy) ==
  LET warm  == AtEnergy(dacs, energy, cal)
      steps == applyAll(warm, ports)
  IN /\ dacs # <<>>
     /\ dacs' = warm /\ cal' = [cal EXCEPT !.last = energy] /\ byEnergy' = TRUE
     /\ \E k \in 0 .. Len(steps) :
          /\ Cut(steps, k)
          /\ fsr' = Written(steps, k)
          /\ synced' = Reached([c \in Chips |-> c], k)
     /\ UNCHANGED <<version, ports>>

(***************************************************************************)
(* The methods on single values.  chipid 0 stands for all the chips.       *)
(***************************************************************************)
getChipIdx(chipid) == IF chipid = 0 THEN Chips ELSE {chipid}

\* setValue accepts the keys of the table; a daccode must be in m_dacCode.
\* Anything else is an exception before any change.
Valid(setting) == /\ setting[1] \in listKeys(version, FALSE)
                  /\ setting[1] = "daccode" => setting[2] \in m_dacCode(version)

SetOneDac(chipid, setting) ==
  /\ chipid \in Chips \cup {0} /\ dacs # <<>> /\ Valid(setting)
  /\ dacs' = [c \in Chips |-> IF c \in getChipIdx(chipid)
                              THEN WithDacs(dacs[c], <<setting>>) ELSE dacs[c]]
  /\ synced' = synced \ getChipIdx(chipid)
  /\ byEnergy' = (byEnergy /\ setting[1] # "thl")
  /\ UNCHANGED <<version, cal, ports, fsr, fails>>

\* A list with a bad value is set up to it, on the first of the chips.
SetDacs(chipid, list) ==
  LET done == [i \in {i \in DOMAIN list : \A j \in 1 .. i : Valid(list[j])} |-> list[i]]
      set  == IF DOMAIN done = DOMAIN list THEN getChipIdx(chipid)
              ELSE {IF chipid = 0 THEN 1 ELSE chipid}
  IN /\ chipid \in Chips \cup {0} /\ dacs # <<>>
     /\ dacs' = [c \in Chips |-> IF c \in set THEN WithDacs(dacs[c], done) ELSE dacs[c]]
     /\ synced' = synced \ set
     /\ byEnergy' = (byEnergy /\ \A i \in DOMAIN done : done[i][1] # "thl")
     /\ UNCHANGED <<version, cal, ports, fsr, fails>>

ApplyChipDacs(chipid) ==
  LET cs    == IF chipid = 0 THEN [c \in Chips |-> c] ELSE <<chipid>>
      steps == IF chipid = 0 THEN applyAll(dacs, ports)
               ELSE setChipFsr(ports[chipid], dacs[chipid])
  IN /\ chipid \in Chips \cup {0} /\ dacs # <<>>
     /\ \E k \in 0 .. Len(steps) :
          /\ Cut(steps, k)
          /\ fsr' = Written(steps, k)
          /\ synced' = (synced \ {cs[j] : j \in DOMAIN cs}) \cup Reached(cs, k)
     /\ UNCHANGED <<version, dacs, cal, ports, byEnergy>>

\* The values and the calibration are forgotten, the chips are not written.
Reset ==
  /\ dacs # <<>>
  /\ dacs' = [c \in Chips |-> m_default(version)]
  /\ cal' = [noise |-> [c \in Chips |-> 0], xray |-> [c \in Chips |-> 0], calib |-> 0, last |-> 0]
  /\ synced' = {} /\ byEnergy' = FALSE
  /\ UNCHANGED <<version, ports, fsr, fails>>

Init ==
  /\ version = NoVersion /\ dacs = <<>> /\ ports = <<>>
  /\ cal = [noise |-> <<>>, xray |-> <<>>, calib |-> 0, last |-> 0]
  /\ fsr = [p \in 0 .. 4 |-> Packed(NoDacs)]   \* whatever the chips power up with
  /\ synced = {} /\ byEnergy = FALSE /\ fails = 0

Next ==
  \/ \E d \in Detectors : Load(d) \/ LoadRefused(d)
  \/ \E energy \in Energies : SetEnergy(energy)
  \/ \E c \in ChipIds : \/ \E s \in Settings : SetOneDac(c, s)
                       \/ \E l \in Lists : SetDacs(c, l)
                       \/ ApplyChipDacs(c)
  \/ Reset

Spec == Init /\ [][Next]_dacsVars

(***************************************************************************)
(* Reading values: one chip's, or with chipid 0 what all chips agree on.   *)
(***************************************************************************)
OneDac(c, key) == IF key \in DOMAIN dacs[c] THEN dacs[c][key] ELSE -1

getOneDac(key) == IF \A c \in Chips : OneDac(c, key) = OneDac(1, key)
                  THEN OneDac(1, key) ELSE -1

\* Mutant: every chip but the last is compared.
AgreeButLast(key) == \A c \in Chips \ {1, Cardinality(Chips)} :
                       dacs[1][key] = IF key \in DOMAIN dacs[c] THEN dacs[c][key] ELSE 0

\* A value a chip does not have is taken for 0, as operator[] creates it.
Agree(key) == \A c \in Chips \ {1} :
                dacs[1][key] = IF key \in DOMAIN dacs[c] THEN dacs[c][key] ELSE 0

getDacs == [key \in {key \in DOMAIN dacs[1] : Agree(key)} |-> dacs[1][key]]

(***************************************************************************)
(* Properties.                                                             *)
(***************************************************************************)
Widest(key) == 2 ^ Len(Bits(version, key)) - 1

\* The register of a chip that was written since its values were last set
\* holds exactly these values: each of them can be read back from its own
\* fields, whatever the others are, a value never set reads 0, and it is the
\* chip on that port that has them (applyChipDacs, getFsrString, and the
\* tables of MpxFsrDef).
FsrHolds ==
  \A c \in synced : LET register == Register(ports[c]) IN
    \A key \in listKeys(version, FALSE) : \A i \in DOMAIN Bits(version, key) :
      InFsr(version, key, i, register)
        <=> key \in DOMAIN dacs[c] /\ BitOf(dacs[c][key], i - 1)

\* Once an energy between 0 and that of the calibration is applied, the
\* threshold each chip holds lies between the two values measured for that
\* chip, and is one of them at either end - provided they fit the chip's
\* field (setEnergy, then applyChipDacs).
EnergyIsApplied ==
  (byEnergy /\ synced = Chips /\ cal.calib > 0 /\ cal.last \in 0 .. cal.calib) =>
    \A c \in Chips :
      LET thl == FieldOf(version, "thl", Register(ports[c]))
          lo  == IF cal.noise[c] < cal.xray[c] THEN cal.noise[c] ELSE cal.xray[c]
          hi  == IF cal.noise[c] < cal.xray[c] THEN cal.xray[c] ELSE cal.noise[c]
      IN (lo >= 0 /\ hi <= Widest("thl")) =>
           /\ lo <= thl /\ thl <= hi
           /\ cal.last = 0 => thl = cal.noise[c]
           /\ cal.last = cal.calib => thl = cal.xray[c]

\* What getDacs(0) and getOneDac(0) give for all the chips is true of every
\* one: each chip's register would have these bits, and what getOneDac(0)
\* gives, getDacs(0) gives too.
ReadersAgree ==
  dacs # <<>> =>
    /\ \A c \in Chips : LET register == FsrString(version, dacs[c]) IN
         \A key \in DOMAIN getDacs : \A i \in DOMAIN Bits(version, key) :
           InFsr(version, key, i, register) <=> BitOf(getDacs[key], i - 1)
    /\ \A key \in listKeys(version, FALSE) :
         getOneDac(key) # -1 => key \in DOMAIN getDacs /\ getDacs[key] = getOneDac(key)
=============================================================================
