------------------------------ MODULE PriamAcq ------------------------------
(***************************************************************************)
(* PriamAcq: the acquisition parameters of the Priam board.  Each parameter*)
(* lives twice, in a member of the object and in registers of the board,   *)
(* and most methods write one or several registers and assign one or       *)
(* several members, in an order of their own.  Any register access may     *)
(* throw (see PriamSerial), before or after the board applied it, and the  *)
(* method stops there: what it did so far stays.                           *)
(*                                                                         *)
(* A method is the sequence of its register accesses and assignments; Run  *)
(* executes it, whole or up to an access that throws.  Registers holding   *)
(* flags are sets of bit numbers, the others are bytes.  Callers ask times *)
(* in whole microseconds, which the double product of TimeRegs may miss;   *)
(* frequencies are in kHz.                                                 *)
(***************************************************************************)
EXTENDS TimeRegs, Sequences, FiniteSetsExt

CONSTANTS Versions,   \* chip versions setup is called with
          Freqs,      \* oscillator frequencies, in kHz
          Times,      \* exposure and interval times
          ShutterTimes, \* shutter times
          Frames,     \* frame numbers
          PortLists,  \* lists of ports, for the parallel readout
          Ports,      \* single ports, for the methods that take one
          Signals,    \* the signal setters in use
          TrigModes,  \* trigger modes
          Flats,      \* flat-field factors
          Firmware,   \* m_firmware
          OldMCR1,    \* what an earlier session may have left in MCR1
          MaxFails,   \* bound: register accesses that fail
          Delay       \* what the board measures into the high half of TAS

maxPorts == 5
NotSet   == [it |-> 0, iu |-> -1]   \* a time member holding -1.

VARIABLES reg,    \* the board's registers
          obj,    \* the object's members
          dirty,  \* ghost: registers not known to hold what the members say
          fails   \* ghost: register accesses that have failed

vars == <<reg, obj, dirty, fails>>

(***************************************************************************)
(* Running a method.                                                       *)
(***************************************************************************)
io(r, v)     == [f |-> r, v |-> v, io |-> TRUE]    \* a register access
assign(m, v) == [f |-> m, v |-> v, io |-> FALSE]   \* a member assignment

\* The last of the steps that sets a field.
LastOf(steps, m) == Max({i \in DOMAIN steps : steps[i].f = m})

\* st once the steps are done, one after the other: of those that set the
\* same field, the last one counts.
After(st, steps) ==
  [m \in DOMAIN st |-> IF \E i \in DOMAIN steps : steps[i].f = m
                         THEN steps[LastOf(steps, m)].v ELSE st[m]]

\* Where an exception can leave a method: just before an access, or just
\* after one whose answer was lost.
Cuts(steps) == {k \in 0 .. Len(steps) :
                  \/ k > 0 /\ steps[k].io
                  \/ k < Len(steps) /\ steps[k + 1].io}

Stop(steps, k) == /\ reg' = After(reg, SubSeq(steps, 1, k))
                  /\ obj' = After(obj, SubSeq(steps, 1, k))

\* An access fails and its exception leaves the method.
Interrupted(steps, suspect) ==
  /\ fails < MaxFails /\ fails' = fails + 1
  /\ \E k \in Cuts(steps) : Stop(steps, k)
  /\ dirty' = dirty \cup suspect

\* The method runs to its end and leaves the registers "heals" in agreement
\* with the members, and those of "hurts" not; or it is interrupted.
Run(steps, heals, hurts) ==
  \/ /\ Stop(steps, Len(steps))
     /\ dirty' = (dirty \ heals) \cup hurts
     /\ fails' = fails
  \/ Interrupted(steps, heals \cup hurts)

\* The method throws an exception of its own after its steps.
RunThenThrow(steps, hurts) ==
  \/ /\ Stop(steps, Len(steps))
     /\ dirty' = dirty \cup hurts
     /\ fails' = fails
  \/ Interrupted(steps, hurts)

CheckPortNr(port) == port \in 0 .. maxPorts - 1

(***************************************************************************)
(* Configuration.                                                          *)
(***************************************************************************)
enableSerial(port) == <<io("MCR2", {5, port})>>

TypeBits(version) == CASE version = "MPX2" -> {6}
                       [] version = "TPX1" -> {5, 6}
                       [] OTHER -> {}

\* Mutant: the type replaces what was set up before instead of joining it.
setChipTypeOver(version, positive, setup) ==
  << assign("m_version", version),
     io("MCR1", TypeBits(version) \cup IF positive THEN {7} ELSE {}),
     assign("m_setup", {"type"}) >>

\* The whole register is rewritten: bit 0, the link speed, is cleared and
\* m_fo_fast is not.
setChipType(version, positive, setup) ==
  << assign("m_version", version),
     io("MCR1", TypeBits(version) \cup IF positive THEN {7} ELSE {}),
     assign("m_setup", setup \cup {"type"}) >>

\* A dummy FSR, then the real one; port 0's is kept for timeAdjust.
setChipFsr(port) ==
  enableSerial(port) \o <<io("FSR", "ones"), io("FSR", "chip")>>
    \o IF port = 0 THEN <<assign("m_chip_fsr0", "chip")>> ELSE <<>>

\* The frequency band: output divider, and the second byte sent with it.
Band(khz) == CASE khz <= 43750  -> [div |-> 8, code |-> 6]
               [] khz <= 87500  -> [div |-> 4, code |-> 4]
               [] khz <= 175000 -> [div |-> 2, code |-> 2]
               [] OTHER         -> [div |-> 1, code |-> 0]

\* The frequency the synthesiser gives, a multiple of 12.5 MHz / div.
Synth(khz) == LET d == Band(khz).div
                  fval == (khz * d * 2) \div 25000 IN (25000 * fval) \div (d * 2)

Clamp(khz) == IF khz < 15625 THEN 15625 ELSE IF khz > 350000 THEN 350000 ELSE khz

\* The firmware's minimum interval: 920000 us.MHz with bit 3, else 30000.
MinInterval(khz) == (IF (Firmware \div 8) % 2 = 1 THEN 920000000 ELSE 30000000) \div khz

\* The sample delays, from the delay the board measured after an FSR.
Tap(version, khz) ==
  LET less == CASE version = "TPX1" /\ khz < 50000 -> 2
                [] version = "TPX1" /\ khz >= 50000 /\ khz < 120000 -> 3
                [] version = "TPX1" /\ khz >= 120000 -> 4
                [] version # "TPX1" /\ Firmware >= 2 /\ khz < 100000 -> 1
                [] version # "TPX1" /\ Firmware >= 2 /\ khz >= 100000 /\ khz < 120000 -> 2
                [] version # "TPX1" /\ Firmware >= 2 /\ khz >= 120000 -> 3
                [] OTHER -> 0
  IN IF Delay < less THEN 0 ELSE Delay - less
Tas == IF Delay < 2 THEN 0 ELSE Delay - 2

timeAdjust(version, khz) ==
  setChipFsr(0) \o << io("TAS", 16 * Delay),
                      io("TAP", Tap(version, khz)), io("TAS", Tas) >>

\* Above 175 MHz the second byte is zero, the C string ends there, and
\* writeRegister refuses the one-character buffer.
OscillatorRefused(khz) == Band(Clamp(khz)).code = 0

\* Without the FSR of port 0 the method throws once OSC is written.
OscillatorThrows(khz, fsr0) == OscillatorRefused(khz) \/ fsr0 = "none"

setOscillator(version, khz, setup, fsr0) ==
  LET f == Synth(Clamp(khz)) IN
    <<assign("m_osc_frequency", f)>>
      \o (IF OscillatorRefused(khz) THEN <<>> ELSE <<io("OSC", f)>>)
      \o (IF OscillatorThrows(khz, fsr0) THEN <<>>
          ELSE timeAdjust(version, f)
                 \o (IF version = "TPX1" THEN <<io("TIP", 1)>> ELSE <<>>)
                 \o << assign("m_min_it", MinInterval(f)),
                       assign("m_setup", setup \cup {"osc"}) >>)

OscRegs == {"OSC", "TAS", "TAP"}

SetOscillator(khz) ==
  LET steps == setOscillator(obj.m_version, khz, obj.m_setup, obj.m_chip_fsr0) IN
    IF OscillatorThrows(khz, obj.m_chip_fsr0) THEN RunThenThrow(steps, OscRegs)
    ELSE Run(steps, OscRegs, {})

SetChipType(version, positive) ==
  Run(setChipType(version, positive, obj.m_setup), {"MCR1"}, {"FO"})

Setup(version, positive, khz) ==
  LET steps == enableSerial(0) \o setChipType(version, positive, obj.m_setup)
                 \o <<assign("m_chip_fsr0", "chip")>>
                 \o setOscillator(version, khz, obj.m_setup \cup {"type"}, "chip")
  IN IF OscillatorThrows(khz, "chip")
       THEN RunThenThrow(steps, OscRegs \cup {"MCR1", "FO"})
       ELSE Run(steps, OscRegs \cup {"MCR1"}, {"FO"})

\* Read, change bit 0, write back.
SetFastFOSpeed(fast) ==
  Run(<< io("none", 0),
         io("MCR1", (reg.MCR1 \ {0}) \cup IF fast THEN {0} ELSE {}),
         assign("m_fo_fast", fast) >>, {"FO"}, {})

SetChipCfg(port) ==
  /\ CheckPortNr(port)
  /\ Run(enableSerial(port) \o <<io("none", 0)>>, {}, {})

SetChipFsr(port) == CheckPortNr(port) /\ Run(setChipFsr(port), {}, {})

(***************************************************************************)
(* Timing.  _timeToReg throws before anything is written.                  *)
(***************************************************************************)
Time(askt) == [it |-> Count(askt), iu |-> Scale(askt)]

SetExposureTime(us) == \E askt \in Product(us) :
  /\ ~Overflow(askt)
  /\ Run(<< io("ET1", TimeToReg(askt).reg1), io("ET2", TimeToReg(askt).reg2),
            assign("m_expo_time", Time(askt)) >>, {"ET1", "ET2"}, {})

\* The longest exposure, behind the back of m_expo_time.
SetMaxExposureTime ==
  Run(<<io("ET1", 255), io("ET2", 3 + 32 * 6)>>, {}, {"ET1", "ET2"})

\* The minimum goes through the same product, which may leave it one short.
SetIntervalTime(us) ==
  \E askt \in Product(IF us < obj.m_min_it THEN obj.m_min_it ELSE us) :
    /\ ~Overflow(askt)
    /\ Run(<< io("IT1", TimeToReg(askt).reg1), io("IT2", TimeToReg(askt).reg2),
              assign("m_int_time", Time(askt)) >>, {"IT1", "IT2"}, {})

\* SETBIT, for a bit of weight w of a byte.
SetBit(byte, w, on) ==
  byte - w * ((byte \div w) % 2) + (IF on THEN w ELSE 0)

\* Mutant: the shutter mode shifted into the unit of the time.
updateSignalUnit(st2, o) ==
  LET s == SetBit(SetBit(st2, 4, o.m_ready_level = "HIGH_RISE"),
                  8, o.m_shut_level = "HIGH_RISE")
  IN SetBit(s, 32, o.m_shut_mode = "SEQUENCE")

\* _updateSignalReg: bits 2 to 4 of ST2.
updateSignal(st2, o) ==
  LET s == SetBit(SetBit(st2, 4, o.m_ready_level = "HIGH_RISE"),
                  8, o.m_shut_level = "HIGH_RISE")
  IN SetBit(s, 16, o.m_shut_mode = "SEQUENCE")

SetShutterTime(us) == \E askt \in Product(us) :
  /\ ~Overflow(askt)
  /\ Run(<< io("ST1", TimeToReg(askt).reg1),
            io("ST2", updateSignal(TimeToReg(askt).reg2, obj)) >>, {"ST2"}, {})

\* Mutant: the register first, from the member's old value.
SetSignalStale(m, v) ==
  Run(<< io("none", 0), io("ST2", updateSignal(reg.ST2, obj)), assign(m, v) >>,
      {"ST2"}, {})

\* A level or mode kept in ST2: the member first, then read, change, write.
SetSignal(m, v) ==
  Run(<< assign(m, v), io("none", 0),
         io("ST2", updateSignal(reg.ST2, [obj EXCEPT ![m] = v])) >>, {"ST2"}, {})

\* The levels and modes kept in MSR are written by the next start or stop.
SetMode(m, v) == obj' = [obj EXCEPT ![m] = v] /\ UNCHANGED <<reg, dirty, fails>>

Levels   == {"LOW_FALL", "HIGH_RISE"}
ValuesOf == [ m_shut_level |-> Levels, m_ready_level |-> Levels,
              m_shut_mode  |-> {"FRAME", "SEQUENCE"},
              m_ready_mode |-> {"EXPOSURE", "EXPOSURE_READOUT"},
              m_gate_level |-> Levels, m_gate_mode |-> {"INACTIVE", "ACTIVE"},
              m_trig_level |-> Levels ]
InST2    == {"m_shut_level", "m_ready_level", "m_shut_mode"}

\* What the methods are called with: Lima asks for no negative number of
\* frames, and the times are whole numbers of microseconds.
ASSUME AcqAssumption ==
  /\ Freqs \subseteq Nat /\ Times \subseteq Nat /\ ShutterTimes \subseteq Nat
  /\ Frames \subseteq Nat /\ Flats \subseteq Int
  /\ Ports \subseteq Int /\ PortLists \subseteq Seq(Int)
  /\ Signals \subseteq DOMAIN ValuesOf
  /\ Firmware \in Nat /\ Delay \in Nat /\ MaxFails \in Nat

(***************************************************************************)
(* Frames and readout.                                                     *)
(***************************************************************************)
\* Mutant: the second byte shifted by 7.
SetNbFramesShifted(nb) ==
  /\ ~(nb = 0 /\ Firmware < 3) /\ nb <= 65535
  /\ Run(<< io("INB1", nb % 256), io("INB2", (nb \div 128) % 256),
            assign("m_nb_frame", nb) >>, {"INB1", "INB2"}, {})

SetNbFrames(nb) ==
  /\ ~(nb = 0 /\ Firmware < 3) /\ nb <= 65535
  /\ Run(<< io("INB1", nb % 256), io("INB2", (nb \div 256) % 256),
            assign("m_nb_frame", nb) >>, {"INB1", "INB2"}, {})

\* in2.at(0) is a signed character: bit 7 makes the number negative.
getNbFrames == reg.INB1 + 256 * (IF reg.INB2 < 128 THEN reg.INB2 ELSE reg.INB2 - 256)

\* Bits 1 and 2 of the factor go to bits 3 and 4; its bit 0 goes nowhere.
RomBits(o) ==
  (IF (o.m_flatfield \div 2) % 2 = 1 THEN {3} ELSE {})
    \cup (IF (o.m_flatfield \div 4) % 2 = 1 THEN {4} ELSE {})
    \cup (IF o.m_read_mode = "SERIAL" THEN {7} ELSE {})
    \cup (IF o.m_img_mode = "RAW" THEN {0} ELSE {})

\* Members first, then _writeRomReg.
SetRom(o) ==
  Run(<< assign("m_flatfield", o.m_flatfield), assign("m_img_mode", o.m_img_mode),
         assign("m_port_used", o.m_port_used), assign("m_read_mode", o.m_read_mode),
         io("ROM", RomBits(o)) >>, {"ROM"}, {})

SetFFCorrection(flat) == flat \in 0 .. 6 /\ SetRom([obj EXCEPT !.m_flatfield = flat])
SetImageMode(img)     == SetRom([obj EXCEPT !.m_img_mode = img])

SetSerialReadout(port) ==
  /\ CheckPortNr(port)
  /\ SetRom([obj EXCEPT !.m_port_used = <<port>>, !.m_read_mode = "SERIAL"])

SetParallelReadout(ports) ==
  /\ ports # <<>> /\ \A i \in DOMAIN ports : CheckPortNr(ports[i])
  /\ SetRom([obj EXCEPT !.m_port_used = ports, !.m_read_mode = "PARALLEL"])

(***************************************************************************)
(* Acquisition.                                                            *)
(***************************************************************************)
\* Microseconds to send one chip's frame.
TxTime(fast) == IF fast THEN 560 ELSE 700

\* Mutant: the minimum interval is not taken off.
TooFastLoose(o) ==
  /\ o.m_nb_frame # 1
  /\ Micros(o.m_int_time) + Micros(o.m_expo_time)
       < TxTime(o.m_fo_fast) * Len(o.m_port_used)

TooFast(o) ==
  /\ o.m_nb_frame # 1
  /\ Micros(o.m_int_time) - o.m_min_it + Micros(o.m_expo_time)
       < TxTime(o.m_fo_fast) * Len(o.m_port_used)

Startable(o) ==
  /\ o.m_nb_frame # -1 /\ o.m_setup = {"type", "osc"}
  /\ o.m_expo_time # NotSet /\ o.m_int_time # NotSet
  /\ ~TooFast(o)

Selection(o) ==
  {o.m_port_used[i] : i \in DOMAIN o.m_port_used} \cup
    IF o.m_read_mode = "SERIAL" THEN {5} ELSE {}

TrigBits == [ IntTrig |-> {0}, IntTrigMult |-> {0}, ExtTrigSingle |-> {1},
              ExtTrigMult |-> {2}, ExtGate |-> {1, 2} ]

\* Mutant: the gate's level is written whatever the gate's mode.
MsrBitsGate(base, o) ==
  base \cup (IF o.m_gate_level = "LOW_FALL" THEN {3} ELSE {})
       \cup (IF o.m_gate_mode = "ACTIVE" THEN {4} ELSE {})
       \cup (IF o.m_ready_mode = "EXPOSURE_READOUT" THEN {5} ELSE {})

\* _writeMsrReg: bits 3 to 5 always follow the gate and ready members.
MsrBits(base, o) ==
  base \cup (IF o.m_gate_mode = "ACTIVE" /\ o.m_gate_level = "LOW_FALL" THEN {3} ELSE {})
       \cup (IF o.m_gate_mode = "ACTIVE" THEN {4} ELSE {})
       \cup (IF o.m_ready_mode = "EXPOSURE_READOUT" THEN {5} ELSE {})

\* An unknown trigger mode throws after the ports are selected.
StartAcq ==
  /\ Startable(obj)
  /\ IF obj.m_trig_mode \in DOMAIN TrigBits
       THEN LET go == TrigBits[obj.m_trig_mode]
                level == IF go # {0} /\ obj.m_trig_level = "LOW_FALL" THEN {0} ELSE {}
            IN Run(<< io("MCR2", Selection(obj)),
                      io("MSR", MsrBits(go \cup level, obj)) >>, {}, {})
       ELSE RunThenThrow(<<io("MCR2", Selection(obj))>>, {})

StopAcq == Run(<<io("MSR", MsrBits({}, obj))>> \o enableSerial(0), {}, {})

\* The reset bits: 6 and 7 for the FIFO, 7 for the chip.
Reset(bits, ports) ==
  Run([i \in DOMAIN ports |-> io("MCR2", bits \cup {5, ports[i]})], {}, {})

ResetFifo(port) == CheckPortNr(port) /\ Reset({6, 7}, <<port>>)
ResetChip(port) == CheckPortNr(port) /\ Reset({7}, <<port>>)
ResetAllFifo    == Reset({6, 7}, obj.m_port_used)
ResetAllChip    == Reset({7}, obj.m_port_used)

-----------------------------------------------------------------------------
Checked == {"MCR1", "FO", "OSC", "TAS", "TAP", "ET1", "ET2", "IT1", "IT2",
            "ST2", "ROM", "INB1", "INB2"}

\* Nothing is known of the board when the object is created: its registers
\* may hold what an earlier session left, which matters for the link speed.
Init ==
  /\ \E old \in OldMCR1 :
       reg = [ MCR1 |-> old, MCR2 |-> {5, 0}, MSR |-> {}, ROM |-> {},
               ET1 |-> 0, ET2 |-> 0, IT1 |-> 0, IT2 |-> 0, ST1 |-> 0, ST2 |-> 0,
               INB1 |-> 0, INB2 |-> 0, OSC |-> 0, TAS |-> 0, TAP |-> 0,
               TIP |-> 0, FSR |-> "none" ]
  /\ obj = [ m_setup |-> {}, m_version |-> "DUMMY", m_chip_fsr0 |-> "none", m_fo_fast |-> FALSE,
             m_osc_frequency |-> 0, m_min_it |-> 0,
             m_expo_time |-> NotSet, m_int_time |-> NotSet,
             m_shut_level |-> "HIGH_RISE", m_shut_mode |-> "FRAME",
             m_ready_level |-> "HIGH_RISE", m_ready_mode |-> "EXPOSURE_READOUT",
             m_gate_level |-> "HIGH_RISE", m_gate_mode |-> "INACTIVE",
             m_trig_level |-> "HIGH_RISE", m_trig_mode |-> "IntTrig",
             m_read_mode |-> "PARALLEL", m_img_mode |-> "NORMAL",
             m_flatfield |-> 0, m_nb_frame |-> -1, m_port_used |-> <<0>> ]
  /\ dirty = Checked
  /\ fails = 0

Configure ==
  \/ \E v \in Versions, khz \in Freqs : \/ Setup(v, TRUE, khz)
                                        \/ SetChipType(v, FALSE)
                                        \/ SetOscillator(khz)
  \/ Versions # {} /\ \E fast \in BOOLEAN : SetFastFOSpeed(fast)
  \/ \E ports \in PortLists : SetParallelReadout(ports)
  \/ \E p \in Ports : \/ SetSerialReadout(p) \/ SetChipCfg(p) \/ SetChipFsr(p)
                      \/ ResetFifo(p) \/ ResetChip(p)
  \/ Ports # {} /\ (ResetAllFifo \/ ResetAllChip)
  \/ \E f \in Flats : SetFFCorrection(f)
  \/ Flats # {} /\ \E img \in {"NORMAL", "RAW"} : SetImageMode(img)

SetTimes ==
  \/ \E us \in Times : \/ SetExposureTime(us)
                       \/ SetIntervalTime(us)
  \/ Times # {} /\ SetMaxExposureTime
  \/ \E nb \in Frames : SetNbFrames(nb)

SetSignals ==
  \/ \E m \in Signals \cap InST2, v \in UNION {ValuesOf[x] : x \in Signals} :
       v \in ValuesOf[m] /\ SetSignal(m, v)
  \/ \E us \in ShutterTimes : SetShutterTime(us)
  \/ \E m \in Signals \ InST2, v \in UNION {ValuesOf[x] : x \in Signals} :
       v \in ValuesOf[m] /\ SetMode(m, v)
  \/ \E t \in TrigModes : SetMode("m_trig_mode", t)

Acquire == StartAcq \/ StopAcq

Next == Configure \/ SetTimes \/ SetSignals \/ Acquire
Spec == Init /\ [][Next]_vars

-----------------------------------------------------------------------------
Registers == DOMAIN reg

Clean(rs) == rs \cap dirty = {}

\* A setter that returned normally leaves the board holding what the member
\* says, and it stays so until an access fails or the register is written
\* past the member: no later method, run alone or cut short by an exception,
\* silently undoes it.  A failed setter is repaired by repeating it.  The
\* number of frames, which applyPixelConfig reads and restores, is read back.
RegistersAgree ==
  /\ Clean({"MCR1"}) => reg.MCR1 \cap {5, 6} = TypeBits(obj.m_version)
  /\ Clean({"FO"})   => (0 \in reg.MCR1 <=> obj.m_fo_fast)
  /\ Clean({"ET1", "ET2"}) => RegToTime(reg.ET1, reg.ET2) = obj.m_expo_time
  /\ Clean({"IT1", "IT2"}) => RegToTime(reg.IT1, reg.IT2) = obj.m_int_time
  /\ Clean({"ST2"}) => updateSignal(reg.ST2, obj) = reg.ST2
  /\ Clean({"ROM"}) => reg.ROM = RomBits(obj)
  /\ Clean({"INB1", "INB2"}) =>
       /\ reg.INB1 + 256 * reg.INB2 = obj.m_nb_frame
       /\ obj.m_nb_frame < 32768 => getNbFrames = obj.m_nb_frame

\* Once every parameter was set without a failure, startAcq has nothing to
\* refuse but a timing that is too fast.
CleanMeansReady ==
  Clean({"MCR1", "OSC", "ET1", "ET2", "IT1", "IT2", "INB1", "INB2"})
    => Startable(obj) \/ TooFast(obj)

Armed(r) == r.MSR \cap {0, 1, 2} # {}

\* A step that arms a board set up for several frames, with room between two
\* of them to send the frame of every selected chip.
RoomForFrames ==
  /\ ~Armed(reg) /\ Armed(reg')
  /\ Clean({"FO", "OSC", "ET1", "ET2", "IT1", "IT2", "INB1", "INB2"})
  /\ reg.INB1 + 256 * reg.INB2 # 1
  => Micros(RegToTime(reg.IT1, reg.IT2)) - MinInterval(reg.OSC)
       + Micros(RegToTime(reg.ET1, reg.ET2))
     >= TxTime(0 \in reg.MCR1) * Cardinality(reg'.MCR2 \cap 0 .. 4)

\* What the check of startAcq on members is for, stated on the board: when
\* it is armed for several frames, the time between two frames leaves room
\* to send the frame of every selected chip at the speed of the link.
StartFits == [][RoomForFrames]_vars

\* What MSR says: the trigger and its level, the gate and its level, ready.
Level(low)  == IF low THEN "LOW_FALL" ELSE "HIGH_RISE"
Trigger(bs) == CASE bs \cap {1, 2} = {}     -> <<"internal">>
                 [] bs \cap {1, 2} = {1}    -> <<"ExtTrigSingle", Level(0 \in bs)>>
                 [] bs \cap {1, 2} = {2}    -> <<"ExtTrigMult", Level(0 \in bs)>>
                 [] bs \cap {1, 2} = {1, 2} -> <<"ExtGate", Level(0 \in bs)>>
Gate(bs)    == IF 4 \in bs THEN <<"ACTIVE", Level(3 \in bs)>>
               ELSE IF 3 \in bs THEN <<"reserved">> ELSE <<"INACTIVE">>
Ready(bs)   == IF 5 \in bs THEN "EXPOSURE_READOUT" ELSE "EXPOSURE"

\* The bits ask for what the members ask for.
SaysWhatIsAsked(bs) ==
  /\ Trigger(bs) =
       IF obj.m_trig_mode \in {"IntTrig", "IntTrigMult"} THEN <<"internal">>
       ELSE <<obj.m_trig_mode, obj.m_trig_level>>
  /\ Gate(bs) = IF obj.m_gate_mode = "ACTIVE"
       THEN <<"ACTIVE", obj.m_gate_level>> ELSE <<"INACTIVE">>
  /\ Ready(bs) = obj.m_ready_mode

\* When the board is armed, the bits of MSR, three of which mean something
\* else for each trigger mode, say the trigger, gate and ready behaviour
\* the members ask for, whatever start or stop wrote MSR before.
ArmedAsAsked == [][~Armed(reg) /\ Armed(reg') => SaysWhatIsAsked(reg'.MSR)]_vars

TimeOfShutter == RegToTime(reg.ST1, reg.ST2)

\* ST2 is shared: changing a level or the shutter mode leaves the shutter
\* time alone.
ShutterTimeKept ==
  [][(\E m \in InST2 : obj'[m] # obj[m]) => TimeOfShutter' = TimeOfShutter]_vars

=============================================================================
