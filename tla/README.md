# Maxipix camera plugin: TLA+ models and proofs

This directory models the Lima plugin for the Maxipix detector
(`src/src`, `src/include`): TLA+ modules translated from the C++ code, TLC
configurations that check them on small instances, and theorems about them
checked by TLAPS. `PROJECT.json` says which definition stands for which lines.

- [1. The system](#1-the-system)
- [2. Modules and the code they stand for](#2-modules-and-the-code-they-stand-for)
- [3. Runs](#3-runs)
- [4. Fairness](#4-fairness)
- [5. Proofs](#5-proofs)
- [6. Disagreements met while modelling](#6-disagreements-met-while-modelling)
- [7. What is only model-checked, and what is not modelled](#7-what-is-only-model-checked-and-what-is-not-modelled)
- [8. Plan](#8-plan)
- [9. How to run](#9-how-to-run)

## 1. The system

A Maxipix detector is up to five Medipix chips (256 x 256 pixels each) read out
by a *Priam* board. The board is commanded over the serial line of an *Espia*
frame grabber, and sends its frames over the grabber's fibre. *Lima*, the
framework, drives the plugin through `Interface`.

```
 Lima client --> Interface --> Camera --> PriamAcq --> PriamSerial --> Espia serial --> Priam board --> chips
                    |  ^         |  ^        ^                                             |
      configuration |  |         |  |        +-- MpxDacs, MpxChipConfig (FSR, matrix)      | frames
             thread +--+         |  +-- AcqEndCallback <-- Espia acquisition <-------------+
                                 +-- MaxipixReconstruction (each frame)
```

| component | state it keeps | operations | what makes it correct |
|---|---|---|---|
| `PriamSerial` | a mutex; the line itself | register, FSR, matrix and LUT reads and writes | one transfer at a time; an answer is the caller's own; every call returns |
| `PriamAcq` | a member per parameter, mirrored in board registers; set-up flags | oscillator, chip type, link speed, times, frame number, readout, trigger, gate, shutter and ready signals, start, stop, resets | registers say what members say, whatever failed; a start is refused when the board could not keep up; bits that share a register do not disturb each other |
| `Camera` | prepare flag, Lima's acquisition mode, trigger mode, layout, image size, the reconstruction task | prepare, start, stop, reset, frame number, load a configuration | frames have a listener and come from the selected chips; stop stops; the size announced is that of the images |
| `AcqEndCallback` | none | `acqFinished` calls `Camera::stopAcq` from Espia's thread | does not break an acquisition it races with |
| `Interface` | name and flag of the configuration, the thread object | `loadConfig`, `getStatus`, forwards to `Camera` | the status tells when the detector is being configured; configurations are not mixed |
| `MpxDacs`, `MpxFsrDef` | dac values of each chip, calibration, last energy; the table of one chip version | set, apply and read values, energy | the register sent holds each value in its own bits, on the right chip |
| `MaxipixReconstruction` | layout, fill type, gaps, chip positions | `process` a frame | the image of the geometry, without reading what was overwritten |
| `MpxDetConfig` | the values of the last file read | check the sections of a detector's file, give its values | a port for each chip, a layout of as many chips, whatever was uninitialised |
| `MpxChipConfig` | four arrays per chip | load, save and set the pixel arrays | files keep what they are given; what is sent is what the arrays say |
| `PixelArray` | - | a matrix to the board's string and back | each bit of each pixel at its own place |
| `MpxCommon`, `tools/` (inih), `sip/`, `python/` | - | names, third party, glue | - |

How they interact: calls down the chain above; exceptions up it (any serial
access may throw, and no caller undoes what it did before); one callback from
Espia's thread; one thread started by `loadConfig`; and members shared by these
threads with no lock but `PriamSerial`'s, held for one access at a time.

What is hard in this code, and drives the choice of properties (the list with
lines is `hazards` in `PROJECT.json`):

- **interleavings**: client, callback and configuration thread run methods of
  several register accesses each, interleaved access by access;
- **late answers**: a read that times out does not empty the line;
- **partial failures**: methods write several registers and members, and stop
  where an access throws;
- **whole configurations**: a load reads two kinds of files, sets up the board,
  builds a task and writes every chip, and may stop anywhere in it;
- **shared registers**: MSR, ST2, MCR1, MCR2 and ROM each hold several parameters;
- **stale state**: the configuration thread reads `m_config_name` again, the
  dummy acquisition borrows the user's parameters, the task Lima holds is not the
  camera's;
- **pointer walks**: the in-place reconstructions, each written by hand for a
  layout, a fill type and a rotation.

## 2. Modules and the code they stand for

`A <- B` reads "A extends or instantiates B".

```
 PriamCodes, PriamService <- PriamSerial <- PriamSerialProofs, MCPriamSerial
 TimeRegs   <- PriamTime   <- PriamTimeProofs (with TimeRegsProofs), MCPriamTime
            <- PriamAcq    <- PriamAcqProofs (with TimeRegsProofs), MCPriamAcq
 MaxipixCamera <- MCMaxipixCamera
               <- MaxipixInterface <- MaxipixInterfaceProofs (both components')
                                   <- MCMaxipixInterface
 Recon5x1, Recon2x2, ReconChips <- MaxipixReconstruction <- MaxipixReconstructionProofs
                                                         <- MCMaxipixReconstruction
 MpxDetConfig <- MaxipixLayout <- MaxipixLayoutProofs, MCMaxipixLayout
 PixelArray <- MpxChipConfig
 MpxFsr     <- MpxDacs
 MpxChipConfig, MpxDacs <- MpxChips <- MpxChipsProofs, MCMpxChips
```

**PriamCodes** holds the three command tables and, for each public method of
`PriamSerial`, the transaction it makes: code, arguments, expected payload,
whether it takes the mutex, whether a short payload is an error, whether its
arguments pass the checks, what the answer must begin with, and whether its first
argument goes out in one write with the code (the length of a LUT does). `readLut`
has its code as a parameter: the code sends an uninitialised one (section 6), and
the board is taken not to know it but as the code of another command. 2 characters stand for the 114688 of a matrix and the
32 of an FSR.

**PriamSerial** runs such transactions for several threads, character by
character. `Enter`, `Lock`, `WriteCode`, `WriteArgs`, `ReadCode`, `ReadData`,
`ReadEnd` and `Unlock` are the steps of a call (`_writeCommand`, `_readAnswer`,
`AutoMutex`); `TimesOut` is a read giving up, possibly while its answer is on the
way; `BoardAnswers` and `Receive` are the board and the line, external. `flush()`
empties only what was received, and only on the paths that call it. The board may
refuse a command, not take it, or carry out a write whose answer is lost. A ghost
tag on each character says whose call it belongs to.

**PriamService** is what the threads are promised: a store of registers, with no
line, mutex or characters. A call begins, is served at one instant, and returns
what it was served with; or it throws, served or not. `PriamSerial!Service` is the
refinement: a call is *served* when the board answers it (the ghost `due`), it
*replies* when its transfer is over (`pc` is `unlock`), the board's registers are
the store's. Once an answer came too late (`late`) the service promises less: one
call moves at a time, and a register is only ever given what some call writes.

**TimeRegs** is `_timeToReg` and `_regToTime`; **PriamTime** a duration set
again and again through them. The code multiplies seconds by 10^6 in doubles and
truncates. For a whole number of microseconds the product may be that number or miss
it by a last bit on either side, which the modules leave open (`Product`): that is
the only thing the doubles change, since a quotient by a power of ten compares with
a whole number as the product does with the whole multiple.

**PriamAcq** has one action per method of the class. A method is the sequence of
its register accesses and member assignments, in the order of the code; `Run`
executes it whole or up to an access that throws, before or after the board
applied it. `dirty` is a ghost: the registers that are not known to agree,
because an access failed or because the code writes them past the member
(`setMaxExposureTime`, `setChipType` and the link-speed bit).

**MaxipixCamera** has the life of an acquisition. `todo[p]` holds the steps actor
`p` has still to do; a call pushes the steps of the whole method, and each action
(`Assign`, `WriteReg`, `IfPrepared`, `Check`, `Arm`, `Disarm`, `EspiaStart`,
`EspiaStop`, ...) does one. `Fail` and `Done` make any access throw before or
after its effect. `BoardFrame` and `AcqFinished` are the board sending a frame
and Espia's callback. Of Espia only what the plugin relies on is kept: running or
not, frames missing, a notice pending.

**MaxipixInterface** extends it with `loadConfig`, `getStatus`, the configuration
thread and `applyPixelConfig`'s dummy acquisition, made of the same steps. The
client goes by `getStatus`, as Lima does. What the dummy acquisition saves and gives
back passes through the registers: the exposure time is encoded again from the
seconds read (`Held`; `Short` is the set of the durations whose product falls short),
the number of frames is read through a signed `char` (`getNbFrames`; `Half` is
32768).

**MaxipixReconstruction** is `process`: it goes one of three ways by layout.
**Recon5x1** (widening the frame backwards, usually in place), **Recon2x2** (the
walk of one pointer over four chips, then the gap filled line by line) and
**ReconChips** (chips turned in place or placed at their origins) follow the
pointers of the code; an index is a position in pixels, so both depths are
covered. What the image should be is stated from the geometry alone, with no
reference to the order in which it is written.

**MpxDetConfig** is the reader of a detector's file: what each `parse...Section`
checks, in a file that is a record of its values (`Missing` where there is none,
lists shorter than the number of chips), and what the getters give afterwards. The
numbers that a layout leaves uninitialised are a choice of any number (`AnyCount`).

**MaxipixLayout** is `Camera::loadConfig` from end to end: `loadDetConfig` (the
numbers, the board's set-up, `setReconstructionActive`, `createReconstructionTask`)
and `loadChipConfig` (all matrices loaded, then sent port by port), one action for
each place it may throw (`ConfigRefused`, `SetupFails`, `MatrixRefused`,
`SendFails`), with `setFillMode` and the constructor of `Interface` that registers
the task with Lima.

**PixelArray** is the conversion of a chip's four arrays to the board's string, bit
by bit, with the four tables of the types of chip, and the conversion the other
way. **MpxChipConfig** has the arrays of all chips, the files (BPC, EDF, mask) they
are loaded from and saved to, and the settings of whole arrays; a load that is
refused leaves what the code leaves: an EDF file the images before the header that
is refused. Of a BPC file as many bytes are read as there are pixels, and what a
longer file has after them is left.

**MpxFsr** holds the tables of the three chip types and the packing of a
register; **MpxDacs** the values of the chips, the energy threshold and the
writing of the registers, one chip after the other. **MpxChips** puts `MpxDacs`
and `MpxChipConfig` side by side, as `Camera` does: what the chips are given. They
share no state, so a behaviour uses one of them and leaves the other alone, which
loses no behaviour of either.

Every operator whose comment begins with "Mutant:" is a plausible wrong version
of the definition after it, used to confirm that a property can fail.

## 3. Runs

All bounds are CONSTANTs of the `.cfg` files.

| run | bounds | shows |
|---|---|---|
| `SerialLocked` | 2 threads, 2 calls each of four, 1 late answer | `MutualExclusion`; `LineInStep` and `AnswerIsOwn` as long as no read timed out under an answer; `NoForeignData` even then; `ServiceImplemented` |
| `SerialReturns` | 2 threads, 1 call each of seven, with the unlocked matrix write, a LUT written, and a LUT read with three codes an uninitialised short may hold | `CallsReturn` |
| `Time` | some 400 durations around each change of unit and up to the limit of 1024 s, each with the three products it may have | `ReadBack`, `Truncation` |
| `AcqTiming` | TPX1, 100 MHz and 200 MHz (refused), one time, 300 frames, 2 ports, 1 failing access | `RegistersAgree`, `CleanMeansReady`, `StartFits` |
| `AcqReadout` | one frame number above a byte, serial and parallel readout, flat field, image mode, three signals and the shutter time, 1 failing access | `RegistersAgree`, `ShutterTimeKept` |
| `AcqStart` | gate, trigger level and four trigger modes (one unknown), in any order with the set-up | `ArmedAsAsked` |
| `Camera` | client and callback, 2 frames, 2 acquisition modes, 3 trigger modes, 1 exception | `FramesSuffice`, `FramesAreHeard`, `FramesFromPorts`, `StopStops`, `AcqEnds` |
| `Config` | with the configuration thread, 2 names, 1 exception, a client that waits for `Ready` and sets 2 frames and an exposure of 64.3 ms when it may; 64.3 and 64.2 ms short in the product, half a word of 2 | `ConfigReported`, `ConfigAlone`, `OneConfig`, `ParamsRestored` |
| `ConfigStuck` | 1 name, 1 exception | `FlagFalls` is **violated**: section 6 |
| `Reconstruction` | chips of 3 x 3 pixels, gaps 0 to 4, 4 fill types, 80 lists of positions, in place or not | the six properties of the image |
| `Layout` | 12 files (four that load whole, one with a matrix missing, one with no chip, six refused), 2 tasks, 1 failing access, an uninitialised count of 3 | `SizeIsImage`, `FillModeKept`, `PortsPerChip`, `ChipsMatchFiles` |
| `Dacs` | one detector of 2 chips per type, 1 failing access; matrices of 2 lines of 8 pixels for 2 chips and 2 types, two BPC files (one longer than a chip), a mask file and an EDF file refused at its third image, 2 saves or settings | `FsrHolds`, `EnergyIsApplied`, `ReadersAgree`, `MatrixReadsBack`, `FilesKeepArrays` |

Why these bounds are enough to be interesting. Two threads and two calls each let
a call begin on what the other thread's, or its own previous, left on the line;
one late answer is one answer too many for everything after it. The values 131
(left in the registers by an earlier session) and 255 (written) are also the code of the status read and the end
character, so data that looks like protocol is met. The parameters of `PriamAcq`
share registers only in the groups checked together, so the three Acq runs lose
no interaction. Two frames give an acquisition a middle, and one exception can be
any access of any actor. In `Config` a word is of 4 numbers instead of 65536,
so that 2 frames are what 32768 are to the code: read back negative. 0.0643 and 0.0642
are seconds whose double product with 10^6 is below 64300 and 64200, so that each
load takes a step of 100 us from the time, until 0.0641, whose product is not. A
chip of 3 x 3 has a first, an inner and a last line
and column, which is all the code distinguishes; the gaps are all those the
configuration reader takes, the odd ones included. The files of `Layout` have
their chips on the ports in another order than theirs, one of them gives a port to
two chips that are not neighbours, and the uninitialised count is wrong for every
layout that has one. The
patterns of the matrices of `Dacs` differ from pixel to pixel and bit to bit, and two
lines are enough for a pixel of the wrong line; its header is that of the code, so
the sizes of files compare as they do there.

Deadlock is checked in all runs but `Reconstruction`, where `process` ends. In
`PriamSerial` a history that used up `MaxCalls` stutters (`Finished`).

Properties worth explaining:

- `LineInStep`/`AnswerIsOwn`: three of the throwing paths of `_readAnswer` do not
  flush. The properties say this is harmless while no read times out before an
  answer that still comes: whatever the board refuses, every transfer leaves an
  empty line. `NoForeignData` says what survives when it is not harmless: a register
  of one character takes no other register's, since `readRegister` checks the code, the
  end and their distance. Only three characters from inside a longer answer (a LUT, a
  one-wire transfer, the chip's number after an FSR) can look like an answer to it.
- `StartFits` restates `startAcq`'s check, made on members, on the registers of
  the armed board; it needs every setter to keep the two in agreement.
- `FramesAreHeard`, `FramesFromPorts`: start goes Espia first and board second,
  stop the other way round; the two overlap between client and callback. They
  exclude histories in which a *late* `acqFinished` meets the next acquisition
  (`overlap`): nothing in the code guards against that, and then both do fail.
  `StopStops` holds in all histories.
- `FramesSuffice`: `setNbHwFrames` tells the board one frame for each start with
  IntTrigMult, and all of them otherwise; the property says that an acquisition is
  never left waiting for frames nobody will send, *if* the number was set after the
  modes it is computed from (`fresh`). It is about a board armed since Espia was
  started (`armed`): a stop that threw before the board was disarmed lets frames of
  the acquisition before fall into the next. A first version that left out only the
  start under way was refuted while it was being proved, by a history with three
  exceptions, more than the run's bound: stops that throw leave frames on the board,
  and a start that throws between Espia and the board leaves Espia waiting for more.
- `ServiceImplemented`: no call is served twice, none returns what it was not served
  with, in every interleaving of the line's characters. It is what the callers may
  rely on without knowing the protocol; a write that throws may have been done.
- `Truncation`: the time set is not longer than the time asked and one step of its
  unit short at most, and the unit is the finest that holds the time asked. A step is
  lost where the product is short: 249 us asked are 248 set.
- `ParamsRestored`: a configuration that succeeds gives back what it borrowed, but the
  way it is kept loses a step of the exposure time's unit at most, and the sign of
  32768 frames or more: the board has its number again and the software has a
  negative one.
- `SizeIsImage`, `PortsPerChip`: after any sequence of loads and failed loads, with
  uninitialised numbers of chips on the way.
- `ChipsMatchFiles`: all matrices are loaded before the first is sent, so that a
  missing file changes no chip; only an access that fails while they are sent leaves
  chips of two configurations.
- `FilesKeepArrays`: saved and loaded again, to the same chip or another, arrays
  come back, though `setArray` only adds bits. What is lost on the way are bits the
  type of chip does not have.

## 4. Fairness

- `PriamSerial`: a thread inside a call keeps running and its reads time out
  (`WF` on its steps); the mutex is granted to a waiter that finds it free again
  and again (`SF` on `Lock`); the board consumes what it is sent and the line
  delivers. The board need not answer, and nobody has to call.
- `MaxipixCamera`: threads that are inside a method continue, Espia delivers its
  notice, and the board sends its frames *when the trigger is internal*. External
  triggers may never come. Nobody has to call a method: `AcqEnds` is about the
  frames, not about a stop.
- `MaxipixInterface`: the client's method and the configuration thread continue.

## 5. Proofs

All checked by `tlapm` for every value of the constants (any set of threads, of
calls, of durations, of files, chips of any size).

| module | theorem | statement |
|---|---|---|
| `PriamSerialProofs` | `TypeCorrect` | `Spec => []TypeOK` |
| | `LockedCallsExclude` | `Spec => []MutualExclusion` |
| | `AllLockedIsExclusive` | if every call locks, `Spec => []AccessIsLocked` |
| | `LineStaysInStep` | if the calls are `Matched`, `Spec => []LineInStep` |
| | `AnswersAreOwn` | if the calls are `Matched`, `Spec => []AnswerIsOwn` |
| | `SerialIsService` | if the calls are `Matched`, `Spec => ServiceImplemented` |
| | `NoOthersData` | if the calls are `Matched`, `Spec => []NoForeignData` |
| `PriamTimeProofs` | `SetTimeIsReadBack` | `Spec => []ReadBack`, unless 1024 s is asked |
| | `SetTimeIsClose` | `Spec => []Truncation`, likewise |
| `PriamAcqProofs` | `RegistersFollowMembers` | `Spec => []RegistersAgree`, unless 1024 s is asked (`Encodable`) |
| | `SetUpMeansReady` | `Spec => []CleanMeansReady`, likewise |
| | `StartSaysWhatIsAsked` | `Spec => ArmedAsAsked`, likewise |
| | `StartHasRoom` | `Spec => StartFits`, likewise |
| | `SignalsKeepTheTime` | `Spec => ShutterTimeKept`, likewise |
| `MaxipixInterfaceProofs` | `StopsStop` | `Spec => []StopStops` |
| | `FramesHaveAListener` | `Spec => []FramesAreHeard` |
| | `FramesComeFromPorts` | `Spec => []FramesFromPorts` |
| | `EnoughFrames` | `Spec => []FramesSuffice` |
| | `StatusTells` | if the client `Waits`, `IfaceSpec => []ConfigReported` |
| | `ThreadIsAlone` | if the client `Waits`, `IfaceSpec => []ConfigAlone` |
| | `LoadsOne` | if the client `Waits`, `IfaceSpec => []OneConfig` |
| | `GivesBack` | if the client `Waits`, `IfaceSpec => ParamsRestored` |
| `MpxChipsProofs` | `StringReadsBack` | `ReadsBack` of any arrays, for every type of chip |
| | `MatrixIsReadBack` | `Spec => []MatrixReadsBack` |
| | `FilesKeep` | `Spec => []FilesKeepArrays` |
| | `RegistersHold` | `ChipsSpec => []FsrHolds` |
| | `ReadersAreRight` | `ChipsSpec => []ReadersAgree` |
| | `EnergiesAreApplied` | `ChipsSpec => []EnergyIsApplied` |
| `MaxipixLayoutProofs` | `SizeIsThatOfImages` | `Spec => []SizeIsImage` |
| | `FillModeIsKept` | `Spec => []FillModeKept` |
| | `PortsAreThoseOfTheChips` | `Spec => []PortsPerChip` |
| | `ChipsKeepTheirMatrices` | `Spec => []ChipsMatchFiles` |
| `MaxipixReconstructionProofs` | `WidenedIsRight` | `Spec => []Widened5x1` |
| | `WalkNeverOverruns` | `Spec => []WalkIsSafe5x1` |
| | `ChipsTurnInPlace` | `Spec => []TurnedInPlace` |
| | `ChipsArePlaced` | for positions of a detector (`OnDetector`), `Spec => []PlacedAndTurned` |
| | `UpperHalfIsRight` | `Spec => []UpperIsRight2x2` |
| | `SquareIsRight` | `Spec => []Squared2x2` |

The `Spec` of a theorem is that of the component's module; in `MpxChipsProofs` it is
that of `MpxChipConfig`, which `ChipsSpec` implies (`ChipsAreMatrices`), and in
`MaxipixInterfaceProofs` that of `MaxipixCamera`, beside `IfaceSpec`.

*PriamSerial.* The assumptions are those named in the module: the mutex's free
value is no thread, calls are records of the right type, bounds are natural
numbers. Type correctness has one lemma per action, over lemmas on sequences of
characters (`CharsType`, `CodesType`, `DropType`). `MutualExclusion` is not
inductive: `Lock` needs that only a call that locks waits for the mutex, and the
transfer steps that a thread in a call makes one of `Calls`. `MutexInv` adds the
two; `TransferKeeps` covers the five steps that move within the critical section,
on normal and on throwing paths alike. `AllLockedIsExclusive` is what the comment
in front of every `AutoMutex` promises: it fails in the code only because
`writeMatrix` does not lock.

*What is on the line.* `LineInStep` and `AnswerIsOwn` speak of the characters between
two calls; why they hold is in the middle of one. `LineInv` says, for each place the
mutex holder can be at (`Place`), what is on the line: nothing, a part of its command,
the whole of it (`Sent`), or a reply of which what was read, received and still
travels, put together, is what the board answered (`Replied`); and that all of it is
the holder's (`Own`). Each step keeps this: moving a character along does not change
the whole (`StreamReceived`, `StreamRead`, `StreamData`), the board takes a command
only when it is whole and answers the call it came from (`BoardAlone`), a time-out
under which nothing is on its way means the line is empty (`SilentWhenLate`), and the
paths that throw without a flush are taken only then. The assumption, `Matched`, is
what the tables of `PriamSerial.cpp` and their callers provide: every call takes the
mutex (`writeMatrix` does not, and is left out), none is of a LUT (a `readLut` sends
whatever was in memory, and both its methods are called by nothing in `src/src`), a command character is none of the
three status characters and comes with one length, and a register that is read holds
as many characters as are written to it and read from it. The board must be one that
answers at that length, which is how it is modelled. TLC evaluates `Matched` for the
instance of `SerialLocked`.

*The service.* `ServiceInv` adds to `LineInv` what the refinement needs at the step
where a call is served: what is sent stays whole commands, one behind the other, even
out of step (`SentWhole`), and a call whose command is still under way was served
nothing (`Unserved`). Each action is then a stutter of `PriamService` (characters
that move, the mutex) or one of its steps: `Enter` begins a call, `BoardAnswers`
serves one, the last step of a transfer replies, and everything after a late answer
is a `TooLate`.

*Out of step.* `NoForeignData` is about the line after a time-out, when `LineInv` says
nothing. `ForeignInv` says what is left: behind what a call has read, the characters
on their way are answers one behind the other, each with its code in front, its status
at the end and its length between (`Behind`), of which only the first may have lost its
beginning. Reading, flushing and answering keep this. A register of one character is
taken only with its own code two characters before a status, and in such a line that
distance is met in an answer of that length, whose code it is, or inside a longer one.

*PriamTime.* `TimeRegsProofs` proves of the encoding that a product below 1024 s
has a unit, the first that holds it (`ScaleInRange`), that its count fits in 10 bits
and is less than one unit short of it (`CountInRange`), and that the two registers give
both back (`DecodeEncode`). The product itself may be short of the time asked, which
makes `Truncation` one unit *at most* (`ProductType`): nothing is assumed of the way it
falls. Each setting establishes the invariant from any state, so no
strengthening is needed. The theorems exclude exactly 1024 s, which the code
accepts and stores as 0: section 6.

*PriamAcq.* `RegistersAgree` speaks only of the registers no failure has touched, and a
method touches several, in order. `AcqInv` is one such implication per parameter, with
the types of registers and members; a method is then a list of accesses and assignments
of which a prefix is done. The lemmas on lists say what a field holds after all of them
(`After`) and that a method cut short leaves a field as it was, or marked (`dirty`), so
that each setter's proof is the list of the fields it sets. The arithmetic (two
registers that make a number or a time) is that of `TimeRegsProofs` and of a byte and
its rest. `CleanMeansReady` follows: what `startAcq` asks for is set by the methods that
clean the registers. The three properties of steps look at the one step that arms the
board, whose bits are computed from members that `AcqInv` relates to registers. The
assumptions: what Lima asks for is a natural number, signals are those of the class
(`AcqAssumption`), and no time asked is exactly 1024 s (`Encodable`), for which
`RegistersAgree` is false: section 6.

*MaxipixCamera.* The first three properties hold between methods, so the invariant is about
the middle of them: `Inv` says, for every place in a stop (`StopPlace`) and in a start
(`StartPlace`), what is already true of the board and of Espia. In a stop nothing undoes
what is done, since only the client arms the board and starts Espia (`StopSteps`,
`ClientUndisturbed`). In a start, Espia listens from `espiaStart` on, unless an
`acqFinished` met it; when the board is armed with the callback in the middle of its
stop, `Overlaps` has been seen (`overlap`). A step that throws leaves nothing to do,
which every place allows (`ClientDrops`). TLC found `Inv` an invariant of the `Camera`
instance before it was proved. The theorems are for any frames, modes, trigger modes and
number of exceptions; they are about the client and the callback, without the
configuration thread of `MaxipixInterface`.

`EnoughFrames` needs the numbers each step writes: `CountInv` says, for each place in
`setNbHwFrames`, which of Espia and the board already has its number (`FramesPlace`),
and of a number set last and not touched since (`fresh`) that the two agree
(`FreshSet`). Arming hands the board that number when Espia waits for no more
than its own, and from then on a frame is taken from both.

*MaxipixInterface.* `AloneInv` says what the thread has read and saved at each of its
twenty steps (`Known`), or in its clean-up after an exception (`GivingUp`), and that
meanwhile the client has not seen Ready, so that it asks for the status or stops at
most (`Undisturbed`), and that nothing is prepared or running. The camera's own steps
are those of the acquisition's proofs. The four theorems assume `Waits`: the client does
not load a configuration while one is loading. Without it they are false, as
section 6 tells. `ParamsRestored` is then read off the one step that lowers the flag
(`FlagLowered`): every other step leaves the flag, or is the thread giving up. What the
board holds at that step is what `Held` and `Saved` make of what was read when the
thread began (`Known`); that this is close needs that registers, and what was saved of
them, are in range all along (`Measured`, an invariant of its own: `Ranged` says it of
each step a method may take). `HeldClose` is then the arithmetic of a duration encoded
twice, `SavedWord` that of a number of frames taken modulo a word. Nothing is assumed of
which durations are `Short`, and a word may have any half of 2 or more.

*PixelArray and MpxChipConfig.* That a string is read back comes down to two facts:
no two bits of a word share a place (`OwnPlacesOfTypes`, the tables row by row), and
an address of the string is that of one bit of one pixel, for any numbers of lines
and columns (`AddressUnique`, from the uniqueness of a quotient and a remainder,
`SplitUnique`). `MpxChipConfig` adds that the arrays are arrays of bytes whatever is
loaded or set (`ArraysOk`, inductive, which needs that files hold such arrays too: an
assumption on the files given, `FileOk`, that says of a .bpc that is long enough that it
begins with a byte for each pixel). `FilesKeepArrays` needs more than the arrays: `FromFile` says that a
chip whose arrays are still those of a file has what a load of that file gives to any
chip, and that a file that was saved is what the save wrote. A load gives the same
whatever the chip had (`LoadIs`), because it resets an array before it adds bits, and
one that fails leaves arrays that are of no file.

*MpxFsr and MpxDacs.* The three tables are proved field by field: the bits of each value
are distinct, and no bit is of two (`OwnBits`, from the order of the fields). Since the
place of a bit in the string is a bijection (`PlaceUnique`), a register can be read back
bit by bit whatever its values (`RegisterHolds`). `SentInv` is the rest: the keys a chip
has are those of the one table in use, the chips' ports differ, and the register on the
port of a chip written since its values were set is that of its values. The writes of
all the chips are one list, of which an exception leaves a prefix, and on each port
the last write counts (`ApplyAllWrites`); the board's set-up writes port 0 before them. Assumed of a configuration file: a type that exists, the
DUMMY type left out (the reader takes it, the model has no table for it), a
port for each chip, different ones, and numbers of a calibration
(`DetectorsAssumption`). `MpxDetConfig` checks that the ports differ and that there
are enough numbers; that ports are 1 to 5 nothing checks (`MpxDetConfig.cpp:149`),
and energies and thresholds, doubles in the code, are whole numbers in the model.

`EnergyIsApplied` goes on from there. `EnergyInv` says that as long as the thresholds are
those of an energy, each chip's `thl` is the `Threshold` of its own calibration
(`ThresholdsSet`); it is an invariant because the calibration is only replaced together
with the values, and the other values have other keys (`OthersStay`). That the quotient
lies between the two thresholds measured is arithmetic (`QuotientBetween`,
`ThresholdBetween`), cut short as the code's conversion to `int` does. The register is
read back as a number bit by bit (`LowBits`, `OneBitMore`, `FieldHas`), which needs no
induction: a `thl` has 14 bits, or 8 (`ThlBits`), and each is a step of the proof of
`FieldHas`.

*MaxipixLayout.* `Inv` is the four properties and `TypeInv`, and is inductive. A file
that is taken gives its chips ports of their own (`PortsDistinct`) and a grid of as
many chips (`ReadOk`), which `setReconstructionActive` keeps although it multiplies
numbers that may be uninitialised (`ActiveOk`): it multiplies them only when they
differ from those of the layout, which they never do with a grid. `SentOk` is about
the first matrices sent: each on its port, and all of them together once all are.
The assumptions are that files name ports 1 to 5 and that counts are integers.

*MaxipixReconstruction, 5x1.* `Walk` gives both pointers as functions of the lines and
chips left. Their distance is then `m_xgap * (4 * (aNbLine - 1) + chips)` (`Ahead`): a
gap for each gap still to open. Since that is at least the gap just opened, a move and
its gap end behind everything still to be read (`Pointers`, `LeftToRead`), which is why
widening over the frame itself is safe. `Inv5x1` is `Walk`, `SourceIntact` and
`DoneIsRight`. What each fill type writes is one lemma (`RawGapIs`, `ZeroGapIs`,
`DispatchGapIs`, `MeanGapIs`) put together in `GapIs`; what the geometry asks for at that
place comes from the uniqueness of a quotient and a remainder (`DivIs`, `ExpectedIs`,
`ExpectedMoved`, `ExpectedGap`). Nothing is assumed of the size, the gap or the frame but
that a chip has two columns. An odd gap of DISPATCH is left out, as in the property.

*MaxipixReconstruction, by positions.* `FreeInv` and `GeneralInv` follow a loop over the
chips. Each pixel of each chip has a place of its own in the frame (`ReadOutOnce`), and
in the image if no two chips overlap and the image begins with a chip (`PlaceOnce`): what
is written for a chip then meets no other (`WrittenIs`). The pointer walks of the three
angles, which the code writes twice, are both the pixel that quarter turns show
(`SourceIs`, `GeneralSourceIs`). `OnDetector` is assumed of the positions, since the code
uses origins as they are; TLC evaluates it on those of the run. The size of the image
needs the greatest of the origins, which exists by a least counterexample
(`GreatestExists`).

*MaxipixReconstruction, 2x2.* One pointer walks through the whole image, so the proof
names a pixel by its column and line (`Spot`) and turns every range of the pointer into a
range of columns or of lines (`InRun`, `InLines`, from `OnLine` and `OneSpot`). `Square`
is the invariant, by phase. In the copy, the pointer and the jump to the other side are
functions of the column and the run (`Copying`); a run is one column of one chip
(`RunIs`, `RunCopied`) and leaves the pointer where the next begins (`RunMoves`), across
the gap, to the right chips and back. While lines are filled, the pointer is at one
column of line `z`: the lines before `z` are what the geometry asks for, and of those
after it the chips' pixels are what was read out (`AtLine`). A line keeps that for each
type (`LineFilled`, `NextLineIs`), and so do the lines between, for which each type
has its lemma (`MiddleRaw`, `MiddleZero`, `MiddleDispatch`, `MiddleMean`). Both sides
of DISPATCH walk towards each other and share a gap in two halves, which meet because the
gap is even (`NbIs`): with an odd one the invariant is false, as is the property. The middle
of MEAN is interpolated both ways from the last pixel of each chip (`CornerFilled`). Its
last loop starts at a wrong line (section 6): everything is done before it (`LowLine`),
and it touches only what `Spoilt` names (`AllDone`). TLC found `Square` an invariant of the `Reconstruction` instance before it
was proved.

## 6. Disagreements met while modelling

The models follow the code; where a comment, a test of a value or a name says
something else, the code's behaviour is modelled and no property claims the
contrary.

- **A failed configuration leaves the status at AcqConfig** (run `ConfigStuck`).
  `MaxipixInterface.cpp:476` says the thread switches the flag back; it does so
  only after `loadConfig` returned normally.
- **Loading again while a configuration is loading**: the first thread lowers the
  flag of the second load, and the detector is then reconfigured while the status
  says Ready. `Config` shows that a client that waits for Ready is safe.
- **`writeMatrix` does not lock** (`PriamSerial.cpp:234`) while every other access
  says "Lock here the serial write/read acess to the priam".
- **`readLut` sends a code nobody chose** (`PriamSerial.cpp:293`): unlike `writeLut` it
  never takes the row of `PriamLutCode`, so the low byte of an uninitialised short goes
  out, and the answer's first character is compared with the whole short. With a short
  that is no byte the call always throws; with the code of another command, that command
  is carried out.
- **A time may be set one step short**: seconds times 10^6 is a double, and
  `(int)` drops its fraction (`PriamAcq.cpp:339-349`). 0.000249 s is 248 us,
  and the shortest interval at 100 MHz, 300 us, is set as 299.
- **A configuration may shorten the exposure time**: `applyPixelConfig` reads it as
  seconds and sets it again (`MaxipixCamera.cpp:529`, `:545`), with the same loss. 249 us
  come back as 248; 64.3 ms become 64.2 with one configuration and 64.1 with the next.
- **1024 s** passes the check `sett > 1024` (`PriamAcq.cpp:347`) when the product is
  exact, is encoded with unit 7 and count 1024, and is read back as 0; a product
  just short of it is stored as 1023 s, one just above is refused.
- **32768 frames or more** are accepted and read back negative, since the high
  byte goes through a signed `char` (`PriamAcq.cpp:653`). A configuration saves that
  number and sets it: the board has the frames it had, `m_nb_frame` is negative, and
  with 65535 frames it is -1, the value of one never set, so that every start is
  refused until the number is set again.
- **Above 175 MHz** `setOscillator` sends a string with a zero byte, of length 1,
  which `writeRegister` refuses: no such frequency can be set.
- **`setChipType` clears the link-speed bit** of MCR1 and leaves `m_fo_fast` as it
  was; the readout time that `startAcq` checks (`TxTime`) is then computed for
  the fast link.
- **MEAN on the 2x2 layout** (`MaxipixReconstruction.cpp:468`): the last loop
  starts on the first line of the gap. The lines it should fill, between the two
  lower chips, keep what the newly allocated buffer held, and part of the middle is
  written twice. `Squared2x2` says that this is all: every pixel is right but for the
  columns it fills (the gap and one on each side), from the first line of the gap on.
- **The middle of MEAN is shared by the sum** of the two shares
  (`MaxipixReconstruction.cpp:401`), where DISPATCH takes their product. `MeanOfFour`
  follows the code.
- **After a second configuration Lima keeps the first task**: the only call of
  `setReconstructionTask` is in the constructor of `Interface`.
- **One table of chip bits for all** (`MpxDacs.cpp:35`): `MpxFsrDef`'s single
  instance keeps the version it was first built for.
- **`m_default` and `m_dacCode` are hidden by local variables** (`MpxDacs.cpp:173`,
  `:191`), so a reset gives no defaults and every dac code is refused.
- **DISPATCH with an odd gap**, which the configuration accepts: `gap / 2` is taken
  twice. In the 5x1 layout the last pixel of the left chip keeps what the buffer held;
  in the 2x2 layout the pointer goes back one pixel per line and spreads pixels of
  the gap for those of the chips (`MaxipixReconstruction.cpp:299`).
- **An EDF or mask file that was saved cannot be loaded**: `loadEdf` and `loadMask`
  want the size of the header *times* that of the images, and refuse a header that
  does end where it should; `saveEdf` and `saveMask` put a header together and never
  write it. A saved `.edf` then hides the `.bpc` of the same name, since
  `getConfigFile` prefers it, and `loadConfig` fails from then on.
- **`getTimePixMode` does not check that a chip is in one mode.** Its comment,
  `MpxChipConfig.cpp:523`, is "Get current timepix mode and check mode consistency"; the
  loop adds up the values that differ from the first pixel's and refuses a sum above 0,
  so that pixels in Medipix mode, which is 0, pass whatever the first is in. With one
  pixel in TOT and all others in Medipix mode the answer is TOT if it is the first, and an
  exception if it is any other. The answer changes nothing and is not modelled.
- **A BPC file that is too long** is loaded by its first bytes (`MpxChipConfig.cpp:309`):
  only a shorter one "has not the correct size".
- **`setLow2Max` and its like are given a chip and set all of them.**
- **A type or a version will do**: a file is refused only if both are wrong
  (`MpxDetConfig.cpp:114`).
- **A rotation of -1** is cast to the enumeration (`MpxDetConfig.cpp:212`) without the
  table of `MpxCommon.cpp:41` that makes it 270 degrees: the chip is not turned.
- **GENERAL's size starts from the smallest origin**, but the chips are placed at
  their origins as they are (`MaxipixReconstruction.cpp:621`).
- **A calibration energy of 0** makes the threshold the conversion of a NaN.
- `doc/index.rst` lists shutter modes the code refuses (`MaxipixInterface.cpp:265`
  accepts AutoFrame and AutoSequence only).

## 7. What is only model-checked, and what is not modelled

Only model-checked:

- liveness (`CallsReturn`, `AcqEnds`, `FlagFalls`): out of the prover's reach, with
  `ENABLED`. No invariant, property of steps or refinement is left to TLC alone.

Neither checked nor proved, because the code does something else (section 6): the 2x2
image of DISPATCH with an odd gap, and what the last loop of MEAN spoils (`Spoilt`).

Abstractions. Durations asked are whole microseconds; the product of one with 10^6
is left open by a last bit (section 2). The sums of `startAcq` and the minimum
interval are whole microseconds too. Frequencies are in kHz. A pixel matrix and, outside `MpxDacs`, an FSR are
opaque. MEAN's floats are exact quotients. The frames of `ReconChips` come with
the dimensions the task announces, and positions start at 0 as in the
repository's configurations. A file is a record of values or of images: that a text
or a sequence of bytes is one is left to the INI parser and to `read`. The DUMMY type of chip has no
register here.

Two parts are there for the actions to be complete, and no property is about them:
`MaxipixLayout`'s `registered`, the task Lima holds, which no call after the
constructor changes (section 6); and `MpxFsr`'s `m_default` and `m_dacCode`, which are
empty in every state because locals hide them (section 6).

Not modelled: the names given to values of
enumerations, the control objects that only forward, the SIP and Python layers, the
vendored INI parser. Espia, Lima and the board are not in this repository: they are
modelled from how the code uses them, and marked external in the map.

## 8. Plan

Done, in the order of importance: the serial protocol with its proofs, those of what
is on the line included, and the service it implements; the time registers with theirs; the parameters; the
acquisition; the configuration thread; the reconstruction, odd gaps included; the
files of a detector, the layout and the matrices; the dacs.

Proved: every safety property, invariant or of steps, that the runs check, and the
refinement of the register service.

What would come next: an abstract acquisition (idle, prepared, running) implemented by
`MaxipixCamera`, with a late `acqFinished` as the one step that is not one of the
abstract machine's; the arithmetic of 32 bit pixels in the reconstruction.

## 9. How to run

```
tlc -workers 2 -config Camera.cfg MCMaxipixCamera.tla
tlapm PriamSerialProofs.tla
```

Each run's module is in `PROJECT.json`; none takes more than about three minutes
on two cores.
