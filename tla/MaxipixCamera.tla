--------------------------- MODULE MaxipixCamera ----------------------------
(***************************************************************************)
(* Camera: the life of an acquisition.  The application ("client") calls   *)
(* the methods; the Espia library calls AcqEndCallback::acqFinished from a *)
(* thread of its own ("acqend"), and acqFinished calls Camera::stopAcq.    *)
(* Nothing serialises the two but the mutex of PriamSerial, held for one   *)
(* register access at a time.                                              *)
(*                                                                         *)
(* A method is the sequence of its steps: a member assignment, an access to*)
(* one register of Priam or a call into Espia.  todo[p] holds the steps    *)
(* actor p still has to do; steps of different actors interleave and any   *)
(* register access or Espia call may throw, which drops the rest.          *)
(*                                                                         *)
(* Of Priam this module keeps what an acquisition needs: the selection of  *)
(* MCR2 (all the used "ports", or "one" port in serial mode), the number of*)
(* frames, the exposure time and how many frames are left to send.  The    *)
(* registers behind each are the subject of PriamAcq.                      *)
(***************************************************************************)
EXTENDS Integers, Sequences

CONSTANTS Actors,     \* "client", "acqend" and those of other modules
          Frames,     \* numbers of frames asked of setNbHwFrames
          AcqModes,   \* acquisition modes of Lima in use
          Trigs,      \* trigger modes in use
          MaxThrows   \* bound: exceptions

ASSUME ActorAssumption == {"client", "acqend"} \subseteq Actors
ASSUME FrameAssumption == Frames \subseteq Nat \ {0}
ASSUME ThrowAssumption == MaxThrows \in Nat

VARIABLES cam,      \* members: m_prepare_flag, m_acqMode, trigger mode,
                    \* m_nb_frame, and Lima's acquisition mode (lima)
          board,    \* Priam: MCR2, INB, ET and the frames left to send
          espia,    \* Espia: running, frames asked, frames missing since its
                    \* start, all frames received (full), end notice pending
          todo,     \* the steps each actor has still to do
          op,       \* the kind of method each actor called last
          threw,    \* the actors whose last method ended with an exception
          throws,   \* ghost: exceptions so far
          overlap,  \* ghost: an acqFinished overlapped the start of the next one
          fresh,    \* ghost: the number of frames was set after the modes
          armed     \* ghost: the board was armed since Espia was last started

state == <<cam, board, espia>>
ghost == <<throws, overlap, fresh, armed>>
vars  == <<state, todo, op, threw, ghost>>

(***************************************************************************)
(* Steps and methods.                                                      *)
(***************************************************************************)
Do(what, f, v)   == [do |-> what, f |-> f, v |-> v]
assign(m, v)     == Do("assign", m, v)
writeReg(r, v)   == Do("writeReg", r, v)
Simple(what)     == Do(what, "", 0)

enableSerial0    == writeReg("sel", "one")
priamStopAcq     == <<Simple("disarm"), enableSerial0>>
priamStartAcq    == <<Simple("check"), writeReg("sel", "ports"), Simple("arm")>>
priamSetNbFrames(nb) == <<writeReg("nb", nb), assign("nb", nb)>>

prepareAcq == <<assign("prepare", TRUE)>>

\* Mutant: Espia is stopped before the board.
stopAcqEspiaFirst == <<Simple("espiaStop")>> \o priamStopAcq \o <<assign("prepare", FALSE)>>

\* Mutant: the port is selected before the board is stopped.
stopAcqSelectFirst ==
  <<enableSerial0, Simple("disarm"), Simple("espiaStop"), assign("prepare", FALSE)>>

\* Mutant: Espia is left running.
stopAcqBoardOnly == priamStopAcq \o <<assign("prepare", FALSE)>>

stopAcq == priamStopAcq \o <<Simple("espiaStop"), assign("prepare", FALSE)>>

\* Interface::startAcq hands over Lima's mode, then Camera::startAcq.
startAcq == <<assign("mode", cam.lima), Simple("ifPrepared")>> \o priamStartAcq

\* resetAllFifo and resetAllChip write MCR2 once per port.
reset == stopAcq \o <<writeReg("sel", "one")>>

\* Mutant: each start is for one frame, whatever the trigger.
setNbHwFramesOne(nb) ==
  << assign("mode", cam.lima), Do("espiaFrames", "", nb) >>
    \o priamSetNbFrames(IF cam.lima # "Accumulation" THEN 1 ELSE nb)

\* SyncCtrlObj::setNbHwFrames hands over Lima's mode too.  With IntTrigMult
\* each start is for one frame, except in accumulation.
setNbHwFrames(nb) ==
  << assign("mode", cam.lima), Do("espiaFrames", "", nb) >>
    \o priamSetNbFrames(IF cam.trig = "IntTrigMult" /\ cam.lima # "Accumulation" THEN 1 ELSE nb)

\* Two triggers are not for accumulation; a mode refused changes nothing.
checkTrigMode(trig, accumulation) ==
  \/ trig \in {"IntTrig", "IntTrigMult", "ExtTrigSingle"}
  \/ trig \in {"ExtTrigMult", "ExtGate"} /\ ~accumulation

(***************************************************************************)
(* Doing a step.                                                           *)
(***************************************************************************)
Idle(p)       == todo[p] = <<>>
Next1(p)      == Head(todo[p])
At(p, what)   == ~Idle(p) /\ Next1(p).do = what
MayThrow(s)   == s.do \notin {"assign", "ifPrepared"}

Goes(p) == todo' = [todo EXCEPT ![p] = Tail(@)] /\ UNCHANGED <<op, threw, throws>>

Throws(p) ==
  /\ throws < MaxThrows /\ throws' = throws + 1
  /\ todo' = [todo EXCEPT ![p] = <<>>]
  /\ threw' = threw \cup {p}
  /\ op' = op

\* A step is done; the exception of a lost answer comes after the effect.
Done(p) == Goes(p) \/ (MayThrow(Next1(p)) /\ Throws(p))

\* A step throws before it has any effect.
Fail(p) == ~Idle(p) /\ MayThrow(Next1(p)) /\ Throws(p) /\ UNCHANGED state

Assign(p) ==
  /\ At(p, "assign") /\ Done(p)
  /\ cam' = [cam EXCEPT ![Next1(p).f] = Next1(p).v]
  /\ UNCHANGED <<board, espia>>

WriteReg(p) ==
  /\ At(p, "writeReg") /\ Done(p)
  /\ board' = [board EXCEPT ![Next1(p).f] = Next1(p).v]
  /\ UNCHANGED <<cam, espia>>

\* Mutant: the prepare flag survives the start it was set for.
IfPreparedKept(p) ==
  /\ At(p, "ifPrepared")
  /\ todo' = [todo EXCEPT ![p] =
       (IF cam.prepare \/ cam.mode = "Accumulation"
          THEN <<Simple("espiaStart")>> ELSE <<>>) \o Tail(@)]
  /\ UNCHANGED <<op, threw, throws, state>>

\* Espia is started only after a prepare, or always in accumulation.
IfPrepared(p) ==
  /\ At(p, "ifPrepared")
  /\ todo' = [todo EXCEPT ![p] =
       (IF cam.prepare \/ cam.mode = "Accumulation"
          THEN <<Simple("espiaStart"), assign("prepare", FALSE)>> ELSE <<>>) \o Tail(@)]
  /\ UNCHANGED <<op, threw, throws, state>>

\* PriamAcq::startAcq refuses to start with no number of frames (which only
\* an exception in setNbHwFrames leaves unset); Fail covers its refusals for
\* other parameters.
Check(p) ==
  /\ At(p, "check")
  /\ IF cam.nb # -1 THEN Goes(p)
     ELSE /\ todo' = [todo EXCEPT ![p] = <<>>]
          /\ threw' = threw \cup {p}
          /\ UNCHANGED <<op, throws>>
  /\ UNCHANGED state

\* MSR written with a trigger bit: a new sequence of frames.
Arm(p) ==
  /\ At(p, "arm") /\ Done(p)
  /\ board' = [board EXCEPT !.left = board.nb]
  /\ UNCHANGED <<cam, espia>>

Disarm(p) ==
  /\ At(p, "disarm") /\ Done(p)
  /\ board' = [board EXCEPT !.left = 0]
  /\ UNCHANGED <<cam, espia>>

EspiaFrames(p) ==
  /\ At(p, "espiaFrames") /\ Done(p)
  /\ espia' = [espia EXCEPT !.nb = Next1(p).v]
  /\ UNCHANGED <<cam, board>>

EspiaStart(p) ==
  /\ At(p, "espiaStart") /\ Done(p)
  /\ espia' = [espia EXCEPT !.running = TRUE, !.missing = espia.nb, !.full = FALSE]
  /\ UNCHANGED <<cam, board>>

\* Stopping a running acquisition may also give notice of its end.
EspiaStop(p) ==
  /\ At(p, "espiaStop") /\ Done(p)
  /\ \E notice \in {espia.pending, espia.pending \/ espia.running} :
       espia' = [espia EXCEPT !.running = FALSE, !.full = FALSE, !.pending = notice]
  /\ UNCHANGED <<cam, board>>

Step(p) == \/ Assign(p) \/ WriteReg(p) \/ IfPrepared(p) \/ Check(p) \/ Arm(p)
           \/ Disarm(p) \/ EspiaFrames(p) \/ EspiaStart(p) \/ EspiaStop(p)

(***************************************************************************)
(* Calls.                                                                  *)
(***************************************************************************)
Call(p, name, steps) ==
  /\ Idle(p)
  /\ todo'  = [todo EXCEPT ![p] = steps]
  /\ op'    = [op EXCEPT ![p] = name]
  /\ threw' = threw \ {p}
  /\ UNCHANGED <<state, throws>>

\* Lima sets parameters and prepares only when no acquisition is running.
SetAcqMode ==
  /\ ~espia.running /\ Idle("client")
  /\ \E m \in AcqModes : cam' = [cam EXCEPT !.lima = m]
  /\ UNCHANGED <<board, espia, todo, op, threw, throws>>

SetTrigMode   == ~espia.running /\ \E t \in Trigs :
                 /\ checkTrigMode(t, cam.lima = "Accumulation")
                 /\ Call("client", "set", <<assign("trig", t)>>)
SetNbHwFrames == ~espia.running /\ \E n \in Frames :
                 Call("client", "frames", setNbHwFrames(n))
PrepareAcq    == ~espia.running /\ espia.nb > 0 /\ Call("client", "set", prepareAcq)

\* Lima starts what it prepared; again for each frame of IntTrigMult and
\* each exposure of an accumulation.
StartAcq ==
  /\ \/ cam.prepare
     \/ espia.running /\ (cam.trig = "IntTrigMult" \/ cam.lima = "Accumulation")
  /\ Call("client", "start", startAcq)

StopAcq  == Call("client", "stop", stopAcq)
Reset    == Call("client", "stop", reset)

\* AcqEndCallback::acqFinished, in Espia's thread.
AcqFinished ==
  /\ espia.pending
  /\ Idle("acqend")
  /\ espia' = [espia EXCEPT !.pending = FALSE]
  /\ todo'  = [todo EXCEPT !["acqend"] = stopAcq]
  /\ op'    = [op EXCEPT !["acqend"] = "stop"]
  /\ threw' = threw \ {"acqend"}
  /\ UNCHANGED <<cam, board, throws>>

\* The board sends a frame.  After the last one wanted Espia gives notice
\* and, by then or later, is no longer running.
BoardFrame ==
  /\ board.left > 0
  /\ board' = [board EXCEPT !.left = @ - 1]
  /\ IF ~espia.running \/ espia.full THEN espia' = espia
     ELSE IF espia.missing > 1 THEN espia' = [espia EXCEPT !.missing = @ - 1]
     ELSE \E r \in BOOLEAN :
            espia' = [espia EXCEPT !.missing = 0, !.full = TRUE, !.pending = TRUE,
                                   !.running = r]
  /\ UNCHANGED <<cam, todo, op, threw, throws>>

\* What a late acqFinished can spoil: an acquisition prepared or starting.
Overlaps ==
  /\ espia.pending \/ ~Idle("acqend")
  /\ cam.prepare \/ (op["client"] = "start" /\ ~Idle("client"))

\* The client's setNbHwFrames has just ended.
FramesSet == op["client"] = "frames" /\ ~Idle("client") /\ (Idle("client") /\ "client" \notin threw)'

WatchOverlap == overlap' = (overlap \/ Overlaps')

WatchArm == armed' = ((armed \/ \E p \in Actors : Arm(p)) /\ ~\E p \in Actors : EspiaStart(p))

Watch ==
  /\ WatchOverlap /\ WatchArm
  /\ fresh' = /\ FramesSet \/ (fresh /\ UNCHANGED <<cam.trig, cam.lima>>)
              /\ op'["client"] = "frames" => Idle("client")'

Init ==
  /\ cam   = [prepare |-> FALSE, mode |-> "Single", lima |-> "Single",
              trig |-> "IntTrig", nb |-> -1]
  /\ board = [sel |-> "one", nb |-> 0, et |-> 0, left |-> 0]
  /\ espia = [running |-> FALSE, nb |-> 0, missing |-> 0, full |-> FALSE, pending |-> FALSE]
  /\ todo  = [p \in Actors |-> <<>>]
  /\ op    = [p \in Actors |-> "none"]
  /\ threw = {} /\ throws = 0 /\ overlap = FALSE /\ fresh = FALSE /\ armed = FALSE

Client == \/ SetAcqMode \/ SetTrigMode \/ SetNbHwFrames \/ PrepareAcq
          \/ StartAcq \/ StopAcq \/ Reset

Next == /\ \/ Client
           \/ AcqFinished
           \/ BoardFrame
           \/ \E p \in Actors : Step(p) \/ Fail(p)
        /\ Watch

Spec == Init /\ [][Next]_vars

\* Threads keep running, the notice is delivered, and an internal trigger
\* makes the board send its frames.  Nobody has to call a method.
Fairness ==
  /\ \A p \in Actors : WF_vars(Step(p) /\ Watch)
  /\ WF_vars(AcqFinished /\ Watch)
  /\ WF_vars(cam.trig \in {"IntTrig", "IntTrigMult"} /\ BoardFrame /\ Watch)

FairSpec == Spec /\ Fairness

-----------------------------------------------------------------------------
\* While the board has frames to send, Espia is there to receive them (or
\* has received all it was asked): the start and the stop take Espia and the board in
\* opposite orders, and no exception in between breaks that.
FramesAreHeard ==
  ~overlap /\ board.left > 0 => espia.running \/ espia.full

\* ... and the frames come from the chips the acquisition selected, never
\* from the single port a stop or a reset leaves selected.
FramesFromPorts ==
  ~overlap /\ board.left > 0 => board.sel = "ports"

\* Once stopAcq or reset has returned normally, the board is disarmed and
\* Espia stopped until the next start, whatever failed before and whatever
\* acqFinished does at the same time, overlapping or not.
StopStops ==
  op["client"] = "stop" /\ Idle("client") /\ "client" \notin threw
    => board.left = 0 /\ ~espia.running /\ ~cam.prepare

\* Once a start has armed the board for a running Espia, the frames it still
\* sends are at least those Espia waits for, when the number of frames was set
\* after the modes it depends on: whatever was set, failed or was stopped
\* half-way before, and whatever a callback does meanwhile.  With IntTrigMult
\* each start is for one frame, except in accumulation.
FramesSuffice ==
  fresh /\ armed /\ espia.running /\ board.left > 0
    /\ (cam.trig = "IntTrigMult" => cam.mode = "Accumulation")
    => board.left >= espia.missing

\* An acquisition with an internal trigger comes to its end once the board is
\* started, when the number of frames was set after the modes, nothing throws,
\* no late acqFinished spoils it and the modes are not changed.  With
\* IntTrigMult the client has to start each frame, and in accumulation it is
\* the client that ends it, by starting no more exposures.
AcqEnds ==
  (espia.running /\ board.left > 0 /\ fresh /\ cam.trig = "IntTrig")
    ~> (~espia.running \/ throws > 0 \/ overlap \/ ~fresh \/ cam.mode = "Accumulation")
=============================================================================
