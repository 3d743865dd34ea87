-------------------------- MODULE MaxipixInterface --------------------------
(***************************************************************************)
(* Interface: the acquisitions of MaxipixCamera together with the          *)
(* reconfiguration of the detector, which Interface::loadConfig hands to a *)
(* thread ("config") while getStatus reports AcqConfig.  The thread loads  *)
(* the detector's and the chips' configuration and, to reset the pixels,   *)
(* runs a dummy acquisition on the same Priam board.                       *)
(*                                                                         *)
(* m_config_name is passed by reference down to loadChipConfig: the thread *)
(* reads the member again each time it uses it.                            *)
(***************************************************************************)
EXTENDS MaxipixCamera, TimeRegs

CONSTANTS Names,      \* configuration names
          Expos,      \* exposure times asked, in microseconds
          Short,      \* durations whose double product with 10^6 falls short
          Half,       \* 32768: INB1 and INB2 count frames modulo 2 * Half
          ReloadWhen  \* the statuses a client calls loadConfig on: "Ready", and
                      \* "Config" if it does not wait for the last one to end

Longest == 1023999999    \* just below 1024 s

\* setExposureTime and setNbFrames refuse longer times and more frames.
ASSUME ConfigAssumption ==
  /\ "config" \in Actors /\ ReloadWhen \subseteq {"Ready", "Config"}
  /\ Half \in Nat \ {0, 1} /\ Frames \subseteq 1 .. 2 * Half - 1
  /\ Expos \subseteq 1 .. Longest /\ Short \subseteq Nat \ {0}

Dummy == 10000        \* the dummy acquisition's 0.01 s: 0.01 * 10^6 is exact

VARIABLES iface,    \* m_config_name, m_config_flag, what was loaded, the
                    \* locals exptime and nbframes of applyPixelConfig
          thread,   \* the Thread object: "none" or "started" (not joined)
          seen,     \* what getStatus last told the client
          before    \* ghost: exposure and frames when the thread was started

extra   == <<iface, thread, seen, before>>
allVars == <<vars, extra>>

NoStatus == "none"

set(f, v) == Do("set", f, v)

\* What the register holds once us microseconds are asked.  (A product that
\* exceeds us by a last bit is encoded as us itself.)
Held(us) == LET askt == IF us \in Short THEN 2 * us - 1 ELSE 2 * us
            IN  Count(askt) * Unit(Scale(askt))

\* getNbFrames: INB2 is read as a signed char, a high byte of 128 or more
\* makes the number negative; and a number of 0 is saved as 1.
getNbFrames(nb) == IF nb < Half THEN nb ELSE nb - 2 * Half
Saved(nb)       == IF nb = 0 THEN 1 ELSE getNbFrames(nb)

(***************************************************************************)
(* Methods of the client.                                                  *)
(***************************************************************************)
\* Mutant: the name is handed over once the thread runs.
loadConfigNameLast(name) ==
  <<set("flag", TRUE), Simple("threadStart"), set("name", name)>>

loadConfig(name) ==
  <<set("name", name), set("flag", TRUE), Simple("threadStart")>>

getStatus == <<Simple("readFlag"), Simple("readRunning")>>

setExpTime(us) == <<writeReg("et", Held(us))>>

(***************************************************************************)
(* Methods of the thread.                                                  *)
(***************************************************************************)
\* setup, setEnergy and applyChipDacs write MCR2 for one port at a time.
loadDetConfig == <<Simple("readDet"), writeReg("sel", "one")>>

\* Mutant: the number of frames is read after it is overwritten.
applyPixelConfigLate ==
  << writeReg("sel", "one"), Simple("saveExpo"), writeReg("et", Dummy) >>
    \o priamSetNbFrames(1) \o <<Simple("saveFrames")>> \o priamStartAcq
    \o <<Simple("readIdle")>> \o priamStopAcq
    \o <<Simple("restoreExpo"), Simple("restoreFrames"), Simple("keepFrames")>>

applyPixelConfig ==
  << writeReg("sel", "one"), Simple("saveExpo"), Simple("saveFrames"),
     writeReg("et", Dummy) >>
    \o priamSetNbFrames(1) \o priamStartAcq
    \o <<Simple("readIdle")>> \o priamStopAcq
    \o <<Simple("restoreExpo"), Simple("restoreFrames"), Simple("keepFrames")>>

loadChipConfig == <<Simple("readChip")>> \o applyPixelConfig

\* Mutant: the flag is lowered before the configuration is loaded.
threadFunctionEarly ==
  <<set("flag", FALSE)>> \o loadDetConfig \o loadChipConfig \o <<Simple("join")>>

threadFunction ==
  loadDetConfig \o loadChipConfig \o <<set("flag", FALSE), Simple("join")>>

(***************************************************************************)
(* Their steps.                                                            *)
(***************************************************************************)
Set(p) ==
  /\ At(p, "set") /\ Goes(p)
  /\ iface' = [iface EXCEPT ![Next1(p).f] = Next1(p).v]
  /\ UNCHANGED <<state, thread, seen, before>>

\* Thread::start: refused while the thread has not been joined; a thread
\* that an exception ended may count as joined or not.
ThreadStart(p) ==
  /\ At(p, "threadStart")
  /\ \/ /\ thread = "none" \/ Idle("config")
        /\ thread' = "started"
        /\ todo' = [todo EXCEPT ![p] = Tail(@), !["config"] = threadFunction]
        /\ op' = [op EXCEPT !["config"] = "config"]
        /\ threw' = threw \ {"config"}
        /\ before' = [et |-> board.et, nb |-> board.nb]
     \/ /\ thread = "started"
        /\ todo' = [todo EXCEPT ![p] = <<>>]
        /\ threw' = threw \cup {p}
        /\ UNCHANGED <<op, thread, before>>
  /\ UNCHANGED <<state, throws, iface, seen>>

\* getStatus reports AcqConfig without looking further ...
ReadFlag(p) ==
  /\ At(p, "readFlag")
  /\ IF iface.flag
       THEN seen' = "Config" /\ todo' = [todo EXCEPT ![p] = <<>>]
       ELSE seen' = seen /\ todo' = [todo EXCEPT ![p] = Tail(@)]
  /\ UNCHANGED <<state, op, threw, throws, iface, thread, before>>

\* ... or, afterwards, whether Espia is running.
ReadRunning(p) ==
  /\ At(p, "readRunning") /\ Goes(p)
  /\ seen' = IF espia.running THEN "Running" ELSE "Ready"
  /\ UNCHANGED <<state, iface, thread, before>>

\* A configuration file is read; a missing one is covered by Fail.
ReadFile(p) ==
  /\ \/ At(p, "readDet")  /\ iface' = [iface EXCEPT !.det = iface.name]
     \/ At(p, "readChip") /\ iface' = [iface EXCEPT !.chip = iface.name]
  /\ Goes(p)
  /\ UNCHANGED <<state, thread, seen, before>>

Save(p) ==
  /\ \/ At(p, "saveExpo")   /\ iface' = [iface EXCEPT !.et = board.et]
     \/ At(p, "saveFrames")
          /\ iface' = [iface EXCEPT !.nb = Saved(board.nb)]
  /\ Goes(p)
  /\ UNCHANGED <<state, thread, seen, before>>

\* The dummy acquisition must be over by now; if not it is stopped and the
\* configuration fails.  stopAcq may throw too.
ReadIdle(p) ==
  /\ At(p, "readIdle")
  /\ IF board.left = 0 THEN Goes(p)
     ELSE /\ todo' = [todo EXCEPT ![p] = priamStopAcq \o <<Simple("giveUp")>>]
          /\ UNCHANGED <<op, threw, throws>>
  /\ UNCHANGED <<state, extra>>

GiveUp(p) ==
  /\ At(p, "giveUp")
  /\ todo' = [todo EXCEPT ![p] = <<>>]
  /\ threw' = threw \cup {p}
  /\ UNCHANGED <<state, op, throws, extra>>

\* The saved time is multiplied and encoded again; of a number of frames the
\* board gets the low 16 bits and m_nb_frame the number itself.
Restore(p) ==
  /\ \/ /\ At(p, "restoreExpo") /\ cam' = cam
        /\ board' = [board EXCEPT !.et = Held(iface.et)]
     \/ /\ At(p, "restoreFrames") /\ cam' = cam
        /\ board' = [board EXCEPT !.nb = iface.nb % (2 * Half)]
     \/ /\ At(p, "keepFrames") /\ board' = board
        /\ cam' = [cam EXCEPT !.nb = iface.nb]
  /\ Done(p)
  /\ UNCHANGED <<espia, extra>>

\* The locals of applyPixelConfig are gone, and what they were saved from is no
\* longer asked.
Join(p) ==
  /\ At(p, "join") /\ Goes(p)
  /\ thread' = "none"
  /\ iface' = [iface EXCEPT !.et = 0, !.nb = 0]
  /\ before' = [et |-> 0, nb |-> 0]
  /\ UNCHANGED <<state, seen>>

\* Steps that an exception of a file, a register or a call can end.
IfaceStep(p) ==
  \/ Set(p) \/ ThreadStart(p) \/ ReadFlag(p) \/ ReadRunning(p) \/ ReadFile(p)
  \/ Save(p) \/ ReadIdle(p) \/ GiveUp(p) \/ Restore(p) \/ Join(p)

IfaceFail(p) ==
  /\ \A s \in {"set", "threadStart", "readFlag", "giveUp", "join"} : ~At(p, s)
  /\ Fail(p)

-----------------------------------------------------------------------------
(***************************************************************************)
(* The client is one thread, polls getStatus and goes by its answer.       *)
(***************************************************************************)
Ask == Call("client", "status", getStatus) /\ UNCHANGED extra

LoadConfig ==
  /\ seen \in ReloadWhen /\ ~cam.prepare
  /\ \E n \in Names : Call("client", "load", loadConfig(n))
  /\ seen' = NoStatus
  /\ UNCHANGED <<iface, thread, before>>

SetUp ==
  /\ seen = "Ready"
  /\ \/ SetAcqMode \/ SetNbHwFrames \/ SetTrigMode \/ PrepareAcq
     \/ \E us \in Expos : Call("client", "set", setExpTime(us))
  /\ UNCHANGED extra

Start ==
  /\ seen = "Ready" /\ StartAcq
  /\ seen' = NoStatus
  /\ UNCHANGED <<iface, thread, before>>

Stop == seen # "Config" /\ StopAcq /\ UNCHANGED extra

IfaceInit ==
  /\ Init
  /\ iface = [name |-> NoStatus, flag |-> FALSE, det |-> NoStatus, chip |-> NoStatus,
              et |-> 0, nb |-> 0]
  /\ thread = "none" /\ seen = NoStatus
  /\ before = [et |-> 0, nb |-> 0]

IfaceNext ==
  /\ \/ Ask \/ LoadConfig \/ SetUp \/ Start \/ Stop
     \/ AcqFinished /\ UNCHANGED extra
     \/ BoardFrame  /\ UNCHANGED extra
     \/ \E p \in Actors : \/ Step(p) /\ UNCHANGED extra
                          \/ IfaceStep(p)
                          \/ IfaceFail(p) /\ UNCHANGED extra
  /\ WatchOverlap /\ UNCHANGED <<fresh, armed>>

IfaceSpec == IfaceInit /\ [][IfaceNext]_allVars

\* The thread and the client's method keep running.
IfaceFairness ==
  \A p \in Actors : WF_allVars(((Step(p) /\ UNCHANGED extra) \/ IfaceStep(p))
                      /\ WatchOverlap /\ UNCHANGED <<fresh, armed>>)

IfaceFairSpec == IfaceSpec /\ IfaceFairness

-----------------------------------------------------------------------------
Loading == ~Idle("config") /\ Next1("config").do # "join"

\* "Lima status can be switched to AcqConfig state while the detector is
\* reconfigured": while the thread is at work getStatus says so.
ConfigReported == Loading => iface.flag

\* A client that goes by getStatus, and waits for Ready before it loads or
\* acquires, never meets the configuration thread: while that is at work
\* Espia is stopped and no acquisition is prepared or starting, so the frame
\* of the dummy acquisition reaches nobody.
ConfigAlone ==
  Loading =>
       /\ ~espia.running /\ ~cam.prepare
       /\ op["client"] = "start" => Idle("client")

\* "switch acq status to AcqConfig, thread will switched back to false":
\* once loadConfig has raised the flag, it is lowered again.
FlagFalls == iface.flag ~> ~iface.flag

\* The detector and the chips are configured from the same configuration
\* although the thread reads m_config_name twice, if the client waits for
\* Ready before it loads another one.
OneConfig ==
  Idle("config") /\ "config" \notin threw => iface.det = iface.chip

\* When a configuration has succeeded and the flag is lowered, the dummy
\* acquisition has left the parameters as they were, as far as the way they
\* are saved allows: the exposure time was never lengthened, and lost one step
\* of its unit at most; the board sends the number of frames it did (1 for a
\* number never set), and m_nb_frame agrees with it, but for a number of Half
\* or more, which comes back negative (applyPixelConfig, getNbFrames,
\* _timeToReg).
ParamsRestored ==
  [][ iface.flag /\ ~iface'.flag =>
        /\ board.et <= before.et
        /\ before.et - board.et <= Unit(Scale(2 * before.et))
        /\ board.nb = IF before.nb = 0 THEN 1 ELSE before.nb
        /\ cam.nb = getNbFrames(board.nb) ]_allVars
=============================================================================
