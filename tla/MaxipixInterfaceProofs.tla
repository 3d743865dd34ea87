----------------------- MODULE MaxipixInterfaceProofs -----------------------
(***************************************************************************)
(* Proofs about the acquisition and the reconfiguration, for any modes,    *)
(* exposure times, numbers of frames, configuration names and exceptions.  *)
(*                                                                         *)
(* The acquisition, of MaxipixCamera: a stop stops whatever interferes with*)
(* it, a board that was armed has the frames Espia waits for, and, unless a*)
(* late acqFinished met the next start, frames have a listener and come    *)
(* from the right chips.  The invariants relate what each actor has still  *)
(* to do to the state of the board and of Espia, and to the numbers they   *)
(* were given.                                                             *)
(*                                                                         *)
(* The reconfiguration, of MaxipixInterface, for a client that waits for   *)
(* Ready before it loads another configuration (Waits): getStatus tells of *)
(* the thread, the thread meets no acquisition, loads one configuration and*)
(* gives back the parameters it borrowed.  The invariant says what the     *)
(* thread has found and saved at each of its steps, and what the client may*)
(* be doing meanwhile.                                                     *)
(***************************************************************************)
EXTENDS MaxipixInterface, TimeRegsProofs, SequenceTheorems, TLAPS

disarm == Simple("disarm")
halt   == Simple("espiaStop")
clear  == assign("prepare", FALSE)
listen == Simple("espiaStart")
select == writeReg("sel", "ports")
arm    == Simple("arm")

\* What is left of a stop or a reset before each of its steps.
ToDisarm == {<<disarm, enableSerial0, halt, clear>>,
             <<disarm, enableSerial0, halt, clear, enableSerial0>>}
ToSelect == {<<enableSerial0, halt, clear>>, <<enableSerial0, halt, clear, enableSerial0>>}
ToHalt   == {<<halt, clear>>, <<halt, clear, enableSerial0>>}
ToClear  == {<<clear>>, <<clear, enableSerial0>>}
ToChips  == {<<enableSerial0>>}

\* What is left of a start.
AtMode(m) == <<assign("mode", m), Simple("ifPrepared"), Simple("check"), select, arm>>
AtIf      == <<Simple("ifPrepared"), Simple("check"), select, arm>>
AtListen  == <<listen, clear, Simple("check"), select, arm>>
AtClear   == <<clear, Simple("check"), select, arm>>
AtCheck   == <<Simple("check"), select, arm>>
AtPorts   == <<select, arm>>
AtArm     == <<arm>>

\* What is left of a method that neither starts nor stops: its steps disturb
\* nothing that matters here.
Harmless(s) == \/ s.do = "assign" /\ s.f \in {"prepare", "trig", "mode", "nb"}
               \/ s.do = "writeReg" /\ s.f = "nb"
               \/ s.do = "espiaFrames"
Quiet(s) ==
  \/ s = <<>> \/ s = <<assign("prepare", TRUE)>>
  \/ \E t : s = <<assign("trig", t)>>
  \/ \E k : s = <<assign("nb", k)>>
  \/ \E k : s = <<writeReg("nb", k), assign("nb", k)>>
  \/ \E n, k : s = <<Do("espiaFrames", "", n), writeReg("nb", k), assign("nb", k)>>
  \/ \E m, n, k : s = <<assign("mode", m), Do("espiaFrames", "", n), writeReg("nb", k),
                        assign("nb", k)>>

-----------------------------------------------------------------------------
(***************************************************************************)
(* The invariant.                                                          *)
(***************************************************************************)
Members ==
  /\ DOMAIN cam = {"prepare", "mode", "lima", "trig", "nb"}
  /\ DOMAIN board = {"sel", "nb", "et", "left"}
  /\ DOMAIN espia = {"running", "nb", "missing", "full", "pending"}
  /\ DOMAIN todo = Actors /\ DOMAIN op = Actors

Fields ==
  /\ Members
  /\ \A p \in Actors \ {"client", "acqend"} : todo[p] = <<>>
  /\ threw \subseteq Actors /\ \A p \in threw : todo[p] = <<>>

Heard == espia.running \/ espia.full

\* The client in a stop: nobody undoes what it has done.
StopPlace ==
  \/ todo["client"] \in ToDisarm
  \/ todo["client"] \in ToSelect \cup ToHalt /\ board.left = 0
  \/ todo["client"] \in ToClear /\ board.left = 0 /\ ~espia.running
  \/ todo["client"] \in ToChips \cup {<<>>} /\ board.left = 0 /\ ~espia.running /\ ~cam.prepare

\* The client in a start: if no acqFinished overlaps it, it was prepared or
\* Espia listens already, and then Espia listens.
StartPlace ==
  \/ todo["client"] = <<>>
  \/ (\E m : todo["client"] = AtMode(m)) /\ (overlap \/ cam.prepare \/ Heard)
  \/ todo["client"] = AtIf /\ (overlap \/ cam.prepare \/ Heard)
  \/ todo["client"] = AtListen
  \/ todo["client"] \in {AtClear, AtCheck, AtPorts} /\ (overlap \/ Heard)
  \/ todo["client"] = AtArm /\ (overlap \/ (Heard /\ board.sel = "ports"))

ClientPlace ==
  \/ op["client"] \in {"none", "set", "frames"} /\ Quiet(todo["client"])
  \/ op["client"] = "start" /\ StartPlace
  \/ op["client"] = "stop" /\ ("client" \in threw \/ StopPlace)

\* acqFinished: nothing to send, unless a start overlaps it.
AcqEndPlace ==
  \/ todo["acqend"] = <<>>
  \/ todo["acqend"] \in ToDisarm
  \/ todo["acqend"] \in ToSelect \cup ToHalt \cup ToClear \cup ToChips /\ (overlap \/ board.left = 0)

Inv == /\ Fields
       /\ Overlaps => overlap
       /\ FramesAreHeard /\ FramesFromPorts
       /\ ClientPlace /\ AcqEndPlace

-----------------------------------------------------------------------------
(***************************************************************************)
(* Steps and what is left after each.                                      *)
(***************************************************************************)
LEMMA Head1 ==
  ASSUME NEW a
  PROVE  <<a>> # <<>> /\ Head(<<a>>) = a /\ Tail(<<a>>) = <<>>
OBVIOUS

\* What a method of a few steps begins with, and what is left of it.
LEMMA Head2 ==
  ASSUME NEW a, NEW b
  PROVE  <<a, b>> # <<>> /\ Head(<<a, b>>) = a /\ Tail(<<a, b>>) = <<b>>
OBVIOUS

\* ... of three steps
LEMMA Head3 ==
  ASSUME NEW a, NEW b, NEW c
  PROVE  <<a, b, c>> # <<>> /\ Head(<<a, b, c>>) = a /\ Tail(<<a, b, c>>) = <<b, c>>
OBVIOUS

\* The steps the methods are made of, and what each does.
LEMMA Kinds ==
  /\ disarm.do = "disarm" /\ halt.do = "espiaStop" /\ listen.do = "espiaStart"
  /\ arm.do = "arm" /\ Simple("ifPrepared").do = "ifPrepared" /\ Simple("check").do = "check"
  /\ clear.do = "assign" /\ clear.f = "prepare" /\ clear.v = FALSE
  /\ enableSerial0.do = "writeReg" /\ enableSerial0.f = "sel" /\ enableSerial0.v = "one"
  /\ select.do = "writeReg" /\ select.f = "sel" /\ select.v = "ports"
  /\ \A m : assign("mode", m).do = "assign" /\ assign("mode", m).f = "mode"
BY DEF disarm, halt, listen, arm, clear, select, enableSerial0, assign, writeReg, Simple, Do

\* What is left of a stop, step by step.
LEMMA StopShape ==
  /\ \A s \in ToDisarm : s # <<>> /\ Head(s) = disarm /\ Tail(s) \in ToSelect
  /\ \A s \in ToSelect : s # <<>> /\ Head(s) = enableSerial0 /\ Tail(s) \in ToHalt
  /\ \A s \in ToHalt   : s # <<>> /\ Head(s) = halt /\ Tail(s) \in ToClear
  /\ \A s \in ToClear  : s # <<>> /\ Head(s) = clear /\ Tail(s) \in ToChips \cup {<<>>}
  /\ \A s \in ToChips  : s # <<>> /\ Head(s) = enableSerial0 /\ Tail(s) = <<>>
<1>1. ASSUME NEW s \in ToDisarm PROVE s # <<>> /\ Head(s) = disarm /\ Tail(s) \in ToSelect
  <2>1. CASE s = <<disarm, enableSerial0, halt, clear>>
    BY <2>1 DEF ToSelect
  <2>2. CASE s = <<disarm, enableSerial0, halt, clear, enableSerial0>>
    BY <2>2 DEF ToSelect
  <2> QED BY <2>1, <2>2 DEF ToDisarm
<1>2. ASSUME NEW s \in ToSelect PROVE s # <<>> /\ Head(s) = enableSerial0 /\ Tail(s) \in ToHalt
  <2>1. CASE s = <<enableSerial0, halt, clear>>
    BY <2>1 DEF ToHalt
  <2>2. CASE s = <<enableSerial0, halt, clear, enableSerial0>>
    BY <2>2 DEF ToHalt
  <2> QED BY <2>1, <2>2 DEF ToSelect
<1>3. ASSUME NEW s \in ToHalt PROVE s # <<>> /\ Head(s) = halt /\ Tail(s) \in ToClear
  <2>1. CASE s = <<halt, clear>>
    BY <2>1 DEF ToClear
  <2>2. CASE s = <<halt, clear, enableSerial0>>
    BY <2>2 DEF ToClear
  <2> QED BY <2>1, <2>2 DEF ToHalt
<1>4. ASSUME NEW s \in ToClear PROVE s # <<>> /\ Head(s) = clear /\ Tail(s) \in ToChips \cup {<<>>}
  <2>1. CASE s = <<clear>>
    BY <2>1 DEF ToChips
  <2>2. CASE s = <<clear, enableSerial0>>
    BY <2>2 DEF ToChips
  <2> QED BY <2>1, <2>2 DEF ToClear
<1>5. \A s \in ToChips  : s # <<>> /\ Head(s) = enableSerial0 /\ Tail(s) = <<>>
  BY Head1, Zenon DEF ToChips
<1> QED BY <1>1, <1>2, <1>3, <1>4, <1>5

\* The first step of a stop is none of the others.
LEMMA NotToDisarm ==
  \A s \in ToDisarm : s \notin ToSelect \cup ToHalt \cup ToClear \cup ToChips \cup {<<>>}
<1>1. disarm # enableSerial0 /\ disarm # halt /\ disarm # clear
  BY DEF disarm, halt, clear, enableSerial0, assign, writeReg, Simple, Do
<1> QED BY <1>1, StopShape

\* What is left of any other method stays harmless.
LEMMA QuietShape ==
  ASSUME NEW s, Quiet(s), s # <<>>
  PROVE  Harmless(Head(s)) /\ Quiet(Tail(s))
<1>1. CASE s = <<assign("prepare", TRUE)>>
  BY <1>1, Head1 DEF Quiet, Harmless, assign, Do
<1>2. CASE \E t : s = <<assign("trig", t)>>
  BY <1>2, Head1 DEF Quiet, Harmless, assign, Do
<1>3. CASE \E k : s = <<assign("nb", k)>>
  BY <1>3, Head1 DEF Quiet, Harmless, assign, Do
<1>4. ASSUME NEW k, s = <<writeReg("nb", k), assign("nb", k)>>
      PROVE  Harmless(Head(s)) /\ Quiet(Tail(s))
  <2>1. Head(s) = writeReg("nb", k) /\ Tail(s) = <<assign("nb", k)>>
    BY <1>4, Head2
  <2>2. Harmless(writeReg("nb", k)) BY DEF Harmless, writeReg, Do
  <2> QED BY <2>1, <2>2 DEF Quiet
<1>5. ASSUME NEW n, NEW k,
             s = <<Do("espiaFrames", "", n), writeReg("nb", k), assign("nb", k)>>
      PROVE  Harmless(Head(s)) /\ Quiet(Tail(s))
  <2>1. Head(s) = Do("espiaFrames", "", n) /\ Tail(s) = <<writeReg("nb", k), assign("nb", k)>>
    BY <1>5, Head3, Zenon
  <2>2. Harmless(Do("espiaFrames", "", n)) BY DEF Harmless, Do
  <2> QED BY <2>1, <2>2 DEF Quiet
<1>6. ASSUME NEW m, NEW n, NEW k,
             s = <<assign("mode", m), Do("espiaFrames", "", n), writeReg("nb", k),
                   assign("nb", k)>>
      PROVE  Harmless(Head(s)) /\ Quiet(Tail(s))
  <2> DEFINE a == assign("mode", m)
             b == Do("espiaFrames", "", n)
             c == writeReg("nb", k)
             d == assign("nb", k)
  <2> HIDE DEF a, b, c, d
  <2>0. s = <<a, b, c, d>> BY <1>6 DEF a, b, c, d
  <2>1. Head(s) = a /\ Tail(s) = <<b, c, d>> BY <2>0
  <2>2. Harmless(a) BY DEF Harmless, a, assign, Do
  <2>3. Quiet(<<b, c, d>>) BY DEF Quiet, b, c, d
  <2> QED BY <2>1, <2>2, <2>3
<1> QED BY <1>1, <1>2, <1>3, <1>4, <1>5, <1>6 DEF Quiet

\* Methods called one after the other, step by step.
LEMMA Join22 ==
  ASSUME NEW a, NEW b, NEW c, NEW d
  PROVE  <<a, b>> \o <<c, d>> = <<a, b, c, d>>
<1> DEFINE S == {a, b, c, d}
           s == <<a, b>> \o <<c, d>>
           t == <<a, b, c, d>>
<1>1. s \in Seq(S) /\ t \in Seq(S) /\ Len(s) = 4 /\ Len(t) = 4
  OBVIOUS
<1>2. s[1] = a /\ s[2] = b /\ s[3] = c /\ s[4] = d
  OBVIOUS
<1>3. t[1] = a /\ t[2] = b /\ t[3] = c /\ t[4] = d
  OBVIOUS
<1>4. \A i \in 1..4 : i \in {1, 2, 3, 4}
  OBVIOUS
<1> HIDE DEF s, t
<1>5. s = t
  BY <1>1, <1>2, <1>3, <1>4, SeqEqual
<1> QED BY <1>5 DEF s, t

\* ... two steps and three
LEMMA Join23 ==
  ASSUME NEW a, NEW b, NEW c, NEW d, NEW e
  PROVE  <<a, b>> \o <<c, d, e>> = <<a, b, c, d, e>>
<1> DEFINE S == {a, b, c, d, e}
           s == <<a, b>> \o <<c, d, e>>
           t == <<a, b, c, d, e>>
<1>1. s \in Seq(S) /\ t \in Seq(S) /\ Len(s) = 5 /\ Len(t) = 5
  OBVIOUS
<1>2. s[1] = a /\ s[2] = b /\ s[3] = c /\ s[4] = d /\ s[5] = e
  OBVIOUS
<1>3. t[1] = a /\ t[2] = b /\ t[3] = c /\ t[4] = d /\ t[5] = e
  OBVIOUS
<1>4. \A i \in 1..5 : i \in {1, 2, 3, 4, 5}
  OBVIOUS
<1> HIDE DEF s, t
<1>5. s = t
  BY <1>1, <1>2, <1>3, <1>4, SeqEqual
<1> QED BY <1>5 DEF s, t

\* ... four steps and one
LEMMA Join41 ==
  ASSUME NEW a, NEW b, NEW c, NEW d, NEW e
  PROVE  <<a, b, c, d>> \o <<e>> = <<a, b, c, d, e>>
<1> DEFINE S == {a, b, c, d, e}
           s == <<a, b, c, d>> \o <<e>>
           t == <<a, b, c, d, e>>
<1>1. s \in Seq(S) /\ t \in Seq(S) /\ Len(s) = 5 /\ Len(t) = 5
  OBVIOUS
<1>2. s[1] = a /\ s[2] = b /\ s[3] = c /\ s[4] = d /\ s[5] = e
  OBVIOUS
<1>3. t[1] = a /\ t[2] = b /\ t[3] = c /\ t[4] = d /\ t[5] = e
  OBVIOUS
<1>4. \A i \in 1..5 : i \in {1, 2, 3, 4, 5}
  OBVIOUS
<1> HIDE DEF s, t
<1>5. s = t
  BY <1>1, <1>2, <1>3, <1>4, SeqEqual
<1> QED BY <1>5 DEF s, t

\* What is left of a start, step by step.
LEMMA StartShape ==
  /\ \A m : /\ AtMode(m) # <<>> /\ Head(AtMode(m)) = assign("mode", m)
            /\ Tail(AtMode(m)) = AtIf
  /\ AtIf # <<>> /\ Head(AtIf) = Simple("ifPrepared")
  /\ <<listen, clear>> \o Tail(AtIf) = AtListen /\ <<>> \o Tail(AtIf) = AtCheck
  /\ AtListen # <<>> /\ Head(AtListen) = listen /\ Tail(AtListen) = AtClear
  /\ AtClear # <<>> /\ Head(AtClear) = clear /\ Tail(AtClear) = AtCheck
  /\ AtCheck # <<>> /\ Head(AtCheck) = Simple("check") /\ Tail(AtCheck) = AtPorts
  /\ AtPorts # <<>> /\ Head(AtPorts) = select /\ Tail(AtPorts) = AtArm
  /\ AtArm # <<>> /\ Head(AtArm) = arm /\ Tail(AtArm) = <<>>
<1>1. \A m : /\ AtMode(m) # <<>> /\ Head(AtMode(m)) = assign("mode", m)
             /\ Tail(AtMode(m)) = AtIf
  BY DEF AtMode, AtIf
<1>2. AtIf # <<>> /\ Head(AtIf) = Simple("ifPrepared") /\ Tail(AtIf) = AtCheck
  BY DEF AtIf, AtCheck
<1>3. <<listen, clear>> \o AtCheck = AtListen
  BY Join23 DEF AtCheck, AtListen
<1>4. <<>> \o AtCheck = AtCheck
  BY DEF AtCheck
<1>5. AtListen # <<>> /\ Head(AtListen) = listen /\ Tail(AtListen) = AtClear
  BY DEF AtListen, AtClear
<1>6. AtClear # <<>> /\ Head(AtClear) = clear /\ Tail(AtClear) = AtCheck
  BY DEF AtClear, AtCheck
<1>7. AtCheck # <<>> /\ Head(AtCheck) = Simple("check") /\ Tail(AtCheck) = AtPorts
  BY DEF AtCheck, AtPorts
<1>8. AtPorts # <<>> /\ Head(AtPorts) = select /\ Tail(AtPorts) = AtArm
  BY DEF AtPorts, AtArm
<1>9. AtArm # <<>> /\ Head(AtArm) = arm /\ Tail(AtArm) = <<>>
  BY DEF AtArm
<1> QED BY <1>1, <1>2, <1>3, <1>4, <1>5, <1>6, <1>7, <1>8, <1>9

\* The methods start where these begin.
LEMMA Methods ==
  /\ stopAcq \in ToDisarm /\ reset \in ToDisarm
  /\ startAcq = AtMode(cam.lima)
  /\ Quiet(prepareAcq) /\ \A t : Quiet(<<assign("trig", t)>>)
<1>1. stopAcq = <<disarm, enableSerial0>> \o <<halt, clear>>
  BY DEF stopAcq, priamStopAcq, disarm, halt, clear
<1>2. stopAcq = <<disarm, enableSerial0, halt, clear>>
  BY <1>1, Join22
<1>3. reset = stopAcq \o <<enableSerial0>>
  BY DEF reset, enableSerial0
<1>4. reset = <<disarm, enableSerial0, halt, clear, enableSerial0>>
  BY <1>2, <1>3, Join41
<1>5. startAcq = <<assign("mode", cam.lima), Simple("ifPrepared")>>
                   \o <<Simple("check"), select, arm>>
  BY DEF startAcq, priamStartAcq, select, arm
<1>6. startAcq = AtMode(cam.lima)
  BY <1>5, Join23 DEF AtMode
<1>7. Quiet(prepareAcq) /\ \A t : Quiet(<<assign("trig", t)>>)
  BY DEF prepareAcq, Quiet
<1> QED BY <1>2, <1>4, <1>6, <1>7 DEF ToDisarm

\* Setting the number of frames touches neither the ports nor what is armed.
LEMMA FramesMethod ==
  ASSUME NEW n
  PROVE  Quiet(setNbHwFrames(n))
<1> DEFINE k == IF cam.trig = "IntTrigMult" /\ cam.lima # "Accumulation" THEN 1 ELSE n
<1>1. setNbHwFrames(n) = <<assign("mode", cam.lima), Do("espiaFrames", "", n)>>
                           \o <<writeReg("nb", k), assign("nb", k)>>
  BY DEF setNbHwFrames, priamSetNbFrames
<1> HIDE DEF k
<1>2. setNbHwFrames(n) =
        <<assign("mode", cam.lima), Do("espiaFrames", "", n), writeReg("nb", k), assign("nb", k)>>
  BY <1>1, Join22
<1> QED BY <1>2 DEF Quiet

-----------------------------------------------------------------------------
(***************************************************************************)
(* What each kind of step does.                                            *)
(***************************************************************************)
LEMMA WatchGrows ==
  ASSUME Watch
  PROVE  (overlap => overlap') /\ (Overlaps' => overlap')
BY Zenon DEF Watch, WatchOverlap

\* The action that is taken is that of the first step to do.
LEMMA WhichStep ==
  ASSUME NEW p, Step(p)
  PROVE  /\ todo[p] # <<>>
         /\ Head(todo[p]).do = "assign" => Assign(p)
         /\ Head(todo[p]).do = "writeReg" => WriteReg(p)
         /\ Head(todo[p]).do = "ifPrepared" => IfPrepared(p)
         /\ Head(todo[p]).do = "check" => Check(p)
         /\ Head(todo[p]).do = "arm" => Arm(p)
         /\ Head(todo[p]).do = "disarm" => Disarm(p)
         /\ Head(todo[p]).do = "espiaFrames" => EspiaFrames(p)
         /\ Head(todo[p]).do = "espiaStart" => EspiaStart(p)
         /\ Head(todo[p]).do = "espiaStop" => EspiaStop(p)
<1>1. /\ Assign(p) => At(p, "assign")
      /\ WriteReg(p) => At(p, "writeReg")
      /\ IfPrepared(p) => At(p, "ifPrepared")
      /\ Check(p) => At(p, "check")
      /\ Arm(p) => At(p, "arm")
      /\ Disarm(p) => At(p, "disarm")
      /\ EspiaFrames(p) => At(p, "espiaFrames")
      /\ EspiaStart(p) => At(p, "espiaStart")
      /\ EspiaStop(p) => At(p, "espiaStop")
  BY DEF Assign, WriteReg, IfPrepared, Check, Arm, Disarm, EspiaFrames, EspiaStart, EspiaStop
<1>2. \A what : At(p, what) => todo[p] # <<>> /\ Head(todo[p]).do = what
  BY DEF At, Idle, Next1
<1> QED BY <1>1, <1>2 DEF Step

\* Only the client and acqend have something to do, and they have not thrown.
LEMMA OnlyTwo ==
  ASSUME Fields, NEW p \in Actors, todo[p] # <<>>
  PROVE  p \in {"client", "acqend"} /\ p \notin threw
BY DEF Fields, Members

\* A step done or failed changes what its own actor has left, nothing else.
LEMMA Ends ==
  ASSUME Members, NEW p \in Actors, Goes(p) \/ Throws(p)
  PROVE  /\ DOMAIN todo' = Actors /\ op' = op
         /\ \A q \in Actors \ {p} : todo'[q] = todo[q]
         /\ \/ todo'[p] = Tail(todo[p]) /\ threw' = threw
            \/ todo'[p] = <<>> /\ threw' = threw \cup {p}
<1>1. DOMAIN todo = Actors BY DEF Members
<1>2. CASE Goes(p) BY <1>1, <1>2 DEF Goes
<1>3. CASE Throws(p) BY <1>1, <1>3 DEF Throws
<1> QED BY <1>2, <1>3

\* A step of an actor leaves the steps of the others to do, and one that throws
\* leaves its own actor nothing.
LEMMA Moves ==
  ASSUME Members, NEW p \in Actors, Step(p) \/ Fail(p)
  PROVE  /\ DOMAIN todo' = Actors /\ op' = op
         /\ \A q \in Actors \ {p} : todo'[q] = todo[q]
         /\ threw' = threw \/ (todo'[p] = <<>> /\ threw' = threw \cup {p})
<1>1. CASE Goes(p) \/ Throws(p)
  BY <1>1, Ends
<1>2. CASE IfPrepared(p)
  BY <1>2 DEF IfPrepared, Members
<1>3. CASE Check(p) /\ ~Goes(p)
  BY <1>3 DEF Check, Members
<1>4. Fail(p) => Throws(p)
  BY DEF Fail
<1>5. Step(p) => Done(p) \/ IfPrepared(p) \/ Check(p)
  BY DEF Step, Assign, WriteReg, Arm, Disarm, EspiaFrames, EspiaStart, EspiaStop
<1> QED BY <1>1, <1>2, <1>3, <1>4, <1>5 DEF Done

\* The effect of each step on what the invariant is about.
LEMMA Effects ==
  ASSUME Members, NEW p
  PROVE  /\ Assign(p) => /\ UNCHANGED <<board, espia>> /\ DOMAIN cam' = DOMAIN cam
                         /\ cam' = [cam EXCEPT ![Head(todo[p]).f] = Head(todo[p]).v]
         /\ WriteReg(p) => /\ UNCHANGED <<cam, espia>> /\ DOMAIN board' = DOMAIN board
                           /\ board' = [board EXCEPT ![Head(todo[p]).f] = Head(todo[p]).v]
         /\ Disarm(p) => /\ UNCHANGED <<cam, espia>> /\ DOMAIN board' = DOMAIN board
                         /\ board'.left = 0
         /\ Arm(p) => /\ UNCHANGED <<cam, espia>> /\ DOMAIN board' = DOMAIN board
                      /\ board'.sel = board.sel
         /\ EspiaFrames(p) => /\ UNCHANGED <<cam, board>> /\ DOMAIN espia' = DOMAIN espia
                              /\ espia'.running = espia.running /\ espia'.full = espia.full
         /\ EspiaStart(p) => /\ UNCHANGED <<cam, board>> /\ DOMAIN espia' = DOMAIN espia
                             /\ espia'.running
         /\ EspiaStop(p) => /\ UNCHANGED <<cam, board>> /\ DOMAIN espia' = DOMAIN espia
                            /\ ~espia'.running
<1> USE DEF Members, Next1
<1>1. Assign(p) => /\ UNCHANGED <<board, espia>> /\ DOMAIN cam' = DOMAIN cam
                   /\ cam' = [cam EXCEPT ![Head(todo[p]).f] = Head(todo[p]).v]
  BY DEF Assign
<1>2. WriteReg(p) => /\ UNCHANGED <<cam, espia>> /\ DOMAIN board' = DOMAIN board
                     /\ board' = [board EXCEPT ![Head(todo[p]).f] = Head(todo[p]).v]
  BY DEF WriteReg
<1>3. Disarm(p) => /\ UNCHANGED <<cam, espia>> /\ DOMAIN board' = DOMAIN board
                   /\ board'.left = 0
  BY DEF Disarm
<1>4. Arm(p) => /\ UNCHANGED <<cam, espia>> /\ DOMAIN board' = DOMAIN board
                /\ board'.sel = board.sel
  BY DEF Arm
<1>5. EspiaFrames(p) => /\ UNCHANGED <<cam, board>> /\ DOMAIN espia' = DOMAIN espia
                        /\ espia'.running = espia.running /\ espia'.full = espia.full
  BY DEF EspiaFrames
<1>6. EspiaStart(p) => /\ UNCHANGED <<cam, board>> /\ DOMAIN espia' = DOMAIN espia
                       /\ espia'.running
  BY DEF EspiaStart
<1>7. EspiaStop(p) => /\ UNCHANGED <<cam, board>> /\ DOMAIN espia' = DOMAIN espia
                      /\ ~espia'.running
  BY DEF EspiaStop
<1> QED BY <1>1, <1>2, <1>3, <1>4, <1>5, <1>6, <1>7

-----------------------------------------------------------------------------
(***************************************************************************)
(* The invariant is preserved: first what concerns every action.           *)
(***************************************************************************)
LEMMA FieldsOfSteps ==
  ASSUME Fields, NEW p \in Actors, Step(p) \/ Fail(p)
  PROVE  Fields'
<1>1. todo[p] # <<>>
  BY WhichStep DEF Fail, Idle
<1>2. p \in {"client", "acqend"} /\ p \notin threw
  BY <1>1, OnlyTwo
<1>3. /\ DOMAIN cam' = DOMAIN cam /\ DOMAIN board' = DOMAIN board
      /\ DOMAIN espia' = DOMAIN espia
  BY Effects DEF Step, Fail, IfPrepared, Check, state, Fields
<1>4. /\ DOMAIN todo' = Actors /\ op' = op
      /\ \A q \in Actors \ {p} : todo'[q] = todo[q]
  BY Moves DEF Fields
<1>5. threw' \subseteq Actors /\ \A q \in threw' : todo'[q] = <<>>
  <2>1. CASE threw' = threw
    BY <1>2, <1>4, <2>1 DEF Fields, Members
  <2>2. CASE todo'[p] = <<>> /\ threw' = threw \cup {p}
    BY <1>4, <2>2 DEF Fields, Members
  <2> QED BY <2>1, <2>2, Moves DEF Fields
<1> QED BY <1>2, <1>3, <1>4, <1>5 DEF Fields, Members

\* A step that cannot make a frame unheard or from the wrong chip.
Calm ==
  ~overlap' /\ board'.left > 0
    => board.left > 0 /\ board'.sel = board.sel /\ (Heard => Heard')

\* A step that arms nothing, and stops no Espia the frames need, keeps the two.
LEMMA CalmIsHeard ==
  ASSUME FramesAreHeard, FramesFromPorts, Watch, Calm
  PROVE  FramesAreHeard' /\ FramesFromPorts'
<1>1. overlap => overlap' BY WatchGrows
<1>2. ASSUME ~overlap', board'.left > 0
      PROVE  Heard' /\ board'.sel = "ports"
  BY <1>1, <1>2 DEF Calm, FramesAreHeard, FramesFromPorts, Heard
<1> QED BY <1>2 DEF FramesAreHeard, FramesFromPorts, Heard

\* A step of a stop, or its failure, undoes nothing a stop has done.
Lowers ==
  /\ board'.left = board.left \/ board'.left = 0
  /\ espia'.running => espia.running
  /\ cam'.prepare => cam.prepare

\* What each step of a stop does.
LEMMA StopSteps ==
  ASSUME Fields, NEW p \in Actors, Step(p)
  PROVE  /\ todo[p] \in ToDisarm =>
              /\ Done(p) /\ Lowers /\ board'.left = 0
         /\ todo[p] \in ToSelect \cup ToChips =>
              /\ Done(p) /\ Lowers /\ board'.left = board.left /\ UNCHANGED <<cam, espia>>
         /\ todo[p] \in ToHalt =>
              /\ Done(p) /\ Lowers /\ board'.left = board.left /\ ~espia'.running
         /\ todo[p] \in ToClear =>
              /\ Done(p) /\ Lowers /\ board'.left = board.left /\ UNCHANGED espia
              /\ ~cam'.prepare
<1>1. ASSUME todo[p] \in ToDisarm
      PROVE  Done(p) /\ Lowers /\ board'.left = 0
  <2>1. Disarm(p) BY <1>1, StopShape, Kinds, WhichStep
  <2> QED BY <2>1, Effects DEF Disarm, Lowers, Fields
<1>2. ASSUME todo[p] \in ToSelect \cup ToChips
      PROVE  Done(p) /\ Lowers /\ board'.left = board.left /\ UNCHANGED <<cam, espia>>
  <2>1. Head(todo[p]) = enableSerial0
    BY <1>2, StopShape
  <2>2. WriteReg(p) BY <2>1, Kinds, WhichStep
  <2>3. Head(todo[p]).f = "sel" BY <2>1, Kinds
  <2>4. board'.left = board.left BY <2>2, <2>3 DEF WriteReg, Next1, Fields, Members
  <2> QED BY <2>2, <2>4 DEF WriteReg, Lowers
<1>3. ASSUME todo[p] \in ToHalt
      PROVE  Done(p) /\ Lowers /\ board'.left = board.left /\ ~espia'.running
  <2>1. EspiaStop(p) BY <1>3, StopShape, Kinds, WhichStep
  <2>2. ~espia'.running /\ UNCHANGED <<cam, board>> BY <2>1, Effects DEF Fields
  <2> QED BY <2>1, <2>2 DEF EspiaStop, Lowers
<1>4. ASSUME todo[p] \in ToClear
      PROVE  /\ Done(p) /\ Lowers /\ board'.left = board.left /\ UNCHANGED espia
             /\ ~cam'.prepare
  <2>1. Head(todo[p]) = clear BY <1>4, StopShape
  <2>2. Assign(p) BY <2>1, Kinds, WhichStep
  <2>3. Head(todo[p]).f = "prepare" /\ Head(todo[p]).v = FALSE BY <2>1, Kinds
  <2>4. ~cam'.prepare BY <2>2, <2>3 DEF Assign, Next1, Fields, Members
  <2> QED BY <2>2, <2>4 DEF Assign, Lowers
<1> QED BY <1>1, <1>2, <1>3, <1>4

\* A step of acqFinished: it takes its place's next step or none.
LEMMA AcqEndSteps ==
  ASSUME Inv, Watch, "acqend" \in Actors, Step("acqend") \/ Fail("acqend")
  PROVE  AcqEndPlace' /\ Calm /\ Lowers
<1>1. Fields /\ AcqEndPlace /\ (overlap => overlap') BY WatchGrows DEF Inv
<1>2. todo["acqend"] # <<>> BY WhichStep DEF Fail, Idle
<1>3. CASE Fail("acqend")
  <2>1. todo'["acqend"] = <<>> BY <1>1, <1>3 DEF Fail, Throws, Fields, Members
  <2>2. UNCHANGED <<cam, board, espia>> BY <1>3 DEF Fail, state
  <2> QED BY <2>1, <2>2 DEF AcqEndPlace, Calm, Lowers, Heard
<1>4. CASE Step("acqend")
  <2>1. Done("acqend") => todo'["acqend"] = Tail(todo["acqend"]) \/ todo'["acqend"] = <<>>
    BY <1>1, Ends DEF Done, Fields
  <2>2. CASE todo["acqend"] \in ToDisarm
    <3>1. Done("acqend") /\ Lowers /\ board'.left = 0 BY <1>1, <1>4, <2>2, StopSteps
    <3>2. Tail(todo["acqend"]) \in ToSelect BY <2>2, StopShape
    <3> QED BY <2>1, <3>1, <3>2 DEF AcqEndPlace, Calm
  <2>3. CASE todo["acqend"] \in ToSelect \cup ToChips
    <3>1. Done("acqend") /\ Lowers /\ board'.left = board.left
      BY <1>1, <1>4, <2>3, StopSteps
    <3>2. Tail(todo["acqend"]) \in ToHalt \cup {<<>>} BY <2>3, StopShape
    <3>3. overlap \/ board.left = 0 BY <1>1, <1>2, <2>3, NotToDisarm DEF AcqEndPlace
    <3>4. overlap' \/ board'.left = 0 BY <1>1, <3>1, <3>3
    <3>5. Calm BY <3>4 DEF Calm
    <3>6. AcqEndPlace' BY <2>1, <3>1, <3>2, <3>4 DEF AcqEndPlace
    <3> QED BY <3>1, <3>5, <3>6
  <2>4. CASE todo["acqend"] \in ToHalt
    <3>1. Done("acqend") /\ Lowers /\ board'.left = board.left
      BY <1>1, <1>4, <2>4, StopSteps
    <3>2. Tail(todo["acqend"]) \in ToClear BY <2>4, StopShape
    <3>3. overlap \/ board.left = 0 BY <1>1, <1>2, <2>4, NotToDisarm DEF AcqEndPlace
    <3>4. overlap' \/ board'.left = 0 BY <1>1, <3>1, <3>3
    <3>5. Calm BY <3>4 DEF Calm
    <3>6. AcqEndPlace' BY <2>1, <3>1, <3>2, <3>4 DEF AcqEndPlace
    <3> QED BY <3>1, <3>5, <3>6
  <2>5. CASE todo["acqend"] \in ToClear
    <3>1. Done("acqend") /\ Lowers /\ board'.left = board.left
      BY <1>1, <1>4, <2>5, StopSteps
    <3>2. Tail(todo["acqend"]) \in ToChips \cup {<<>>} BY <2>5, StopShape
    <3>3. overlap \/ board.left = 0 BY <1>1, <1>2, <2>5, NotToDisarm DEF AcqEndPlace
    <3>4. overlap' \/ board'.left = 0 BY <1>1, <3>1, <3>3
    <3>5. Calm BY <3>4 DEF Calm
    <3>6. AcqEndPlace' BY <2>1, <3>1, <3>2, <3>4 DEF AcqEndPlace
    <3> QED BY <3>1, <3>5, <3>6
  <2> QED BY <1>1, <1>2, <2>2, <2>3, <2>4, <2>5 DEF AcqEndPlace
<1> QED BY <1>3, <1>4

\* ... and the client stays where it was: at worst its start was overlapped.
LEMMA ClientUndisturbed ==
  ASSUME Inv, Watch, Lowers, todo["acqend"] # <<>>,
         op' = op, todo'["client"] = todo["client"], "client" \in threw => "client" \in threw'
  PROVE  ClientPlace'
<1>1. ClientPlace /\ (overlap => overlap') /\ (Overlaps => overlap)
  BY WatchGrows DEF Inv
<1>2. CASE op["client"] \in {"none", "set", "frames"} /\ Quiet(todo["client"])
  <2>1. Quiet(todo'["client"]) BY <1>2
  <2> QED BY <1>2, <2>1 DEF ClientPlace
<1>3. CASE op["client"] = "start" /\ StartPlace
  <2>1. CASE todo["client"] = <<>> BY <1>3, <2>1 DEF ClientPlace, StartPlace
  <2>2. CASE todo["client"] # <<>>
    <3>1. overlap' BY <1>1, <1>3, <2>2 DEF Overlaps, Idle
    <3> QED BY <1>3, <3>1 DEF ClientPlace, StartPlace
  <2> QED BY <2>1, <2>2
<1>4. CASE op["client"] = "stop" /\ ("client" \in threw \/ StopPlace)
  BY <1>4 DEF ClientPlace, StopPlace, Lowers
<1> QED BY <1>1, <1>2, <1>3, <1>4 DEF ClientPlace

\* The client drops what it had left: every place allows it.
LEMMA ClientDrops ==
  ASSUME Inv, op' = op, todo'["client"] = <<>>, "client" \in threw'
  PROVE  ClientPlace'
<1>1. Quiet(<<>>) BY DEF Quiet
<1>2. Quiet(todo'["client"]) BY <1>1
<1> QED BY <1>2 DEF Inv, ClientPlace, StartPlace

\* acqFinished is not disturbed by a step that leaves the board's frames.
LEMMA AcqEndUndisturbed ==
  ASSUME Inv, Watch, todo'["acqend"] = todo["acqend"], board.left = 0 => board'.left = 0
  PROVE  AcqEndPlace'
<1>1. AcqEndPlace /\ (overlap => overlap') BY WatchGrows DEF Inv
<1>2. overlap \/ board.left = 0 => overlap' \/ board'.left = 0 BY <1>1
<1> QED BY <1>1, <1>2 DEF AcqEndPlace

\* A step of a method that neither starts nor stops.
LEMMA QuietSteps ==
  ASSUME Inv, Watch, "client" \in Actors, Step("client"),
         op["client"] \in {"none", "set", "frames"}
  PROVE  ClientPlace' /\ Calm /\ board'.left = board.left
<1>1. Fields /\ Quiet(todo["client"]) BY DEF Inv, ClientPlace
<1>2. todo["client"] # <<>> BY WhichStep
<1>3. Harmless(Head(todo["client"])) /\ Quiet(Tail(todo["client"]))
  BY <1>1, <1>2, QuietShape
<1>4. /\ Done("client") /\ board'.left = board.left /\ board'.sel = board.sel
      /\ espia'.running = espia.running /\ espia'.full = espia.full
  <2>1. CASE Head(todo["client"]).do = "assign"
    <3>1. Assign("client") BY <2>1, WhichStep
    <3> QED BY <3>1 DEF Assign
  <2>2. CASE Head(todo["client"]).do = "writeReg" /\ Head(todo["client"]).f = "nb"
    <3>1. WriteReg("client") BY <2>2, WhichStep
    <3> QED BY <1>1, <2>2, <3>1 DEF WriteReg, Next1, Fields, Members
  <2>3. CASE Head(todo["client"]).do = "espiaFrames"
    <3>1. EspiaFrames("client") BY <2>3, WhichStep
    <3>2. espia'.running = espia.running /\ espia'.full = espia.full
      BY <1>1, <3>1, Effects DEF Fields
    <3> QED BY <3>1, <3>2 DEF EspiaFrames
  <2> QED BY <1>3, <2>1, <2>2, <2>3 DEF Harmless
<1>5. Calm BY <1>4 DEF Calm, Heard
<1>6. ClientPlace'
  <2>1. /\ op' = op
        /\ todo'["client"] = Tail(todo["client"])
             \/ (todo'["client"] = <<>> /\ "client" \in threw')
    BY <1>1, <1>4, Ends DEF Done, Fields
  <2>2. CASE todo'["client"] = Tail(todo["client"])
    <3>1. Quiet(todo'["client"]) BY <1>3, <2>2
    <3> QED BY <2>1, <3>1 DEF ClientPlace
  <2>3. CASE todo'["client"] = <<>> /\ "client" \in threw'
    BY <2>1, <2>3, ClientDrops
  <2> QED BY <2>1, <2>2, <2>3
<1> QED BY <1>4, <1>5, <1>6

\* A step of a stop or a reset of the client.
LEMMA ClientStops ==
  ASSUME Inv, Watch, "client" \in Actors, Step("client"), op["client"] = "stop"
  PROVE  ClientPlace' /\ Calm /\ (board.left = 0 => board'.left = 0)
<1> DEFINE s == todo["client"]
<1>1. Fields /\ s # <<>> /\ "client" \notin threw
  BY WhichStep, OnlyTwo DEF Inv
<1>2. StopPlace BY <1>1 DEF Inv, ClientPlace
<1>3. Done("client") => /\ op' = op
                        /\ todo'["client"] = Tail(s)
                             \/ (todo'["client"] = <<>> /\ "client" \in threw')
  BY <1>1, Ends DEF Done, Fields
<1>4. ASSUME Done("client"),
             todo'["client"] = Tail(s) => StopPlace'
      PROVE  ClientPlace'
  <2>1. CASE todo'["client"] = Tail(s) BY <1>3, <1>4, <2>1 DEF ClientPlace
  <2>2. CASE todo'["client"] = <<>> /\ "client" \in threw' BY <1>3, <1>4, <2>2, ClientDrops
  <2> QED BY <1>3, <1>4, <2>1, <2>2
<1>5. CASE s \in ToDisarm
  <2>1. Done("client") /\ board'.left = 0 BY <1>1, <1>5, StopSteps
  <2>2. Tail(s) \in ToSelect BY <1>5, StopShape
  <2>3. todo'["client"] = Tail(s) => StopPlace' BY <2>1, <2>2 DEF StopPlace
  <2> QED BY <1>4, <2>1, <2>3 DEF Calm
<1>6. CASE s \in ToSelect /\ board.left = 0
  <2>1. Done("client") /\ board'.left = 0 BY <1>1, <1>6, StopSteps
  <2>2. Tail(s) \in ToHalt BY <1>6, StopShape
  <2>3. todo'["client"] = Tail(s) => StopPlace' BY <2>1, <2>2 DEF StopPlace
  <2> QED BY <1>4, <2>1, <2>3 DEF Calm
<1>7. CASE s \in ToHalt /\ board.left = 0
  <2>1. Done("client") /\ board'.left = 0 /\ ~espia'.running BY <1>1, <1>7, StopSteps
  <2>2. Tail(s) \in ToClear BY <1>7, StopShape
  <2>3. todo'["client"] = Tail(s) => StopPlace' BY <2>1, <2>2 DEF StopPlace
  <2> QED BY <1>4, <2>1, <2>3 DEF Calm
<1>8. CASE s \in ToClear /\ board.left = 0 /\ ~espia.running
  <2>1. Done("client") /\ board'.left = 0 /\ ~espia'.running /\ ~cam'.prepare
    BY <1>1, <1>8, StopSteps
  <2>2. Tail(s) \in ToChips \cup {<<>>} BY <1>8, StopShape
  <2>3. todo'["client"] = Tail(s) => StopPlace' BY <2>1, <2>2 DEF StopPlace
  <2> QED BY <1>4, <2>1, <2>3 DEF Calm
<1>9. CASE s \in ToChips /\ board.left = 0 /\ ~espia.running /\ ~cam.prepare
  <2>1. Done("client") /\ board'.left = 0 /\ ~espia'.running /\ ~cam'.prepare
    BY <1>1, <1>9, StopSteps
  <2>2. Tail(s) = <<>> BY <1>9, StopShape
  <2>3. todo'["client"] = Tail(s) => StopPlace' BY <2>1, <2>2 DEF StopPlace
  <2> QED BY <1>4, <2>1, <2>3 DEF Calm
<1> QED BY <1>1, <1>2, <1>5, <1>6, <1>7, <1>8, <1>9 DEF StopPlace

\* A step of a start of the client.
LEMMA ClientStarts ==
  ASSUME Inv, Watch, "client" \in Actors, Step("client"), op["client"] = "start"
  PROVE  ClientPlace' /\ AcqEndPlace' /\ FramesAreHeard' /\ FramesFromPorts'
<1> DEFINE s == todo["client"]
<1>1. Fields /\ s # <<>> /\ StartPlace /\ "client" \notin threw
  BY WhichStep, OnlyTwo DEF Inv, ClientPlace
<1>2. overlap => overlap' BY WatchGrows
<1>3. Done("client") => /\ op' = op /\ todo'["acqend"] = todo["acqend"]
                        /\ todo'["client"] = Tail(s)
                             \/ (todo'["client"] = <<>> /\ "client" \in threw')
  BY <1>1, Ends, ActorAssumption DEF Done, Fields
<1>4. ASSUME UNCHANGED <<board, espia>>, todo'["acqend"] = todo["acqend"]
      PROVE  AcqEndPlace' /\ FramesAreHeard' /\ FramesFromPorts'
  <2>1. Calm BY <1>4 DEF Calm, Heard
  <2> QED BY <1>4, <2>1, AcqEndUndisturbed, CalmIsHeard DEF Inv
<1>5. ASSUME NEW m, s = AtMode(m), overlap \/ cam.prepare \/ Heard
      PROVE  ClientPlace' /\ AcqEndPlace' /\ FramesAreHeard' /\ FramesFromPorts'
  <2>1. Head(s) = assign("mode", m) /\ Tail(s) = AtIf BY <1>5, StartShape
  <2>2. Assign("client") /\ Head(s).f = "mode" BY <2>1, Kinds, WhichStep
  <2>3. Done("client") /\ UNCHANGED <<board, espia>> /\ cam'.prepare = cam.prepare
    BY <1>1, <2>2 DEF Assign, Next1, Fields, Members
  <2>4. overlap' \/ cam'.prepare \/ Heard' BY <1>2, <1>5, <2>3 DEF Heard
  <2>5. todo'["client"] = <<>> \/ StartPlace' BY <1>3, <2>1, <2>3, <2>4 DEF StartPlace
  <2> QED BY <1>3, <1>4, <2>1, <2>3, <2>5 DEF ClientPlace, StartPlace
<1>6. CASE s = AtIf /\ (overlap \/ cam.prepare \/ Heard)
  <2>1. IfPrepared("client") BY <1>6, StartShape, Kinds, WhichStep
  <2>2. /\ UNCHANGED <<cam, board, espia, op>> /\ todo'["acqend"] = todo["acqend"]
        /\ \/ todo'["client"] = AtListen
           \/ todo'["client"] = AtCheck /\ ~cam.prepare
    BY <1>1, <1>6, <2>1, StartShape, ActorAssumption
    DEF IfPrepared, state, Fields, Members, listen, clear
  <2>3. ~cam.prepare => overlap' \/ Heard'
    BY <1>2, <1>6, <2>2 DEF Heard
  <2>4. StartPlace' BY <2>2, <2>3 DEF StartPlace
  <2> QED BY <1>4, <2>2, <2>4 DEF ClientPlace
<1>7. CASE s = AtListen
  <2>1. EspiaStart("client") /\ Tail(s) = AtClear BY <1>7, StartShape, Kinds, WhichStep
  <2>2. Done("client") /\ UNCHANGED board /\ espia'.running
    BY <1>1, <2>1, Effects DEF EspiaStart, Fields
  <2>3. Calm BY <2>2 DEF Calm, Heard
  <2>4. AcqEndPlace' /\ FramesAreHeard' /\ FramesFromPorts'
    BY <1>3, <2>2, <2>3, AcqEndUndisturbed, CalmIsHeard DEF Inv
  <2>5. StartPlace' BY <1>3, <2>1, <2>2 DEF StartPlace, Heard
  <2> QED BY <1>3, <2>2, <2>4, <2>5 DEF ClientPlace
<1>8. CASE s = AtClear /\ (overlap \/ Heard)
  <2>1. Assign("client") /\ Tail(s) = AtCheck BY <1>8, StartShape, Kinds, WhichStep
  <2>2. Done("client") /\ UNCHANGED <<board, espia>> BY <2>1 DEF Assign
  <2>3. StartPlace' BY <1>2, <1>3, <1>8, <2>1, <2>2 DEF StartPlace, Heard
  <2> QED BY <1>3, <1>4, <2>2, <2>3 DEF ClientPlace
<1>9. CASE s = AtCheck /\ (overlap \/ Heard)
  <2>1. Check("client") /\ Tail(s) = AtPorts BY <1>9, StartShape, Kinds, WhichStep
  <2>2. UNCHANGED <<board, espia, op>> /\ todo'["acqend"] = todo["acqend"]
    BY <1>1, <2>1, Moves, ActorAssumption DEF Check, state, Fields
  <2>3. todo'["client"] = AtPorts \/ todo'["client"] = <<>>
    BY <1>1, <2>1 DEF Check, Goes, Fields, Members
  <2>4. StartPlace' BY <1>2, <1>9, <2>2, <2>3 DEF StartPlace, Heard
  <2> QED BY <1>4, <2>2, <2>4 DEF ClientPlace
<1>10. CASE s = AtPorts /\ (overlap \/ Heard)
  <2>1. WriteReg("client") /\ Head(s) = select /\ Tail(s) = AtArm
    BY <1>10, StartShape, Kinds, WhichStep
  <2>2. Head(s).f = "sel" /\ Head(s).v = "ports" BY <2>1, Kinds
  <2>3. /\ Done("client") /\ UNCHANGED espia
        /\ board'.left = board.left /\ board'.sel = "ports"
    BY <1>1, <2>1, <2>2 DEF WriteReg, Next1, Fields, Members
  <2>4. Calm BY <1>2, <2>3 DEF Calm, Heard, Inv, FramesFromPorts
  <2>5. AcqEndPlace' /\ FramesAreHeard' /\ FramesFromPorts'
    BY <1>3, <2>3, <2>4, AcqEndUndisturbed, CalmIsHeard DEF Inv
  <2>6. StartPlace' BY <1>2, <1>3, <1>10, <2>1, <2>3 DEF StartPlace, Heard
  <2> QED BY <1>3, <2>3, <2>5, <2>6 DEF ClientPlace
<1>11. CASE s = AtArm /\ (overlap \/ (Heard /\ board.sel = "ports"))
  <2>1. Arm("client") /\ Tail(s) = <<>> BY <1>11, StartShape, Kinds, WhichStep
  <2>2. Done("client") /\ UNCHANGED espia /\ board'.sel = board.sel
    BY <1>1, <2>1, Effects DEF Arm, Fields
  <2>3. FramesAreHeard' /\ FramesFromPorts'
    BY <1>2, <1>11, <2>2 DEF FramesAreHeard, FramesFromPorts, Heard
  <2>4. todo["acqend"] = <<>> \/ overlap
    BY <1>1 DEF Inv, Overlaps, Idle
  <2>5. AcqEndPlace'
    BY <1>2, <1>3, <2>2, <2>4 DEF Inv, AcqEndPlace
  <2>6. todo'["client"] = <<>> BY <1>3, <2>1, <2>2
  <2> QED BY <1>3, <2>2, <2>3, <2>5, <2>6 DEF ClientPlace, StartPlace
<1> QED BY <1>1, <1>5, <1>6, <1>7, <1>8, <1>9, <1>10, <1>11 DEF StartPlace

-----------------------------------------------------------------------------
(***************************************************************************)
(* The invariant holds, and what follows from it.                          *)
(***************************************************************************)
LEMMA InvOfSteps ==
  ASSUME Inv, Watch, NEW p \in Actors, Step(p) \/ Fail(p)
  PROVE  Inv'
<1>1. Fields' BY FieldsOfSteps DEF Inv
<1>2. (Overlaps => overlap)' BY WatchGrows
<1>3. todo[p] # <<>> BY WhichStep DEF Fail, Idle
<1>4. p \in {"client", "acqend"} /\ {"client", "acqend"} \subseteq Actors
  BY <1>3, OnlyTwo, ActorAssumption DEF Inv
<1>5. /\ op' = op /\ \A q \in Actors \ {p} : todo'[q] = todo[q]
      /\ threw \subseteq threw'
  BY Moves DEF Inv, Fields
<1>6. CASE p = "acqend"
  <2>1. AcqEndPlace' /\ Calm /\ Lowers BY <1>4, <1>6, AcqEndSteps
  <2>2. FramesAreHeard' /\ FramesFromPorts' BY <2>1, CalmIsHeard DEF Inv
  <2>3. ClientPlace' BY <1>3, <1>4, <1>5, <1>6, <2>1, ClientUndisturbed
  <2> QED BY <1>1, <1>2, <2>1, <2>2, <2>3 DEF Inv
<1>7. CASE p = "client"
  <2>1. todo'["acqend"] = todo["acqend"] BY <1>4, <1>5, <1>7
  <2>2. CASE Fail(p)
    <3>1. todo'["client"] = <<>> /\ "client" \in threw' /\ UNCHANGED <<cam, board, espia>>
      BY <1>7, <2>2 DEF Fail, Throws, state, Inv, Fields, Members
    <3>2. ClientPlace' BY <1>5, <3>1, ClientDrops
    <3>3. Calm BY <3>1 DEF Calm, Heard
    <3>4. AcqEndPlace' BY <2>1, <3>1, AcqEndUndisturbed
    <3> QED BY <1>1, <1>2, <3>2, <3>3, <3>4, CalmIsHeard DEF Inv
  <2>3. CASE Step(p) /\ op["client"] = "start"
    BY <1>1, <1>2, <1>4, <1>7, <2>3, ClientStarts DEF Inv
  <2>4. CASE Step(p) /\ op["client"] # "start"
    <3>1. ClientPlace' /\ Calm /\ (board.left = 0 => board'.left = 0)
      BY <1>4, <1>7, <2>4, QuietSteps, ClientStops DEF Inv, ClientPlace
    <3>2. AcqEndPlace' BY <2>1, <3>1, AcqEndUndisturbed
    <3> QED BY <1>1, <1>2, <3>1, <3>2, CalmIsHeard DEF Inv
  <2> QED BY <2>2, <2>3, <2>4
<1> QED BY <1>4, <1>6, <1>7

\* A method the client enters is begun from its first place.
LEMMA InvOfCalls ==
  ASSUME Inv, Watch, Client
  PROVE  Inv'
<1> USE ActorAssumption
<1>1. Fields /\ ClientPlace /\ (overlap => overlap') BY WatchGrows DEF Inv
<1>2. (Overlaps => overlap)' BY WatchGrows
<1>3. ASSUME UNCHANGED <<board, espia>>, todo'["acqend"] = todo["acqend"]
      PROVE  AcqEndPlace' /\ FramesAreHeard' /\ FramesFromPorts'
  <2>1. Calm BY <1>3 DEF Calm, Heard
  <2> QED BY <1>3, <2>1, AcqEndUndisturbed, CalmIsHeard DEF Inv
<1>4. CASE SetAcqMode
  <2>1. UNCHANGED <<board, espia, todo, op, threw>> /\ cam'.prepare = cam.prepare
        /\ DOMAIN cam' = DOMAIN cam /\ todo["client"] = <<>>
    BY <1>1, <1>4 DEF SetAcqMode, Fields, Members, Idle
  <2>2. Fields' BY <1>1, <2>1 DEF Fields, Members
  <2>3. ClientPlace'
    <3>1. StartPlace' BY <2>1 DEF StartPlace
    <3>2. Quiet(todo["client"])' BY <2>1 DEF Quiet
    <3>3. StopPlace => StopPlace' BY <2>1 DEF StopPlace
    <3> QED BY <1>1, <2>1, <3>1, <3>2, <3>3 DEF ClientPlace
  <2> QED BY <1>2, <1>3, <2>1, <2>2, <2>3 DEF Inv
<1>5. ASSUME NEW name, NEW steps, Call("client", name, steps)
      PROVE  /\ UNCHANGED <<cam, board, espia>> /\ Fields'
             /\ op'["client"] = name /\ todo'["client"] = steps
             /\ AcqEndPlace' /\ FramesAreHeard' /\ FramesFromPorts'
  <2>1. /\ UNCHANGED <<cam, board, espia>>
        /\ op'["client"] = name /\ todo'["client"] = steps
        /\ \A q \in Actors \ {"client"} : todo'[q] = todo[q]
        /\ DOMAIN todo' = Actors /\ DOMAIN op' = Actors /\ threw' = threw \ {"client"}
    BY <1>1, <1>5 DEF Call, Fields, Members, state
  <2>2. Fields' BY <1>1, <2>1 DEF Fields, Members
  <2> QED BY <1>3, <2>1, <2>2
<1>6. CASE SetTrigMode
  <2>1. PICK t : Call("client", "set", <<assign("trig", t)>>) BY <1>6 DEF SetTrigMode
  <2>2. ClientPlace'
    <3>1. Quiet(<<assign("trig", t)>>) BY Methods
    <3> QED BY <1>5, <2>1, <3>1 DEF ClientPlace
  <2> QED BY <1>2, <1>5, <2>1, <2>2 DEF Inv
<1>7. CASE SetNbHwFrames
  <2>1. PICK n : Call("client", "frames", setNbHwFrames(n)) BY <1>7 DEF SetNbHwFrames
  <2>2. ClientPlace'
    <3>1. Quiet(setNbHwFrames(n)) BY FramesMethod
    <3>2. Quiet(todo["client"])' BY <1>5, <2>1, <3>1
    <3> QED BY <1>5, <2>1, <3>2 DEF ClientPlace
  <2> QED BY <1>2, <1>5, <2>1, <2>2 DEF Inv
<1>8. CASE PrepareAcq
  <2>1. Call("client", "set", prepareAcq) BY <1>8 DEF PrepareAcq
  <2>2. ClientPlace'
    <3>1. Quiet(todo["client"])' BY <1>5, <2>1, Methods
    <3> QED BY <1>5, <2>1, <3>1 DEF ClientPlace
  <2> QED BY <1>2, <1>5, <2>1, <2>2 DEF Inv
<1>9. CASE StartAcq
  <2>1. Call("client", "start", startAcq) /\ (cam.prepare \/ espia.running)
    BY <1>9 DEF StartAcq
  <2>2. op'["client"] = "start" /\ todo'["client"] = AtMode(cam.lima)
        /\ UNCHANGED <<cam, espia>>
    BY <1>5, <2>1, Methods
  <2>3. StartPlace' BY <2>1, <2>2 DEF StartPlace, Heard
  <2> QED BY <1>2, <1>5, <2>1, <2>2, <2>3 DEF Inv, ClientPlace
<1>10. CASE StopAcq \/ Reset
  <2>1. PICK steps \in ToDisarm : Call("client", "stop", steps)
    BY <1>10, Methods DEF StopAcq, Reset
  <2>2. op'["client"] = "stop" /\ todo'["client"] \in ToDisarm BY <1>5, <2>1
  <2> QED BY <1>2, <1>5, <2>1, <2>2 DEF Inv, ClientPlace, StopPlace
<1> QED BY <1>4, <1>6, <1>7, <1>8, <1>9, <1>10 DEF Client

\* The callback begins a stop.
LEMMA InvOfNotice ==
  ASSUME Inv, Watch, AcqFinished
  PROVE  Inv'
<1> USE ActorAssumption
<1>1. Fields /\ ClientPlace /\ (overlap => overlap') BY WatchGrows DEF Inv
<1>2. (Overlaps => overlap)' BY WatchGrows
<1>3. /\ UNCHANGED <<cam, board>> /\ DOMAIN espia' = DOMAIN espia
      /\ espia'.running = espia.running /\ espia'.full = espia.full
      /\ todo'["acqend"] = stopAcq /\ \A q \in Actors \ {"acqend"} : todo'[q] = todo[q]
      /\ DOMAIN todo' = Actors /\ DOMAIN op' = Actors /\ op'["client"] = op["client"]
      /\ threw' = threw \ {"acqend"}
  BY <1>1 DEF AcqFinished, Fields, Members
<1>4. Fields' BY <1>1, <1>3 DEF Fields, Members
<1>5. AcqEndPlace' BY <1>3, Methods DEF AcqEndPlace
<1>6. Calm BY <1>3 DEF Calm, Heard
<1>7. ClientPlace'
  <2>1. todo'["client"] = todo["client"] /\ ("client" \in threw => "client" \in threw')
    BY <1>3
  <2>2. Quiet(todo["client"]) => Quiet(todo["client"])' BY <2>1
  <2>3. StopPlace => StopPlace' BY <1>3, <2>1 DEF StopPlace
  <2>4. StartPlace => StartPlace' BY <1>1, <1>3, <2>1 DEF StartPlace, Heard
  <2> QED BY <1>1, <1>3, <2>1, <2>2, <2>3, <2>4 DEF ClientPlace
<1> QED BY <1>2, <1>4, <1>5, <1>6, <1>7, CalmIsHeard DEF Inv

\* A frame that is sent is one less to send.
LEMMA InvOfBoard ==
  ASSUME Inv, Watch, BoardFrame
  PROVE  Inv'
<1>1. Fields /\ ClientPlace /\ AcqEndPlace /\ (overlap => overlap') BY WatchGrows DEF Inv
<1>2. (Overlaps => overlap)' BY WatchGrows
<1>3. /\ board.left > 0 /\ board'.sel = board.sel /\ DOMAIN board' = DOMAIN board
      /\ UNCHANGED <<cam, todo, op, threw>>
  BY <1>1 DEF BoardFrame, Fields, Members
<1>4. DOMAIN espia' = DOMAIN espia /\ (Heard => Heard')
  BY <1>1 DEF BoardFrame, Fields, Members, Heard
<1>5. Fields' BY <1>1, <1>3, <1>4 DEF Fields, Members
<1>6. board.left # 0 BY <1>3
<1>7. AcqEndPlace' BY <1>1, <1>3, <1>6 DEF AcqEndPlace
<1>8. Calm BY <1>3, <1>4 DEF Calm
<1>9. ClientPlace'
  <2>1. StopPlace => StopPlace' BY <1>3, <1>6 DEF StopPlace
  <2>2. Quiet(todo["client"]) => Quiet(todo["client"])' BY <1>3
  <2>3. StartPlace => StartPlace' BY <1>1, <1>3, <1>4 DEF StartPlace
  <2> QED BY <1>1, <1>3, <2>1, <2>2, <2>3 DEF ClientPlace
<1> QED BY <1>2, <1>5, <1>7, <1>8, <1>9, CalmIsHeard DEF Inv

\* Nothing is armed or running at first.
LEMMA InvInit == Init => Inv
<1> SUFFICES ASSUME Init PROVE Inv OBVIOUS
<1> USE ActorAssumption DEF Init
<1>1. Fields BY DEF Fields, Members
<1>2. ~Overlaps BY DEF Overlaps
<1>3. FramesAreHeard /\ FramesFromPorts BY DEF FramesAreHeard, FramesFromPorts
<1>4. ClientPlace BY DEF ClientPlace, Quiet
<1>5. AcqEndPlace BY DEF AcqEndPlace
<1> QED BY <1>1, <1>2, <1>3, <1>4, <1>5 DEF Inv

\* Inv is inductive: the calls, the notice, the frames and the steps.
LEMMA InvStep == Inv /\ [Next]_vars => Inv'
<1> SUFFICES ASSUME Inv, [Next]_vars PROVE Inv' OBVIOUS
<1>1. CASE UNCHANGED vars
  <2> USE <1>1 DEF vars, state, ghost
  <2>1. Fields' BY DEF Inv, Fields, Members
  <2>2. (Overlaps => overlap)' BY DEF Inv, Overlaps, Idle
  <2>3. FramesAreHeard' /\ FramesFromPorts' BY DEF Inv, FramesAreHeard, FramesFromPorts
  <2>4. ClientPlace' BY DEF Inv, ClientPlace, Quiet, StartPlace, StopPlace, Heard
  <2>5. AcqEndPlace' BY DEF Inv, AcqEndPlace
  <2> QED BY <2>1, <2>2, <2>3, <2>4, <2>5 DEF Inv
<1>2. CASE Next
  BY <1>2, InvOfCalls, InvOfNotice, InvOfBoard, InvOfSteps DEF Next
<1> QED BY <1>1, <1>2

\* Every place of a stop and of a start is as Inv says, whatever the
\* callback does meanwhile and whichever step throws.
THEOREM InvHolds == Spec => []Inv
BY InvInit, InvStep, PTL DEF Spec

\* A stop or a reset that has returned leaves the board disarmed and Espia
\* stopped (Camera::stopAcq, Camera::reset), for any number of exceptions and
\* whatever acqFinished does at the same time.
THEOREM StopsStop == Spec => []StopStops
<1>1. Inv => StopStops
  BY StopShape DEF Inv, ClientPlace, StopPlace, StopStops, Idle
<1> QED BY <1>1, InvHolds, PTL

\* Unless an acqFinished overlapped a start, the board sends its frames only
\* while Espia runs or has all of them (Camera::startAcq, Camera::stopAcq).
THEOREM FramesHaveAListener == Spec => []FramesAreHeard
<1>1. Inv => FramesAreHeard BY DEF Inv
<1> QED BY <1>1, InvHolds, PTL

\* ... and only from the chips selected at the start (PriamAcq::startAcq).
THEOREM FramesComeFromPorts == Spec => []FramesFromPorts
<1>1. Inv => FramesFromPorts BY DEF Inv
<1> QED BY <1>1, InvHolds, PTL


-----------------------------------------------------------------------------
(***************************************************************************)
(* The frames suffice: the numbers of frames of Espia and of the board are *)
(* the same once set after the modes, and stay so until a mode changes.    *)
(***************************************************************************)
\* Each start is for one frame.
One == cam.trig = "IntTrigMult" /\ cam.lima # "Accumulation"

Counts ==
  /\ board.left \in Nat /\ board.nb \in Nat /\ espia.missing \in Nat /\ espia.nb \in Nat
  /\ espia.full => espia.missing = 0
  /\ espia.running => espia.missing <= espia.nb

\* While Espia runs the client sets nothing, and Lima's mode is the camera's.
Settled ==
  /\ op["client"] \in {"none", "set", "frames"} /\ todo["client"] # <<>> => ~espia.running
  /\ espia.running => cam.mode = cam.lima

\* What is left of a method that sets a parameter or prepares.
SetPlace ==
  \/ todo["client"] = <<>> \/ todo["client"] = <<assign("prepare", TRUE)>>
  \/ \E t : todo["client"] = <<assign("trig", t)>>

\* What is left of setNbHwFrames(n), and what it has done.
ToMode(m, n, k) == <<assign("mode", m), Do("espiaFrames", "", n), writeReg("nb", k), assign("nb", k)>>
ToEspia(n, k)   == <<Do("espiaFrames", "", n), writeReg("nb", k), assign("nb", k)>>
ToBoard(k)      == <<writeReg("nb", k), assign("nb", k)>>
ToMember(k)     == <<assign("nb", k)>>

FramesPlaceOf(n, k) ==
  \/ todo["client"] = ToMode(cam.lima, n, k)
  \/ todo["client"] = ToEspia(n, k) /\ cam.mode = cam.lima
  \/ todo["client"] = ToBoard(k) /\ cam.mode = cam.lima /\ espia.nb = n
  \/ todo["client"] = ToMember(k) /\ cam.mode = cam.lima /\ espia.nb = n /\ board.nb = k

FramesPlace ==
  \/ todo["client"] = <<>>
  \/ \E n \in Frames : FramesPlaceOf(n, IF One THEN 1 ELSE n)

\* What is left of a start: Lima's mode is handed over first.
AfterMode == {AtIf, AtListen, AtClear, AtCheck, AtPorts, AtArm}

ModePlace ==
  \/ todo["client"] = <<>> \/ todo["client"] = AtMode(cam.lima)
  \/ todo["client"] \in AfterMode /\ cam.mode = cam.lima

Place ==
  /\ op["client"] = "none" => todo["client"] = <<>>
  /\ op["client"] = "set" => SetPlace
  /\ op["client"] = "frames" => FramesPlace
  /\ op["client"] = "start" => ModePlace

\* What a number of frames set after the modes says.
FreshSet ==
  fresh => /\ op["client"] = "frames" => todo["client"] = <<>>
           /\ cam.mode = cam.lima
           /\ ~One => board.nb = espia.nb

Suffice ==
  fresh /\ armed /\ espia.running /\ board.left > 0 /\ ~One => board.left >= espia.missing

CountInv == Counts /\ Settled /\ Place /\ FreshSet /\ Suffice

\* What is left of setNbHwFrames after each step.
LEMMA ToModeShape ==
  ASSUME NEW m, NEW n, NEW k
  PROVE  /\ Head(ToMode(m, n, k)) = assign("mode", m)
         /\ Tail(ToMode(m, n, k)) = ToEspia(n, k)
<1> DEFINE a == assign("mode", m)
           b == Do("espiaFrames", "", n)
           c == writeReg("nb", k)
           d == assign("nb", k)
<1>1. ToMode(m, n, k) = <<a, b, c, d>> /\ ToEspia(n, k) = <<b, c, d>>
  BY DEF ToMode, ToEspia
<1> HIDE DEF a, b, c, d
<1>2. Head(ToMode(m, n, k)) = a /\ Tail(ToMode(m, n, k)) = ToEspia(n, k)
  BY <1>1
<1> QED BY <1>2 DEF a

LEMMA FramesShape ==
  ASSUME NEW n, NEW k
  PROVE  /\ ToEspia(n, k) # <<>> /\ Head(ToEspia(n, k)) = Do("espiaFrames", "", n)
         /\ Tail(ToEspia(n, k)) = ToBoard(k)
         /\ ToBoard(k) # <<>> /\ Head(ToBoard(k)) = writeReg("nb", k)
         /\ Tail(ToBoard(k)) = ToMember(k)
         /\ ToMember(k) # <<>> /\ Head(ToMember(k)) = assign("nb", k)
         /\ Tail(ToMember(k)) = <<>>
<1> DEFINE b == Do("espiaFrames", "", n)
           c == writeReg("nb", k)
           d == assign("nb", k)
<1>1. ToEspia(n, k) = <<b, c, d>> /\ ToBoard(k) = <<c, d>> /\ ToMember(k) = <<d>>
  BY DEF ToEspia, ToBoard, ToMember
<1> HIDE DEF b, c, d
<1>2. /\ ToEspia(n, k) # <<>> /\ Head(ToEspia(n, k)) = b
      /\ Tail(ToEspia(n, k)) = ToBoard(k)
  BY <1>1
<1>3. /\ ToBoard(k) # <<>> /\ Head(ToBoard(k)) = c /\ Tail(ToBoard(k)) = ToMember(k)
  BY <1>1
<1>4. ToMember(k) # <<>> /\ Head(ToMember(k)) = d /\ Tail(ToMember(k)) = <<>>
  BY <1>1
<1> QED BY <1>2, <1>3, <1>4 DEF b, c, d

LEMMA FramesBegin ==
  ASSUME NEW n, NEW k, k = IF One THEN 1 ELSE n
  PROVE  setNbHwFrames(n) = ToMode(cam.lima, n, k)
<1>1. setNbHwFrames(n) = <<assign("mode", cam.lima), Do("espiaFrames", "", n)>>
                           \o <<writeReg("nb", k), assign("nb", k)>>
  BY DEF setNbHwFrames, priamSetNbFrames, One
<1> QED BY <1>1, Join22 DEF ToMode

LEMMA EspiaFramesStep ==
  ASSUME NEW n, NEW s, s = Do("espiaFrames", "", n)
  PROVE  s.do = "espiaFrames" /\ s.v = n
BY DEF Do

\* What the watched numbers become.
LEMMA WatchFresh ==
  ASSUME Watch, fresh'
  PROVE  /\ FramesSet \/ (fresh /\ cam'.trig = cam.trig /\ cam'.lima = cam.lima)
         /\ op'["client"] = "frames" => todo'["client"] = <<>>
<1>1. /\ FramesSet \/ (fresh /\ UNCHANGED <<cam.trig, cam.lima>>)
      /\ op'["client"] = "frames" => Idle("client")'
  BY Zenon DEF Watch
<1> QED BY <1>1 DEF Idle

LEMMA WatchArmed ==
  ASSUME Watch, armed'
  PROVE  /\ armed \/ \E p \in Actors : Arm(p)
         /\ ~\E p \in Actors : EspiaStart(p)
BY Zenon DEF Watch, WatchArm

\* A number of frames is not set by a step that does not end the client's
\* method, or ends it by an exception.
LEMMA NotSet ==
  ASSUME todo'["client"] = todo["client"] \/ todo'["client"] # <<>> \/ "client" \in threw'
  PROVE  ~FramesSet
BY DEF FramesSet, Idle

\* The number that was set stays the same while the modes do.
LEMMA FreshKept ==
  ASSUME FreshSet, Watch, ~FramesSet, board'.nb = board.nb, espia'.nb = espia.nb,
         cam'.lima = cam.lima /\ cam.mode = cam.lima => cam'.mode = cam.lima
  PROVE  FreshSet'
<1> SUFFICES ASSUME fresh'
             PROVE  /\ op'["client"] = "frames" => todo'["client"] = <<>>
                    /\ cam'.mode = cam'.lima
                    /\ ~One' => board'.nb = espia'.nb
  BY DEF FreshSet
<1>1. /\ fresh /\ cam'.trig = cam.trig /\ cam'.lima = cam.lima
      /\ op'["client"] = "frames" => todo'["client"] = <<>>
  BY WatchFresh
<1>2. One' <=> One BY <1>1 DEF One
<1> QED BY <1>1, <1>2 DEF FreshSet

\* The frames still suffice after a step that starts Espia, or that takes a
\* frame from the board only with one Espia waits for.
Keeps ==
  espia'.running =>
    /\ espia.running
    /\ board'.left > 0 =>
         board.left > 0 /\ (board.left >= espia.missing => board'.left >= espia'.missing)

LEMMA SufficeKept ==
  ASSUME Fields, Counts', FreshSet', Settled, Suffice, Watch,
         Keeps \/ \E p \in Actors : EspiaStart(p) \/ Arm(p)
  PROVE  Suffice'
<1> SUFFICES ASSUME fresh', armed', espia'.running, board'.left > 0, ~One'
             PROVE  board'.left >= espia'.missing
  BY DEF Suffice
<1>1. ~\E p \in Actors : EspiaStart(p) BY WatchArmed
<1>2. CASE \E p \in Actors : Arm(p)
  <2>1. board'.left = board.nb /\ board'.nb = board.nb BY <1>2 DEF Arm, Fields, Members
  <2>2. board'.nb = espia'.nb BY DEF FreshSet
  <2> QED BY <2>1, <2>2 DEF Counts
<1>3. CASE ~\E p \in Actors : Arm(p)
  <2>1. armed BY <1>3, WatchArmed
  <2>2. Keeps BY <1>1, <1>3
  <2>3. espia.running BY <2>2 DEF Keeps
  <2>4. ~FramesSet BY <2>3 DEF Settled, FramesSet, Idle
  <2>5. fresh /\ cam'.trig = cam.trig /\ cam'.lima = cam.lima BY <2>4, WatchFresh
  <2>6. ~One BY <2>5 DEF One
  <2> QED BY <2>1, <2>2, <2>3, <2>5, <2>6 DEF Keeps, Suffice
<1> QED BY <1>2, <1>3

\* A step that changes no mode and no number, and starts nothing.
Steady ==
  /\ cam'.mode = cam.mode /\ cam'.lima = cam.lima /\ cam'.trig = cam.trig
  /\ board'.nb = board.nb /\ espia'.nb = espia.nb
  /\ board'.left = board.left \/ board'.left = 0
  /\ espia'.missing = espia.missing
  /\ espia'.full => espia.full
  /\ espia'.running => espia.running

LEMMA SteadyKeeps ==
  ASSUME CountInv, Steady
  PROVE  /\ Counts' /\ Keeps /\ (espia'.running => cam'.mode = cam'.lima)
         /\ One' <=> One
<1>1. Counts' BY DEF CountInv, Counts, Steady
<1>2. Keeps BY DEF CountInv, Counts, Steady, Keeps
<1>3. espia'.running => cam'.mode = cam'.lima BY DEF CountInv, Settled, Steady
<1>4. One' <=> One BY DEF One, Steady
<1> QED BY <1>1, <1>2, <1>3, <1>4

\* ... of another actor, or one that drops what the client had left.
LEMMA SteadyStep ==
  ASSUME CountInv, Fields, Watch, Steady, op'["client"] = op["client"],
         todo'["client"] = todo["client"] \/ (todo'["client"] = <<>> /\ "client" \in threw')
  PROVE  CountInv'
<1>1. /\ Counts' /\ Keeps /\ (espia'.running => cam'.mode = cam'.lima)
      /\ One' <=> One
  BY SteadyKeeps
<1>2. ~FramesSet BY NotSet
<1>3. FreshSet' BY <1>2, FreshKept DEF CountInv, Steady
<1>4. Suffice' BY <1>1, <1>3, SufficeKept DEF CountInv
<1>5. Settled' BY <1>1 DEF CountInv, Settled, Steady
<1>6. CASE todo'["client"] = <<>>
  <2>1. SetPlace' /\ FramesPlace' /\ ModePlace'
    BY <1>6 DEF SetPlace, FramesPlace, ModePlace
  <2>2. Place' BY <1>6, <2>1 DEF Place
  <2> QED BY <1>1, <1>3, <1>4, <1>5, <2>2 DEF CountInv
<1>7. CASE todo'["client"] = todo["client"]
  <2>1. SetPlace => SetPlace' BY <1>7 DEF SetPlace
  <2>2. ModePlace => ModePlace' BY <1>7 DEF ModePlace, Steady
  <2>3. FramesPlace => FramesPlace'
    <3>1. \A n, k : FramesPlaceOf(n, k) => FramesPlaceOf(n, k)'
      BY <1>7 DEF FramesPlaceOf, Steady
    <3> QED BY <1>1, <1>7, <3>1 DEF FramesPlace
  <2>4. Place' BY <1>7, <2>1, <2>2, <2>3 DEF CountInv, Place
  <2> QED BY <1>1, <1>3, <1>4, <1>5, <2>4 DEF CountInv
<1> QED BY <1>6, <1>7

\* Nothing a stop does changes a mode or a number.
LEMMA StopIsSteady ==
  ASSUME Fields, NEW p \in Actors, Step(p),
         todo[p] \in ToDisarm \cup ToSelect \cup ToHalt \cup ToClear \cup ToChips
  PROVE  Steady /\ Done(p)
<1>1. CASE todo[p] \in ToDisarm
  <2>1. Disarm(p) BY <1>1, StopShape, Kinds, WhichStep
  <2> QED BY <2>1 DEF Disarm, Steady, Fields, Members
<1>2. CASE todo[p] \in ToSelect \cup ToChips
  <2>1. Head(todo[p]) = enableSerial0 BY <1>2, StopShape
  <2>2. WriteReg(p) /\ Head(todo[p]).f = "sel" BY <2>1, Kinds, WhichStep
  <2> QED BY <2>2 DEF WriteReg, Next1, Steady, Fields, Members
<1>3. CASE todo[p] \in ToHalt
  <2>1. EspiaStop(p) BY <1>3, StopShape, Kinds, WhichStep
  <2> QED BY <2>1 DEF EspiaStop, Steady, Fields, Members
<1>4. CASE todo[p] \in ToClear
  <2>1. Head(todo[p]) = clear BY <1>4, StopShape
  <2>2. Assign(p) /\ Head(todo[p]).f = "prepare" BY <2>1, Kinds, WhichStep
  <2> QED BY <2>2 DEF Assign, Next1, Steady, Fields, Members
<1> QED BY <1>1, <1>2, <1>3, <1>4


\* A step of the client done goes to the next of its method or drops the rest.
LEMMA ClientGoes ==
  ASSUME Fields, "client" \in Actors, Done("client")
  PROVE  /\ op' = op
         /\ \/ todo'["client"] = Tail(todo["client"])
            \/ todo'["client"] = <<>> /\ "client" \in threw'
BY Ends DEF Done, Fields

\* A step that goes on to a place of its method.
LEMMA GoesOn ==
  ASSUME CountInv, Fields, Watch, Counts', Keeps \/ \E p \in Actors : EspiaStart(p) \/ Arm(p),
         FreshSet', Place', espia'.running => cam'.mode = cam'.lima,
         op'["client"] \in {"none", "set", "frames"} /\ todo'["client"] # <<>> => ~espia'.running
  PROVE  CountInv'
<1>1. Suffice' BY SufficeKept DEF CountInv
<1>2. Settled' BY DEF Settled
<1> QED BY <1>1, <1>2 DEF CountInv

\* A step of a method that sets a parameter or prepares.
LEMMA SetSteps ==
  ASSUME CountInv, Fields, Watch, "client" \in Actors, Step("client"),
         op["client"] = "set"
  PROVE  CountInv'
<1>1. todo["client"] # <<>> BY WhichStep
<1>2. ~espia.running BY <1>1 DEF CountInv, Settled
<1>3. ASSUME NEW f \in {"prepare", "trig"}, NEW v, todo["client"] = <<assign(f, v)>>
      PROVE  CountInv'
  <2>1. Head(todo["client"]) = assign(f, v) /\ Tail(todo["client"]) = <<>> BY <1>3, Head1
  <2>2. Head(todo["client"]).do = "assign" /\ Head(todo["client"]).f = f BY <2>1 DEF assign, Do
  <2>3. Assign("client") BY <2>2, WhichStep
  <2>4. /\ UNCHANGED <<board, espia>> /\ cam'.mode = cam.mode /\ cam'.lima = cam.lima
    BY <1>3, <2>2, <2>3 DEF Assign, Next1, Fields, Members
  <2>5. op' = op /\ todo'["client"] = <<>>
    BY <2>1, <2>3, ClientGoes DEF Assign
  <2>6. Counts' /\ Keeps BY <1>2, <2>4 DEF CountInv, Counts, Keeps
  <2>7. ~FramesSet BY <2>5 DEF FramesSet, CountInv, Place
  <2>8. FreshSet' BY <2>4, <2>7, FreshKept DEF CountInv
  <2>9. Place' BY <2>5 DEF CountInv, Place, SetPlace
  <2> QED BY <1>2, <2>4, <2>5, <2>6, <2>8, <2>9, GoesOn
<1>4. SetPlace BY DEF CountInv, Place, Settled
<1> QED BY <1>1, <1>3, <1>4 DEF SetPlace

\* A step of setNbHwFrames; the last sets the number.
LEMMA FramesSteps ==
  ASSUME CountInv, Fields, Watch, "client" \in Actors, Step("client"),
         op["client"] = "frames"
  PROVE  CountInv'
<1>1. todo["client"] # <<>> BY WhichStep
<1>2. ~espia.running BY <1>1 DEF CountInv, Settled
<1>3. ~fresh BY <1>1 DEF CountInv, FreshSet
<1> DEFINE s == todo["client"]
           m == cam.lima
<1>4. PICK n \in Frames : FramesPlaceOf(n, IF One THEN 1 ELSE n)
  BY <1>1, Zenon DEF CountInv, Place, FramesPlace
<1>5. PICK k : k = (IF One THEN 1 ELSE n) /\ FramesPlaceOf(n, k)
  BY <1>4, Zenon
<1>11. n \in Nat /\ k \in Nat /\ (~One => k = n) BY <1>5, FrameAssumption
<1>6. ASSUME op' = op, cam'.lima = cam.lima, cam'.trig = cam.trig,
             todo'["client"] # <<>> \/ "client" \in threw',
             UNCHANGED espia.running, Counts',
             todo'["client"] = <<>> \/ FramesPlaceOf(n, k)'
      PROVE  CountInv'
  <2>1. One' <=> One BY <1>6 DEF One
  <2>2. k = IF One' THEN 1 ELSE n BY <1>5, <2>1
  <2>3. FramesPlace' BY <1>6, <2>2, Zenon DEF FramesPlace
  <2>4. Place' BY <1>6, <2>3 DEF CountInv, Place
  <2>5. Keeps BY <1>2, <1>6 DEF Keeps
  <2>6. ~fresh' BY <1>3, <1>6, NotSet, WatchFresh
  <2>7. FreshSet' BY <2>6 DEF FreshSet
  <2> QED BY <1>2, <1>6, <2>4, <2>5, <2>7, GoesOn
<1>7. CASE s = ToMode(m, n, k)
  <2>1. Head(s) = assign("mode", cam.lima) /\ Tail(s) = ToEspia(n, k)
    BY <1>7, ToModeShape
  <2>2. Head(s).do = "assign" /\ Head(s).f = "mode" /\ Head(s).v = cam.lima BY <2>1 DEF assign, Do
  <2>3. Assign("client") BY <2>2, WhichStep
  <2>4. /\ UNCHANGED <<board, espia>> /\ cam'.mode = cam.lima /\ cam'.lima = cam.lima
        /\ cam'.trig = cam.trig
    BY <2>2, <2>3 DEF Assign, Next1, Fields, Members
  <2>5. op' = op /\ (todo'["client"] = Tail(s) \/ (todo'["client"] = <<>> /\ "client" \in threw'))
    BY <2>3, ClientGoes DEF Assign
  <2>6. Counts' BY <2>4 DEF CountInv, Counts
  <2>7. todo'["client"] = Tail(s) => FramesPlaceOf(n, k)' /\ todo'["client"] # <<>>
    BY <2>1, <2>4, FramesShape DEF FramesPlaceOf
  <2> QED BY <1>6, <2>4, <2>5, <2>6, <2>7
<1>8. CASE s = ToEspia(n, k) /\ cam.mode = cam.lima
  <2>1. Head(s) = Do("espiaFrames", "", n) /\ Tail(s) = ToBoard(k) BY <1>8, FramesShape
  <2>2. Head(s).do = "espiaFrames" /\ Head(s).v = n BY <2>1, EspiaFramesStep
  <2>3. EspiaFrames("client") BY <2>2, WhichStep
  <2>4. /\ UNCHANGED <<cam, board>> /\ espia'.nb = n /\ espia'.running = espia.running
        /\ espia'.full = espia.full /\ espia'.missing = espia.missing
    BY <2>2, <2>3 DEF EspiaFrames, Next1, Fields, Members
  <2>5. op' = op /\ (todo'["client"] = Tail(s) \/ (todo'["client"] = <<>> /\ "client" \in threw'))
    BY <2>3, ClientGoes DEF EspiaFrames
  <2>6. Counts' BY <1>2, <1>11, <2>4 DEF CountInv, Counts
  <2>7. todo'["client"] = Tail(s) => FramesPlaceOf(n, k)' /\ todo'["client"] # <<>>
    BY <1>8, <2>1, <2>4, FramesShape DEF FramesPlaceOf
  <2> QED BY <1>6, <2>4, <2>5, <2>6, <2>7
<1>9. CASE s = ToBoard(k) /\ cam.mode = cam.lima /\ espia.nb = n
  <2>1. Head(s) = writeReg("nb", k) /\ Tail(s) = ToMember(k) BY <1>9, FramesShape
  <2>2. Head(s).do = "writeReg" /\ Head(s).f = "nb" /\ Head(s).v = k BY <2>1 DEF writeReg, Do
  <2>3. WriteReg("client") BY <2>2, WhichStep
  <2>4. UNCHANGED <<cam, espia>> /\ board'.nb = k /\ board'.left = board.left
    BY <2>2, <2>3 DEF WriteReg, Next1, Fields, Members
  <2>5. op' = op /\ (todo'["client"] = Tail(s) \/ (todo'["client"] = <<>> /\ "client" \in threw'))
    BY <2>3, ClientGoes DEF WriteReg
  <2>6. Counts' BY <1>11, <2>4 DEF CountInv, Counts
  <2>7. todo'["client"] = Tail(s) => FramesPlaceOf(n, k)' /\ todo'["client"] # <<>>
    BY <1>9, <2>1, <2>4, FramesShape DEF FramesPlaceOf
  <2> QED BY <1>6, <2>4, <2>5, <2>6, <2>7
<1>10. CASE s = ToMember(k) /\ cam.mode = cam.lima /\ espia.nb = n /\ board.nb = k
  <2>1. Head(s) = assign("nb", k) /\ Tail(s) = <<>> BY <1>10, FramesShape
  <2>2. Head(s).do = "assign" /\ Head(s).f = "nb" BY <2>1 DEF assign, Do
  <2>3. Assign("client") BY <2>2, WhichStep
  <2>4. /\ UNCHANGED <<board, espia>> /\ cam'.mode = cam.mode /\ cam'.lima = cam.lima
        /\ cam'.trig = cam.trig
    BY <2>2, <2>3 DEF Assign, Next1, Fields, Members
  <2>5. op' = op /\ todo'["client"] = <<>>
    BY <2>1, <2>3, ClientGoes DEF Assign
  <2>6. Counts' /\ Keeps BY <1>2, <2>4 DEF CountInv, Counts, Keeps
  <2>7. ~One' => board'.nb = espia'.nb BY <1>10, <1>11, <2>4 DEF One
  <2>8. FreshSet' BY <1>10, <2>4, <2>5, <2>7 DEF FreshSet
  <2>9. Place' BY <2>5 DEF CountInv, Place, FramesPlace
  <2> QED BY <1>2, <2>4, <2>5, <2>6, <2>8, <2>9, GoesOn
<1> QED BY <1>5, <1>7, <1>8, <1>9, <1>10 DEF FramesPlaceOf

\* A step of a start.
LEMMA StartSteps ==
  ASSUME CountInv, Fields, Watch, "client" \in Actors, Step("client"),
         op["client"] = "start"
  PROVE  CountInv'
<1> DEFINE s == todo["client"]
<1>1. s # <<>> BY WhichStep
<1>2. ModePlace BY DEF CountInv, Place
<1>3. ~FramesSet BY DEF FramesSet
<1>4. ASSUME op' = op, todo'["client"] \in AfterMode \cup {<<>>}, cam'.mode = cam'.lima
      PROVE  Place'
  BY <1>4 DEF Place, ModePlace
<1>5. ASSUME Steady, op' = op, cam.mode = cam.lima, todo'["client"] \in AfterMode \cup {<<>>}
      PROVE  CountInv'
  <2>1. Counts' /\ Keeps /\ (espia'.running => cam'.mode = cam'.lima) BY <1>5, SteadyKeeps
  <2>2. FreshSet' BY <1>3, <1>5, FreshKept DEF CountInv, Steady
  <2>3. Place' BY <1>4, <1>5 DEF Steady
  <2> QED BY <1>5, <2>1, <2>2, <2>3, GoesOn
<1>6. CASE s = AtMode(cam.lima)
  <2>1. Head(s) = assign("mode", cam.lima) /\ Tail(s) = AtIf BY <1>6, StartShape
  <2>2. Head(s).do = "assign" /\ Head(s).f = "mode" /\ Head(s).v = cam.lima BY <2>1 DEF assign, Do
  <2>3. Assign("client") BY <2>2, WhichStep
  <2>4. /\ UNCHANGED <<board, espia>> /\ cam'.mode = cam.lima /\ cam'.lima = cam.lima
    BY <2>2, <2>3 DEF Assign, Next1, Fields, Members
  <2>5. op' = op /\ todo'["client"] \in AfterMode \cup {<<>>}
    BY <2>1, <2>3, ClientGoes DEF Assign, AfterMode
  <2>6. Counts' /\ Keeps BY <2>4 DEF CountInv, Counts, Keeps
  <2>7. FreshSet' BY <1>3, <2>4, FreshKept DEF CountInv
  <2>8. Place' BY <1>4, <2>4, <2>5
  <2> QED BY <2>4, <2>5, <2>6, <2>7, <2>8, GoesOn
<1>7. CASE s = AtIf /\ cam.mode = cam.lima
  <2>1. Head(s) = Simple("ifPrepared") BY <1>7, StartShape
  <2>2. IfPrepared("client") BY <2>1, Kinds, WhichStep
  <2>3. UNCHANGED <<cam, board, espia, op>> BY <2>2 DEF IfPrepared, state
  <2>4. todo'["client"] \in {<<listen, clear>> \o Tail(s), <<>> \o Tail(s)}
    BY <2>2 DEF IfPrepared, Fields, Members, listen, clear
  <2>5. todo'["client"] \in AfterMode BY <1>7, <2>4, StartShape DEF AfterMode
  <2>6. Steady BY <2>3 DEF Steady
  <2> QED BY <1>5, <1>7, <2>3, <2>5, <2>6
<1>8. CASE s = AtListen /\ cam.mode = cam.lima
  <2>1. Head(s) = listen /\ Tail(s) = AtClear BY <1>8, StartShape
  <2>2. EspiaStart("client") BY <2>1, Kinds, WhichStep
  <2>3. /\ UNCHANGED <<cam, board>> /\ espia'.running /\ espia'.nb = espia.nb
        /\ espia'.missing = espia.nb /\ espia'.full = FALSE
    BY <2>2 DEF EspiaStart, Fields, Members
  <2>4. op' = op /\ todo'["client"] \in AfterMode \cup {<<>>}
    BY <2>1, <2>2, ClientGoes DEF EspiaStart, AfterMode
  <2>5. Counts' BY <2>3 DEF CountInv, Counts
  <2>6. FreshSet' BY <1>3, <1>8, <2>3, FreshKept DEF CountInv
  <2>7. Place' BY <1>4, <1>8, <2>3, <2>4
  <2> QED BY <1>8, <2>2, <2>3, <2>4, <2>5, <2>6, <2>7, GoesOn
<1>9. CASE s = AtClear /\ cam.mode = cam.lima
  <2>1. Head(s) = clear /\ Tail(s) = AtCheck BY <1>9, StartShape
  <2>2. Assign("client") /\ Head(s).f = "prepare" BY <2>1, Kinds, WhichStep
  <2>3. Steady BY <2>2 DEF Assign, Next1, Steady, Fields, Members
  <2>4. op' = op /\ todo'["client"] \in AfterMode \cup {<<>>}
    BY <2>1, <2>2, ClientGoes DEF Assign, AfterMode
  <2> QED BY <1>5, <1>9, <2>3, <2>4
<1>10. CASE s = AtCheck /\ cam.mode = cam.lima
  <2>1. Head(s) = Simple("check") /\ Tail(s) = AtPorts BY <1>10, StartShape
  <2>2. Check("client") BY <2>1, Kinds, WhichStep
  <2>3. UNCHANGED <<cam, board, espia>> BY <2>2 DEF Check, state
  <2>4. op' = op /\ todo'["client"] \in {Tail(s), <<>>}
    BY <2>2 DEF Check, Goes, Fields, Members
  <2>5. Steady BY <2>3 DEF Steady
  <2> QED BY <1>5, <1>10, <2>1, <2>4, <2>5 DEF AfterMode
<1>11. CASE s = AtPorts /\ cam.mode = cam.lima
  <2>1. Head(s) = select /\ Tail(s) = AtArm BY <1>11, StartShape
  <2>2. WriteReg("client") /\ Head(s).f = "sel" BY <2>1, Kinds, WhichStep
  <2>3. Steady BY <2>2 DEF WriteReg, Next1, Steady, Fields, Members
  <2>4. op' = op /\ todo'["client"] \in AfterMode \cup {<<>>}
    BY <2>1, <2>2, ClientGoes DEF WriteReg, AfterMode
  <2> QED BY <1>5, <1>11, <2>3, <2>4
<1>12. CASE s = AtArm /\ cam.mode = cam.lima
  <2>1. Head(s) = arm /\ Tail(s) = <<>> BY <1>12, StartShape
  <2>2. Arm("client") BY <2>1, Kinds, WhichStep
  <2>3. /\ UNCHANGED <<cam, espia>> /\ board'.left = board.nb /\ board'.nb = board.nb
    BY <2>2 DEF Arm, Fields, Members
  <2>4. op' = op /\ todo'["client"] = <<>>
    BY <2>1, <2>2, ClientGoes DEF Arm
  <2>5. Counts' BY <2>3 DEF CountInv, Counts
  <2>6. FreshSet' BY <1>3, <1>12, <2>3, FreshKept DEF CountInv
  <2>7. Place' BY <1>4, <1>12, <2>3, <2>4
  <2> QED BY <1>12, <2>2, <2>3, <2>4, <2>5, <2>6, <2>7, GoesOn
<1> QED BY <1>1, <1>2, <1>6, <1>7, <1>8, <1>9, <1>10, <1>11, <1>12 DEF ModePlace, AfterMode


\* A step or a failure of any actor.
LEMMA CountOfSteps ==
  ASSUME CountInv, Inv, Watch, NEW p \in Actors, Step(p) \/ Fail(p)
  PROVE  CountInv'
<1>1. Fields BY DEF Inv
<1>2. todo[p] # <<>> BY WhichStep DEF Fail, Idle
<1>3. p \in {"client", "acqend"} /\ {"client", "acqend"} \subseteq Actors /\ p \notin threw
  BY <1>1, <1>2, OnlyTwo, ActorAssumption
<1>4. op' = op /\ \A q \in Actors \ {p} : todo'[q] = todo[q]
  BY <1>1, Moves DEF Fields
<1>5. CASE Fail(p)
  <2>1. Steady BY <1>5 DEF Fail, state, Steady
  <2>2. p = "client" => todo'["client"] = <<>> /\ "client" \in threw'
    BY <1>1, <1>5 DEF Fail, Throws, Fields, Members
  <2> QED BY <1>1, <1>3, <1>4, <2>1, <2>2, SteadyStep
<1>6. CASE Step(p) /\ p = "acqend"
  <2>1. todo[p] \in ToDisarm \cup ToSelect \cup ToHalt \cup ToClear \cup ToChips
    BY <1>2, <1>6 DEF Inv, AcqEndPlace
  <2>2. Steady BY <1>1, <1>6, <2>1, StopIsSteady
  <2> QED BY <1>1, <1>3, <1>4, <1>6, <2>2, SteadyStep
<1>7. CASE Step(p) /\ p = "client"
  <2>1. CASE op["client"] = "stop"
    <3>1. todo[p] \in ToDisarm \cup ToSelect \cup ToHalt \cup ToClear \cup ToChips
      BY <1>2, <1>3, <1>7, <2>1 DEF Inv, ClientPlace, StopPlace
    <3>2. Steady /\ Done("client") BY <1>1, <1>7, <3>1, StopIsSteady
    <3>3. ~FramesSet BY <2>1 DEF FramesSet
    <3>4. Counts' /\ Keeps /\ (espia'.running => cam'.mode = cam'.lima) BY <3>2, SteadyKeeps
    <3>5. FreshSet' BY <3>2, <3>3, FreshKept DEF CountInv, Steady
    <3>6. Place' BY <1>4, <2>1 DEF Place
    <3> QED BY <1>1, <1>4, <2>1, <3>4, <3>5, <3>6, GoesOn
  <2>2. CASE op["client"] = "set" BY <1>1, <1>3, <1>7, <2>2, SetSteps
  <2>3. CASE op["client"] = "frames" BY <1>1, <1>3, <1>7, <2>3, FramesSteps
  <2>4. CASE op["client"] = "start" BY <1>1, <1>3, <1>7, <2>4, StartSteps
  <2>5. op["client"] # "none" BY <1>2, <1>7 DEF CountInv, Place
  <2> QED BY <2>1, <2>2, <2>3, <2>4, <2>5 DEF Inv, ClientPlace
<1> QED BY <1>3, <1>5, <1>6, <1>7

\* A method the client enters is at its first place.
LEMMA CountOfCalls ==
  ASSUME CountInv, Inv, Watch, Client
  PROVE  CountInv'
<1> USE ActorAssumption
<1>1. Fields BY DEF Inv
<1>2. CASE SetAcqMode
  <2>1. /\ UNCHANGED <<board, espia, todo, op>> /\ cam'.mode = cam.mode /\ cam'.trig = cam.trig
        /\ ~espia.running /\ todo["client"] = <<>>
    BY <1>1, <1>2 DEF SetAcqMode, Fields, Members, Idle
  <2>2. Counts' /\ Keeps BY <2>1 DEF CountInv, Counts, Keeps
  <2>3. ~FramesSet BY <2>1, NotSet
  <2>4. FreshSet'
    <3> SUFFICES ASSUME fresh'
                 PROVE  /\ op'["client"] = "frames" => todo'["client"] = <<>>
                        /\ cam'.mode = cam'.lima
                        /\ ~One' => board'.nb = espia'.nb
      BY DEF FreshSet
    <3>1. fresh /\ cam'.trig = cam.trig /\ cam'.lima = cam.lima BY <2>3, WatchFresh
    <3>2. One' <=> One BY <3>1 DEF One
    <3> QED BY <2>1, <3>1, <3>2 DEF CountInv, FreshSet
  <2>5. Place' BY <2>1 DEF Place, SetPlace, FramesPlace, ModePlace
  <2> QED BY <1>1, <2>1, <2>2, <2>4, <2>5, GoesOn
<1>3. ASSUME NEW name, NEW steps, Call("client", name, steps),
             name \in {"set", "frames"} => ~espia.running, Place'
      PROVE  CountInv'
  <2>1. /\ UNCHANGED <<cam, board, espia>> /\ todo["client"] = <<>>
        /\ op'["client"] = name
    BY <1>1, <1>3 DEF Call, Fields, Members, state, Idle
  <2>2. Steady BY <2>1 DEF Steady
  <2>3. Counts' /\ Keeps /\ (espia'.running => cam'.mode = cam'.lima) BY <2>2, SteadyKeeps
  <2>4. ~FramesSet BY <2>1 DEF FramesSet, Idle
  <2>5. FreshSet' BY <2>2, <2>4, FreshKept DEF CountInv, Steady
  <2>6. espia'.running = espia.running BY <2>1
  <2>7. op'["client"] \in {"none", "set", "frames"} /\ todo'["client"] # <<>> => ~espia'.running
    BY <1>3, <2>1, <2>6 DEF Place
  <2> QED BY <1>1, <1>3, <2>3, <2>5, <2>7, GoesOn
<1>4. ASSUME NEW name, NEW steps, Call("client", name, steps)
      PROVE  op'["client"] = name /\ todo'["client"] = steps /\ UNCHANGED <<cam, board, espia>>
  BY <1>1, <1>4 DEF Call, Fields, Members, state
<1>5. CASE SetTrigMode
  <2>1. PICK t : Call("client", "set", <<assign("trig", t)>>) BY <1>5 DEF SetTrigMode
  <2>2. ~espia.running BY <1>5 DEF SetTrigMode
  <2>3. Place'
    <3>1. op'["client"] = "set" /\ todo'["client"] = <<assign("trig", t)>> BY <1>4, <2>1
    <3>2. SetPlace' BY <3>1, Zenon DEF SetPlace
    <3> QED BY <3>1, <3>2 DEF Place
  <2> QED BY <1>3, <2>1, <2>2, <2>3
<1>6. CASE SetNbHwFrames
  <2>1. PICK n \in Frames : Call("client", "frames", setNbHwFrames(n)) BY <1>6 DEF SetNbHwFrames
  <2>2. ~espia.running BY <1>6 DEF SetNbHwFrames
  <2>3. Place'
    <3>1. PICK k : k = IF One THEN 1 ELSE n OBVIOUS
    <3>2. setNbHwFrames(n) = ToMode(cam.lima, n, k) BY <3>1, FramesBegin
    <3>3. op'["client"] = "frames" /\ todo'["client"] = ToMode(cam.lima, n, k)
          /\ UNCHANGED <<cam, board, espia>>
      BY <1>4, <2>1, <3>2
    <3>4. FramesPlaceOf(n, k)' BY <3>3 DEF FramesPlaceOf
    <3>5. One' <=> One BY <3>3 DEF One
    <3>6. k = IF One' THEN 1 ELSE n BY <3>1, <3>5
    <3>7. FramesPlace' BY <3>4, <3>6, Zenon DEF FramesPlace
    <3> QED BY <3>3, <3>7 DEF Place
  <2> QED BY <1>3, <2>1, <2>2, <2>3
<1>7. CASE PrepareAcq
  <2>1. Call("client", "set", prepareAcq) /\ ~espia.running BY <1>7 DEF PrepareAcq
  <2>2. Place'
    <3>1. op'["client"] = "set" /\ todo'["client"] = prepareAcq BY <1>4, <2>1
    <3>2. SetPlace' BY <3>1, Zenon DEF SetPlace, prepareAcq
    <3> QED BY <3>1, <3>2 DEF Place
  <2> QED BY <1>3, <2>1, <2>2
<1>8. CASE StartAcq
  <2>1. Call("client", "start", startAcq) BY <1>8 DEF StartAcq
  <2>2. Place' BY <1>4, <2>1, Methods DEF Place, ModePlace
  <2> QED BY <1>3, <2>1, <2>2
<1>9. CASE StopAcq \/ Reset
  <2>1. PICK steps \in {stopAcq, reset} : Call("client", "stop", steps)
    BY <1>9 DEF StopAcq, Reset
  <2>2. Place' BY <1>4, <2>1 DEF Place
  <2> QED BY <1>3, <2>1, <2>2
<1> QED BY <1>2, <1>5, <1>6, <1>7, <1>8, <1>9 DEF Client

\* The callback begins a stop.
LEMMA CountOfNotice ==
  ASSUME CountInv, Inv, Watch, AcqFinished
  PROVE  CountInv'
<1> USE ActorAssumption
<1>1. Fields BY DEF Inv
<1>2. /\ UNCHANGED <<cam, board>> /\ todo'["client"] = todo["client"]
      /\ op'["client"] = op["client"]
      /\ espia' = [espia EXCEPT !.pending = FALSE]
  BY <1>1 DEF AcqFinished, Fields, Members
<1>3. Steady BY <1>1, <1>2 DEF Steady, Fields, Members
<1> QED BY <1>1, <1>2, <1>3, SteadyStep

\* A frame that is sent is one Espia waits for, or is not waiting for any more.
LEMMA CountOfBoard ==
  ASSUME CountInv, Inv, Watch, BoardFrame
  PROVE  CountInv'
<1>1. Fields BY DEF Inv
<1>2. /\ UNCHANGED <<cam, todo, op, threw>> /\ board.left > 0
      /\ board'.left = board.left - 1 /\ board'.nb = board.nb
  BY <1>1 DEF BoardFrame, Fields, Members
<1>3. /\ espia'.nb = espia.nb /\ (espia'.running => espia.running)
      /\ \/ espia' = espia /\ (espia.running => espia.full)
         \/ espia.missing > 1 /\ espia'.missing = espia.missing - 1 /\ espia'.full = espia.full
            /\ ~espia.full
         \/ espia'.missing = 0
  <2>1. CASE ~espia.running \/ espia.full BY <2>1 DEF BoardFrame
  <2>2. CASE espia.running /\ ~espia.full /\ espia.missing > 1
    BY <1>1, <2>2 DEF BoardFrame, Fields, Members
  <2>3. CASE espia.running /\ ~espia.full /\ ~(espia.missing > 1)
    BY <1>1, <2>3 DEF BoardFrame, Fields, Members
  <2> QED BY <2>1, <2>2, <2>3
<1>4. Counts' BY <1>2, <1>3 DEF CountInv, Counts
<1>5. Keeps BY <1>2, <1>3 DEF CountInv, Counts, Keeps
<1>6. ~FramesSet BY <1>2, NotSet
<1>7. FreshSet' BY <1>2, <1>3, <1>6, FreshKept DEF CountInv
<1>8. Place'
  <2>1. SetPlace => SetPlace' BY <1>2 DEF SetPlace
  <2>2. ModePlace => ModePlace' BY <1>2 DEF ModePlace
  <2>3. FramesPlace => FramesPlace'
    <3>1. \A n, k : FramesPlaceOf(n, k) => FramesPlaceOf(n, k)'
      BY <1>2, <1>3 DEF FramesPlaceOf
    <3>2. One' <=> One BY <1>2 DEF One
    <3> QED BY <1>2, <3>1, <3>2 DEF FramesPlace
  <2> QED BY <1>2, <2>1, <2>2, <2>3 DEF CountInv, Place
<1>9. (espia'.running => cam'.mode = cam'.lima)
      /\ (op'["client"] \in {"none", "set", "frames"} /\ todo'["client"] # <<>> => ~espia'.running)
  BY <1>2, <1>3 DEF CountInv, Settled
<1> QED BY <1>1, <1>4, <1>5, <1>7, <1>8, <1>9, GoesOn

LEMMA CountInit == Init => CountInv
<1> SUFFICES ASSUME Init PROVE CountInv OBVIOUS
<1> USE ActorAssumption DEF Init
<1>1. Counts BY DEF Counts
<1>2. Settled BY DEF Settled
<1>3. Place BY DEF Place
<1>4. FreshSet /\ Suffice BY DEF FreshSet, Suffice
<1> QED BY <1>1, <1>2, <1>3, <1>4 DEF CountInv

LEMMA CountStep == Inv /\ CountInv /\ [Next]_vars => CountInv'
<1> SUFFICES ASSUME Inv, CountInv, [Next]_vars PROVE CountInv' OBVIOUS
<1>1. CASE UNCHANGED vars
  <2> USE <1>1 DEF vars, state, ghost
  <2>1. Counts' BY DEF CountInv, Counts
  <2>2. Settled' BY DEF CountInv, Settled
  <2>3. One' <=> One BY DEF One
  <2>4. Place'
    <3>1. SetPlace => SetPlace' BY DEF SetPlace
    <3>2. ModePlace => ModePlace' BY DEF ModePlace
    <3>3. \A n, k : FramesPlaceOf(n, k) => FramesPlaceOf(n, k)' BY DEF FramesPlaceOf
    <3>4. FramesPlace => FramesPlace' BY <2>3, <3>3 DEF FramesPlace
    <3> QED BY <3>1, <3>2, <3>4 DEF CountInv, Place
  <2>5. FreshSet' BY <2>3 DEF CountInv, FreshSet
  <2>6. Suffice' BY <2>3 DEF CountInv, Suffice
  <2> QED BY <2>1, <2>2, <2>4, <2>5, <2>6 DEF CountInv
<1>2. CASE Next
  BY <1>2, CountOfCalls, CountOfNotice, CountOfBoard, CountOfSteps DEF Next
<1> QED BY <1>1, <1>2

\* Once a start has armed the board for a running Espia, the frames it still
\* sends are at least those Espia waits for (Camera::setNbHwFrames, startAcq),
\* for any numbers of frames, order of settings and exceptions, as long as
\* the number of frames was set after the modes.
THEOREM EnoughFrames == Spec => []FramesSuffice
<1>1. CountInv => FramesSuffice
  BY DEF CountInv, Settled, Suffice, FramesSuffice, One
<1>2. Init => Inv /\ CountInv BY InvInit, CountInit
<1>3. (Inv /\ CountInv) /\ [Next]_vars => (Inv /\ CountInv)' BY InvStep, CountStep
<1> QED BY <1>1, <1>2, <1>3, PTL DEF Spec

-----------------------------------------------------------------------------
(***************************************************************************)
(* The reconfiguration.                                                    *)
(***************************************************************************)
Waits == "Config" \notin ReloadWhen

Modes == AcqModes \cup {"Single"}

\* What the registers ET and INB may hold.
Times == 0 .. Longest
Words == 0 .. 2 * Half - 1

\* The steps of the client's methods, and of acqFinished.
OfStop   == {disarm, enableSerial0, halt, clear}
OfStart  == {assign("mode", m) : m \in Modes}
              \cup {Simple("ifPrepared"), Simple("check"), select, arm, listen, clear}
OfFrames == {assign("mode", m) : m \in Modes} \cup {Do("espiaFrames", "", n) : n \in Nat}
              \cup {writeReg("nb", n) : n \in Words} \cup {assign("nb", n) : n \in Nat}
OfSet    == {assign("trig", t) : t \in Trigs} \cup {assign("prepare", TRUE)}
              \cup {writeReg("et", Held(t)) : t \in Expos}

\* What is left of threadFunction from its k-th step on; it has 20 of them,
\* lowers the flag in the 19th and joins in the last.
Rest(k) == SubSeq(threadFunction, k, 20)

\* The thread gives up when the dummy acquisition is not over.
giveUp   == Simple("giveUp")
GivingUp == {<<disarm, enableSerial0, giveUp>>, <<enableSerial0, giveUp>>, <<giveUp>>}

-----------------------------------------------------------------------------
(***************************************************************************)
(* The invariant.                                                          *)
(***************************************************************************)
IfaceMembers ==
  /\ Members
  /\ DOMAIN iface = {"name", "flag", "det", "chip", "et", "nb"}
  /\ \A p \in Actors \ {"client", "acqend", "config"} : todo[p] = <<>>
  /\ cam.lima \in Modes

\* What the thread knows before its k-th step: what it has loaded, and where
\* the exposure time and the number of frames it found are, and in what form.
Known(k) ==
  /\ k >= 2 => iface.det = iface.name
  /\ k >= 4 => iface.chip = iface.name
  /\ k <= 7 => board.et = before.et
  /\ k >= 6 => iface.et = before.et
  /\ k <= 8 => board.nb = before.nb
  /\ k >= 7 => iface.nb = Saved(before.nb)
  /\ k >= 17 => board.et = Held(before.et)
  /\ k >= 18 => board.nb = iface.nb % (2 * Half)
  /\ k >= 19 => cam.nb = iface.nb

ConfigPlace ==
  \/ todo["config"] = <<>> /\ ("config" \in threw \/ iface.det = iface.chip)
  \/ todo["config"] \in GivingUp
  \/ todo["config"] = Rest(20) /\ iface.det = iface.chip
  \/ \E k \in 1 .. 19 : todo["config"] = Rest(k) /\ Known(k)

\* The client in loadConfig: it has seen Ready, and acquires nothing.
LoadPlace ==
  \/ todo["client"] = <<>>
  \/ /\ \/ \E n \in Names : todo["client"] = loadConfig(n)
        \/ todo["client"] = <<set("flag", TRUE), Simple("threadStart")>>
        \/ todo["client"] = <<Simple("threadStart")>> /\ iface.flag
     /\ seen # "Ready" /\ ~espia.running /\ ~cam.prepare

ClientDoes ==
  \/ op["client"] = "none" /\ todo["client"] = <<>>
  \/ op["client"] = "set" /\ todo["client"] \in Seq(OfSet)
  \/ op["client"] = "frames" /\ todo["client"] \in Seq(OfFrames)
  \/ op["client"] = "start" /\ todo["client"] \in Seq(OfStart)
       /\ (todo["client"] = <<>> \/ seen # "Ready")
  \/ op["client"] = "stop" /\ todo["client"] \in Seq(OfStop)
  \/ op["client"] = "status" /\ \/ todo["client"] \in {<<>>, getStatus}
                                \/ todo["client"] = <<Simple("readRunning")>> /\ ~Loading
  \/ op["client"] = "load" /\ LoadPlace

\* While the thread is at work the client has not been told Ready, and asks
\* for the status or stops at most.
Undisturbed ==
  /\ iface.flag /\ seen # "Ready" /\ ~espia.running /\ ~cam.prepare
  /\ Idle("client") \/ op["client"] \in {"status", "stop"}

AloneInv ==
  /\ IfaceMembers
  /\ ClientDoes /\ todo["acqend"] \in Seq(OfStop) /\ ConfigPlace
  /\ Loading => Undisturbed
  /\ seen = "Ready" => ~espia.running


-----------------------------------------------------------------------------
(***************************************************************************)
(* The thread's steps.                                                     *)
(***************************************************************************)
readDet    == Simple("readDet")
readChip   == Simple("readChip")
saveExpo   == Simple("saveExpo")
saveFrames == Simple("saveFrames")
expose     == writeReg("et", Dummy)
oneFrame   == writeReg("nb", 1)
keepOne    == assign("nb", 1)
check      == Simple("check")
readIdle   == Simple("readIdle")
giveExpo   == Simple("restoreExpo")
giveFrames == Simple("restoreFrames")
keepFrames == Simple("keepFrames")
lower      == set("flag", FALSE)
join       == Simple("join")

OfThread == {readDet, enableSerial0, readChip, saveExpo, saveFrames, expose, oneFrame,
             keepOne, check, select, arm, readIdle, disarm, giveExpo, giveFrames,
             keepFrames, lower, join}

\* One sequence behind another, element by element.
Joined(s, t, u) ==
  /\ Len(u) = Len(s) + Len(t)
  /\ \A i \in Nat : /\ 1 <= i /\ i <= Len(s) => u[i] = s[i]
                    /\ Len(s) < i /\ i <= Len(u) => u[i] = t[i - Len(s)]

LEMMA Joining ==
  ASSUME NEW S, NEW s \in Seq(S), NEW t \in Seq(S)
  PROVE  s \o t \in Seq(S) /\ Joined(s, t, s \o t)
BY ConcatProperties DEF Joined

\* The dummy acquisition: what it borrows is saved before and restored after.
LEMMA PixelShape ==
  /\ applyPixelConfig \in Seq(OfThread) /\ Len(applyPixelConfig) = 15
  /\ applyPixelConfig[1] = enableSerial0 /\ applyPixelConfig[2] = saveExpo
  /\ applyPixelConfig[3] = saveFrames /\ applyPixelConfig[4] = expose
  /\ applyPixelConfig[5] = oneFrame /\ applyPixelConfig[6] = keepOne
  /\ applyPixelConfig[7] = check /\ applyPixelConfig[8] = select
  /\ applyPixelConfig[9] = arm /\ applyPixelConfig[10] = readIdle
  /\ applyPixelConfig[11] = disarm /\ applyPixelConfig[12] = enableSerial0
  /\ applyPixelConfig[13] = giveExpo /\ applyPixelConfig[14] = giveFrames
  /\ applyPixelConfig[15] = keepFrames
<1> DEFINE a == <<enableSerial0, saveExpo, saveFrames, expose>>
           b == <<oneFrame, keepOne>>
           c == <<check, select, arm>>
           d == <<readIdle>>
           e == <<disarm, enableSerial0>>
           f == <<giveExpo, giveFrames, keepFrames>>
           ab == a \o b
           abc == ab \o c
           abcd == abc \o d
           abcde == abcd \o e
<1>1. applyPixelConfig = abcde \o f
  BY DEF applyPixelConfig, priamSetNbFrames, priamStartAcq, priamStopAcq, enableSerial0,
         saveExpo, saveFrames, expose, oneFrame, keepOne, check, select, arm, readIdle,
         disarm, giveExpo, giveFrames, keepFrames
<1>2. /\ enableSerial0 \in OfThread /\ saveExpo \in OfThread /\ saveFrames \in OfThread
      /\ expose \in OfThread /\ oneFrame \in OfThread /\ keepOne \in OfThread
      /\ check \in OfThread /\ select \in OfThread /\ arm \in OfThread
      /\ readIdle \in OfThread /\ disarm \in OfThread /\ giveExpo \in OfThread
      /\ giveFrames \in OfThread /\ keepFrames \in OfThread
  BY Zenon DEF OfThread
<1>3. /\ a \in Seq(OfThread) /\ Len(a) = 4 /\ a[1] = enableSerial0 /\ a[2] = saveExpo
      /\ a[3] = saveFrames /\ a[4] = expose
      /\ b \in Seq(OfThread) /\ Len(b) = 2 /\ b[1] = oneFrame /\ b[2] = keepOne
      /\ c \in Seq(OfThread) /\ Len(c) = 3 /\ c[1] = check /\ c[2] = select /\ c[3] = arm
      /\ d \in Seq(OfThread) /\ Len(d) = 1 /\ d[1] = readIdle
      /\ e \in Seq(OfThread) /\ Len(e) = 2 /\ e[1] = disarm /\ e[2] = enableSerial0
      /\ f \in Seq(OfThread) /\ Len(f) = 3 /\ f[1] = giveExpo /\ f[2] = giveFrames
      /\ f[3] = keepFrames
  BY <1>2
<1> HIDE DEF a, b, c, d, e, f
<1>4. ab \in Seq(OfThread) /\ Joined(a, b, ab)
  BY <1>3, Joining
<1> HIDE DEF ab
<1>5. abc \in Seq(OfThread) /\ Joined(ab, c, abc)
  BY <1>3, <1>4, Joining
<1> HIDE DEF abc
<1>6. abcd \in Seq(OfThread) /\ Joined(abc, d, abcd)
  BY <1>3, <1>5, Joining
<1> HIDE DEF abcd
<1>7. abcde \in Seq(OfThread) /\ Joined(abcd, e, abcde)
  BY <1>3, <1>6, Joining
<1> HIDE DEF abcde
<1>8. applyPixelConfig \in Seq(OfThread) /\ Joined(abcde, f, applyPixelConfig)
  BY <1>1, <1>3, <1>7, Joining
<1>9. /\ Len(ab) = 6 /\ ab[1] = a[1] /\ ab[2] = a[2] /\ ab[3] = a[3] /\ ab[4] = a[4]
      /\ ab[5] = b[1] /\ ab[6] = b[2]
  BY <1>3, <1>4 DEF Joined
<1>10. /\ Len(abc) = 9 /\ abc[1] = ab[1] /\ abc[2] = ab[2] /\ abc[3] = ab[3]
       /\ abc[4] = ab[4] /\ abc[5] = ab[5] /\ abc[6] = ab[6]
       /\ abc[7] = c[1] /\ abc[8] = c[2] /\ abc[9] = c[3]
  BY <1>3, <1>5, <1>9 DEF Joined
<1>11. /\ Len(abcd) = 10 /\ abcd[1] = abc[1] /\ abcd[2] = abc[2] /\ abcd[3] = abc[3]
       /\ abcd[4] = abc[4] /\ abcd[5] = abc[5] /\ abcd[6] = abc[6]
       /\ abcd[7] = abc[7] /\ abcd[8] = abc[8] /\ abcd[9] = abc[9] /\ abcd[10] = d[1]
  BY <1>3, <1>6, <1>10 DEF Joined
<1>12. /\ Len(abcde) = 12 /\ abcde[1] = abcd[1] /\ abcde[2] = abcd[2] /\ abcde[3] = abcd[3]
       /\ abcde[4] = abcd[4] /\ abcde[5] = abcd[5] /\ abcde[6] = abcd[6]
       /\ abcde[7] = abcd[7] /\ abcde[8] = abcd[8] /\ abcde[9] = abcd[9]
       /\ abcde[10] = abcd[10] /\ abcde[11] = e[1] /\ abcde[12] = e[2]
  BY <1>3, <1>7, <1>11 DEF Joined
<1> DEFINE s == applyPixelConfig
<1> HIDE DEF s
<1>13. /\ Len(s) = 15 /\ s[1] = abcde[1] /\ s[2] = abcde[2] /\ s[3] = abcde[3]
       /\ s[4] = abcde[4] /\ s[5] = abcde[5] /\ s[6] = abcde[6] /\ s[7] = abcde[7]
       /\ s[8] = abcde[8] /\ s[9] = abcde[9] /\ s[10] = abcde[10]
       /\ s[11] = abcde[11] /\ s[12] = abcde[12] /\ s[13] = f[1] /\ s[14] = f[2]
       /\ s[15] = f[3]
  <2>1. Joined(abcde, f, s) /\ Len(abcde) = 12 /\ Len(f) = 3 BY <1>3, <1>8, <1>12 DEF s
  <2>2. Len(s) = 15 BY <2>1 DEF Joined
  <2>3. s[1] = abcde[1] /\ s[2] = abcde[2] /\ s[3] = abcde[3]
    BY <2>1, <2>2 DEF Joined
  <2>4. s[4] = abcde[4] /\ s[5] = abcde[5] /\ s[6] = abcde[6]
    BY <2>1, <2>2 DEF Joined
  <2>5. s[7] = abcde[7] /\ s[8] = abcde[8] /\ s[9] = abcde[9]
    BY <2>1, <2>2 DEF Joined
  <2>6. s[10] = abcde[10] /\ s[11] = abcde[11] /\ s[12] = abcde[12]
    BY <2>1, <2>2 DEF Joined
  <2>7. s[13] = f[1] /\ s[14] = f[2] /\ s[15] = f[3]
    BY <2>1, <2>2 DEF Joined
  <2> QED BY <2>2, <2>3, <2>4, <2>5, <2>6, <2>7
<1> QED BY <1>3, <1>8, <1>9, <1>10, <1>11, <1>12, <1>13 DEF s

\* The thread's twenty steps.
LEMMA ThreadShape ==
  /\ threadFunction \in Seq(OfThread) /\ Len(threadFunction) = 20
  /\ threadFunction[1] = readDet /\ threadFunction[2] = enableSerial0
  /\ threadFunction[3] = readChip /\ threadFunction[4] = enableSerial0
  /\ threadFunction[5] = saveExpo /\ threadFunction[6] = saveFrames
  /\ threadFunction[7] = expose /\ threadFunction[8] = oneFrame
  /\ threadFunction[9] = keepOne /\ threadFunction[10] = check
  /\ threadFunction[11] = select /\ threadFunction[12] = arm
  /\ threadFunction[13] = readIdle /\ threadFunction[14] = disarm
  /\ threadFunction[15] = enableSerial0 /\ threadFunction[16] = giveExpo
  /\ threadFunction[17] = giveFrames /\ threadFunction[18] = keepFrames
  /\ threadFunction[19] = lower /\ threadFunction[20] = join
<1> DEFINE a == <<readDet, enableSerial0>>
           b == <<readChip>>
           c == applyPixelConfig
           d == <<lower, join>>
           bc == b \o c
           abc == a \o bc
<1>1. threadFunction = abc \o d
  BY DEF threadFunction, loadDetConfig, loadChipConfig, readDet, enableSerial0, readChip,
         lower, join
<1>2. /\ readDet \in OfThread /\ enableSerial0 \in OfThread /\ readChip \in OfThread
      /\ lower \in OfThread /\ join \in OfThread
  BY Zenon DEF OfThread
<1>3. /\ a \in Seq(OfThread) /\ Len(a) = 2 /\ a[1] = readDet /\ a[2] = enableSerial0
      /\ b \in Seq(OfThread) /\ Len(b) = 1 /\ b[1] = readChip
      /\ d \in Seq(OfThread) /\ Len(d) = 2 /\ d[1] = lower /\ d[2] = join
  BY <1>2
<1>4. c \in Seq(OfThread) /\ Len(c) = 15
  BY PixelShape
<1> HIDE DEF a, b, c, d
<1>5. bc \in Seq(OfThread) /\ Joined(b, c, bc)
  BY <1>3, <1>4, Joining
<1> HIDE DEF bc
<1>6. abc \in Seq(OfThread) /\ Joined(a, bc, abc)
  BY <1>3, <1>5, Joining
<1> HIDE DEF abc
<1>7. threadFunction \in Seq(OfThread) /\ Joined(abc, d, threadFunction)
  BY <1>1, <1>3, <1>6, Joining
<1>8. /\ Len(bc) = 16 /\ bc[1] = b[1] /\ bc[2] = c[1] /\ bc[3] = c[2] /\ bc[4] = c[3]
      /\ bc[5] = c[4] /\ bc[6] = c[5] /\ bc[7] = c[6] /\ bc[8] = c[7] /\ bc[9] = c[8]
      /\ bc[10] = c[9] /\ bc[11] = c[10] /\ bc[12] = c[11] /\ bc[13] = c[12]
      /\ bc[14] = c[13] /\ bc[15] = c[14] /\ bc[16] = c[15]
  BY <1>3, <1>4, <1>5 DEF Joined
<1>9. /\ Len(abc) = 18 /\ abc[1] = a[1] /\ abc[2] = a[2] /\ abc[3] = bc[1]
      /\ abc[4] = bc[2] /\ abc[5] = bc[3] /\ abc[6] = bc[4] /\ abc[7] = bc[5]
      /\ abc[8] = bc[6] /\ abc[9] = bc[7] /\ abc[10] = bc[8] /\ abc[11] = bc[9]
      /\ abc[12] = bc[10] /\ abc[13] = bc[11] /\ abc[14] = bc[12] /\ abc[15] = bc[13]
      /\ abc[16] = bc[14] /\ abc[17] = bc[15] /\ abc[18] = bc[16]
  <2>1. Joined(a, bc, abc) /\ Len(a) = 2 /\ Len(bc) = 16 BY <1>3, <1>6, <1>8
  <2>2. Len(abc) = 18 BY <2>1 DEF Joined
  <2>3. abc[1] = a[1] /\ abc[2] = a[2] /\ abc[3] = bc[1]
    BY <2>1, <2>2 DEF Joined
  <2>4. abc[4] = bc[2] /\ abc[5] = bc[3] /\ abc[6] = bc[4]
    BY <2>1, <2>2 DEF Joined
  <2>5. abc[7] = bc[5] /\ abc[8] = bc[6] /\ abc[9] = bc[7]
    BY <2>1, <2>2 DEF Joined
  <2>6. abc[10] = bc[8] /\ abc[11] = bc[9] /\ abc[12] = bc[10]
    BY <2>1, <2>2 DEF Joined
  <2>7. abc[13] = bc[11] /\ abc[14] = bc[12] /\ abc[15] = bc[13]
    BY <2>1, <2>2 DEF Joined
  <2>8. abc[16] = bc[14] /\ abc[17] = bc[15] /\ abc[18] = bc[16]
    BY <2>1, <2>2 DEF Joined
  <2> QED BY <2>2, <2>3, <2>4, <2>5, <2>6, <2>7, <2>8
<1> DEFINE s == threadFunction
<1> HIDE DEF s
<1>10. /\ Len(s) = 20 /\ s[1] = abc[1] /\ s[2] = abc[2] /\ s[3] = abc[3]
       /\ s[4] = abc[4] /\ s[5] = abc[5] /\ s[6] = abc[6] /\ s[7] = abc[7]
       /\ s[8] = abc[8] /\ s[9] = abc[9] /\ s[10] = abc[10] /\ s[11] = abc[11]
       /\ s[12] = abc[12] /\ s[13] = abc[13] /\ s[14] = abc[14] /\ s[15] = abc[15]
       /\ s[16] = abc[16] /\ s[17] = abc[17] /\ s[18] = abc[18]
       /\ s[19] = d[1] /\ s[20] = d[2]
  <2>1. Joined(abc, d, s) /\ Len(abc) = 18 /\ Len(d) = 2 BY <1>3, <1>7, <1>9 DEF s
  <2>2. Len(s) = 20 BY <2>1 DEF Joined
  <2>3. s[1] = abc[1] /\ s[2] = abc[2] /\ s[3] = abc[3] /\ s[4] = abc[4]
    BY <2>1, <2>2 DEF Joined
  <2>4. s[5] = abc[5] /\ s[6] = abc[6] /\ s[7] = abc[7] /\ s[8] = abc[8]
    BY <2>1, <2>2 DEF Joined
  <2>5. s[9] = abc[9] /\ s[10] = abc[10] /\ s[11] = abc[11] /\ s[12] = abc[12]
    BY <2>1, <2>2 DEF Joined
  <2>6. s[13] = abc[13] /\ s[14] = abc[14] /\ s[15] = abc[15] /\ s[16] = abc[16]
    BY <2>1, <2>2 DEF Joined
  <2>7. s[17] = abc[17] /\ s[18] = abc[18] /\ s[19] = d[1] /\ s[20] = d[2]
    BY <2>1, <2>2 DEF Joined
  <2> QED BY <2>2, <2>3, <2>4, <2>5, <2>6, <2>7
<1> QED BY <1>3, <1>7, <1>8, <1>9, <1>10, PixelShape DEF c, s

\* There is a step left before the last is done.
LEMMA SubSeqNotEmpty ==
  ASSUME NEW S, NEW s \in Seq(S), NEW k \in 1 .. Len(s)
  PROVE  SubSeq(s, k, Len(s)) # <<>>
<1>1. \A i \in k .. Len(s) : s[i] \in S OBVIOUS
<1>2. Len(SubSeq(s, k, Len(s))) = (Len(s) - k) + 1 BY <1>1, SubSeqProperties
<1>3. Len(SubSeq(s, k, Len(s))) # 0 BY <1>2
<1>4. Len(<<>>) = 0 OBVIOUS
<1> QED BY <1>3, <1>4, Zenon

\* What is left, step by step.
LEMMA RestShape ==
  /\ \A k \in 1 .. 20 : Rest(k) # <<>> /\ Head(Rest(k)) = threadFunction[k]
                        /\ Tail(Rest(k)) = Rest(k + 1)
  /\ Rest(1) = threadFunction /\ Rest(21) = <<>>
<1>1. threadFunction \in Seq(OfThread) /\ Len(threadFunction) = 20
  BY ThreadShape
<1> DEFINE s == threadFunction
<1> HIDE DEF s
<1>2. s \in Seq(OfThread) /\ Len(s) = 20 BY <1>1 DEF s
<1>3. \A k \in 1 .. 20 : Head(SubSeq(s, k, 20)) = s[k]
                         /\ Tail(SubSeq(s, k, 20)) = SubSeq(s, k + 1, 20)
  BY <1>2, HeadTailOfSubSeq
<1>4. SubSeq(s, 1, 20) = s BY <1>2, SubSeqFull
<1>5. SubSeq(s, 21, 20) = <<>> BY SubSeqEmpty
<1>6. \A k \in 1 .. 20 : SubSeq(s, k, 20) # <<>>
  BY <1>2, SubSeqNotEmpty
<1> QED BY <1>3, <1>4, <1>5, <1>6 DEF Rest, s


-----------------------------------------------------------------------------
(***************************************************************************)
(* What each kind of step does.                                            *)
(***************************************************************************)
LEMMA ThreadKinds ==
  /\ readDet.do = "readDet" /\ readChip.do = "readChip"
  /\ saveExpo.do = "saveExpo" /\ saveFrames.do = "saveFrames"
  /\ expose.do = "writeReg" /\ expose.f = "et"
  /\ oneFrame.do = "writeReg" /\ oneFrame.f = "nb"
  /\ keepOne.do = "assign" /\ keepOne.f = "nb"
  /\ check.do = "check" /\ readIdle.do = "readIdle"
  /\ giveExpo.do = "restoreExpo" /\ giveFrames.do = "restoreFrames"
  /\ keepFrames.do = "keepFrames" /\ giveUp.do = "giveUp"
  /\ lower.do = "set" /\ lower.f = "flag" /\ lower.v = FALSE
  /\ join.do = "join"
BY DEF readDet, readChip, saveExpo, saveFrames, expose, oneFrame, keepOne, check, readIdle,
       giveExpo, giveFrames, keepFrames, giveUp, lower, join, set, assign, writeReg,
       Simple, Do

CameraKinds == {"assign", "writeReg", "ifPrepared", "check", "arm", "disarm",
                "espiaFrames", "espiaStart", "espiaStop"}

LEMMA CameraStepKind ==
  ASSUME NEW p, Step(p)
  PROVE  todo[p] # <<>> /\ Head(todo[p]).do \in CameraKinds
BY DEF Step, Assign, WriteReg, IfPrepared, Check, Arm, Disarm, EspiaFrames, EspiaStart,
       EspiaStop, At, Idle, Next1, CameraKinds

\* The action taken is that of the first step left.
LEMMA WhichIfaceStep ==
  ASSUME NEW p, IfaceStep(p)
  PROVE  /\ todo[p] # <<>> /\ Head(todo[p]).do \notin CameraKinds
         /\ \/ Head(todo[p]).do = "set" /\ Set(p)
            \/ Head(todo[p]).do = "threadStart" /\ ThreadStart(p)
            \/ Head(todo[p]).do = "readFlag" /\ ReadFlag(p)
            \/ Head(todo[p]).do = "readRunning" /\ ReadRunning(p)
            \/ Head(todo[p]).do \in {"readDet", "readChip"} /\ ReadFile(p)
            \/ Head(todo[p]).do \in {"saveExpo", "saveFrames"} /\ Save(p)
            \/ Head(todo[p]).do = "readIdle" /\ ReadIdle(p)
            \/ Head(todo[p]).do = "giveUp" /\ GiveUp(p)
            \/ Head(todo[p]).do \in {"restoreExpo", "restoreFrames", "keepFrames"} /\ Restore(p)
            \/ Head(todo[p]).do = "join" /\ Join(p)
<1>1. \A what : At(p, what) => todo[p] # <<>> /\ Head(todo[p]).do = what
  BY DEF At, Idle, Next1
<1>2. CASE Set(p) BY <1>1, <1>2 DEF Set, CameraKinds
<1>3. CASE ThreadStart(p) BY <1>1, <1>3 DEF ThreadStart, CameraKinds
<1>4. CASE ReadFlag(p) BY <1>1, <1>4 DEF ReadFlag, CameraKinds
<1>5. CASE ReadRunning(p) BY <1>1, <1>5 DEF ReadRunning, CameraKinds
<1>6. CASE ReadFile(p) BY <1>1, <1>6 DEF ReadFile, CameraKinds
<1>7. CASE Save(p) BY <1>1, <1>7 DEF Save, CameraKinds
<1>8. CASE ReadIdle(p) BY <1>1, <1>8 DEF ReadIdle, CameraKinds
<1>9. CASE GiveUp(p) BY <1>1, <1>9 DEF GiveUp, CameraKinds
<1>10. CASE Restore(p) BY <1>1, <1>10 DEF Restore, CameraKinds
<1>11. CASE Join(p) BY <1>1, <1>11 DEF Join, CameraKinds
<1> QED BY <1>2, <1>3, <1>4, <1>5, <1>6, <1>7, <1>8, <1>9, <1>10, <1>11 DEF IfaceStep

-----------------------------------------------------------------------------
(***************************************************************************)
(* The steps of the thread.                                                *)
(***************************************************************************)
Working == (Step("config") /\ UNCHANGED extra) \/ IfaceStep("config")

\* Before its k-th step.
LEMMA AtWork ==
  ASSUME NEW k \in 1 .. 20, todo["config"] = Rest(k)
  PROVE  todo["config"] # <<>> /\ Head(todo["config"]) = threadFunction[k]
<1>1. Rest(k) # <<>> /\ Head(Rest(k)) = threadFunction[k] BY RestShape
<1> QED BY <1>1

\* The thread has done its k-th step, or it has thrown.
Advances(k) ==
  /\ DOMAIN todo' = Actors /\ op' = op
  /\ \A q \in Actors \ {"config"} : todo'[q] = todo[q]
  /\ todo'["config"] = Rest(k + 1) \/ (todo'["config"] = <<>> /\ "config" \in threw')

LEMMA DoneAdvances ==
  ASSUME Members, NEW k \in 1 .. 20, todo["config"] = Rest(k),
         Goes("config") \/ Throws("config")
  PROVE  Advances(k)
<1>1. "config" \in Actors /\ Tail(Rest(k)) = Rest(k + 1) BY ConfigAssumption, RestShape
<1> QED BY <1>1, Ends DEF Advances

\* Everything but the ports and what the board sends is as it was.
Aside ==
  /\ UNCHANGED <<cam, espia, extra>>
  /\ DOMAIN board' = DOMAIN board /\ board'.et = board.et /\ board'.nb = board.nb

LEMMA KnownAside ==
  ASSUME NEW k \in 1 .. 18, k \notin {1, 3, 5, 6, 16, 17, 18}, Known(k), Aside
  PROVE  Known(k + 1)'
BY DEF Known, Aside, extra

\* A register written, the board started or stopped, a check.
LEMMA ThreadAside ==
  ASSUME Members, NEW k \in {2, 4, 10, 11, 12, 14, 15}, todo["config"] = Rest(k), Working
  PROVE  Advances(k) /\ Aside
<1>1. /\ todo["config"] # <<>> /\ Head(todo["config"]) = threadFunction[k]
      /\ k \in 1 .. 20
  BY AtWork
<1>2. ~(IfaceStep("config") /\ Head(todo["config"]).do \in CameraKinds)
  BY WhichIfaceStep
<1>3. ASSUME Step("config"), UNCHANGED extra, Done("config") PROVE Advances(k)
  BY <1>1, <1>3, DoneAdvances DEF Done
<1>4. CASE k \in {2, 4, 11, 15}
  <2>1. /\ Head(todo["config"]).do = "writeReg" /\ Head(todo["config"]).f = "sel"
    BY <1>1, <1>4, ThreadShape, Kinds
  <2>2. Step("config") /\ UNCHANGED extra BY <1>2, <2>1 DEF Working, CameraKinds
  <2>3. WriteReg("config") BY <2>1, <2>2, WhichStep
  <2>4. Aside BY <2>1, <2>2, <2>3, Effects DEF Aside, Members
  <2> QED BY <1>3, <2>2, <2>3, <2>4 DEF WriteReg
<1>5. CASE k = 12
  <2>1. Head(todo["config"]).do = "arm" BY <1>1, <1>5, ThreadShape, Kinds
  <2>2. Step("config") /\ UNCHANGED extra BY <1>2, <2>1 DEF Working, CameraKinds
  <2>3. Arm("config") BY <2>1, <2>2, WhichStep
  <2>4. Aside BY <2>2, <2>3 DEF Aside, Arm, Members
  <2> QED BY <1>3, <2>2, <2>3, <2>4 DEF Arm
<1>6. CASE k = 14
  <2>1. Head(todo["config"]).do = "disarm" BY <1>1, <1>6, ThreadShape, Kinds
  <2>2. Step("config") /\ UNCHANGED extra BY <1>2, <2>1 DEF Working, CameraKinds
  <2>3. Disarm("config") BY <2>1, <2>2, WhichStep
  <2>4. Aside BY <2>2, <2>3 DEF Aside, Disarm, Members
  <2> QED BY <1>3, <2>2, <2>3, <2>4 DEF Disarm
<1>7. CASE k = 10
  <2>1. Head(todo["config"]).do = "check" BY <1>1, <1>7, ThreadShape, ThreadKinds
  <2>2. Step("config") /\ UNCHANGED extra BY <1>2, <2>1 DEF Working, CameraKinds
  <2>3. Check("config") BY <2>1, <2>2, WhichStep
  <2>4. Aside BY <2>2, <2>3 DEF Aside, Check, state
  <2>5. CASE Goes("config") BY <1>1, <2>4, <2>5, DoneAdvances
  <2>6. CASE ~Goes("config")
    <3>1. /\ todo' = [todo EXCEPT !["config"] = <<>>] /\ op' = op
          /\ threw' = threw \cup {"config"}
      BY <2>3, <2>6 DEF Check
    <3> QED BY <2>4, <3>1, ConfigAssumption DEF Advances, Members
  <2> QED BY <2>5, <2>6
<1> QED BY <1>4, <1>5, <1>6, <1>7


\* What no step of the thread before the one that lowers the flag changes.
Works ==
  /\ UNCHANGED <<seen, thread, before, espia>>
  /\ DOMAIN cam' = DOMAIN cam /\ DOMAIN board' = DOMAIN board /\ DOMAIN iface' = DOMAIN iface
  /\ cam'.prepare = cam.prepare /\ cam'.lima = cam.lima
  /\ iface'.flag = iface.flag /\ iface'.name = iface.name

\* A file is read.
LEMMA ThreadReads ==
  ASSUME IfaceMembers, NEW k \in {1, 3}, todo["config"] = Rest(k), Known(k), Working
  PROVE  Advances(k) /\ Works /\ Known(k + 1)'
<1>1. Head(todo["config"]) = threadFunction[k] /\ k \in 1 .. 20 BY AtWork
<1>2. Head(todo["config"]).do = IF k = 1 THEN "readDet" ELSE "readChip"
  BY <1>1, ThreadShape, ThreadKinds
<1>3. IfaceStep("config")
  BY <1>2, CameraStepKind DEF Working, CameraKinds
<1>4. ReadFile("config") BY <1>2, <1>3, WhichIfaceStep
<1>5. Goes("config") /\ UNCHANGED <<state, thread, seen, before>>
      /\ iface' = IF k = 1 THEN [iface EXCEPT !.det = iface.name]
                           ELSE [iface EXCEPT !.chip = iface.name]
  BY <1>2, <1>4 DEF ReadFile, At, Next1
<1>6. Advances(k) BY <1>1, <1>5, DoneAdvances DEF IfaceMembers
<1>7. Works BY <1>5 DEF Works, state, IfaceMembers
<1>8. CASE k = 1
  <2>1. iface'.det = iface'.name BY <1>5, <1>8 DEF IfaceMembers
  <2>2. UNCHANGED <<board, before>> BY <1>5 DEF state
  <2> QED BY <1>6, <1>7, <1>8, <2>1, <2>2 DEF Known
<1>9. CASE k = 3
  <2>1. iface'.chip = iface'.name /\ iface'.det = iface'.name
    BY <1>5, <1>9 DEF IfaceMembers, Known
  <2>2. UNCHANGED <<board, before>> BY <1>5 DEF state
  <2> QED BY <1>6, <1>7, <1>9, <2>1, <2>2 DEF Known
<1> QED BY <1>8, <1>9

\* What the dummy acquisition overwrites is saved ...
LEMMA ThreadSaves ==
  ASSUME IfaceMembers, NEW k \in {5, 6}, todo["config"] = Rest(k), Known(k), Working
  PROVE  Advances(k) /\ Works /\ Known(k + 1)'
<1>1. Head(todo["config"]) = threadFunction[k] /\ k \in 1 .. 20 BY AtWork
<1>2. Head(todo["config"]).do = IF k = 5 THEN "saveExpo" ELSE "saveFrames"
  BY <1>1, ThreadShape, ThreadKinds
<1>3. IfaceStep("config")
  BY <1>2, CameraStepKind DEF Working, CameraKinds
<1>4. Save("config") BY <1>2, <1>3, WhichIfaceStep
<1>5. Goes("config") /\ UNCHANGED <<state, thread, seen, before>>
      /\ iface' = IF k = 5 THEN [iface EXCEPT !.et = board.et]
                  ELSE [iface EXCEPT !.nb = Saved(board.nb)]
  BY <1>2, <1>4 DEF Save, At, Next1
<1>6. Advances(k) BY <1>1, <1>5, DoneAdvances DEF IfaceMembers
<1>7. Works BY <1>5 DEF Works, state, IfaceMembers
<1>8. UNCHANGED <<board, before>> BY <1>5 DEF state
<1>9. iface'.det = iface'.name /\ iface'.chip = iface'.name
  BY <1>5 DEF IfaceMembers, Known
<1>10. CASE k = 5
  <2>1. iface'.et = before'.et BY <1>5, <1>8, <1>10 DEF IfaceMembers, Known
  <2> QED BY <1>6, <1>7, <1>8, <1>9, <1>10, <2>1 DEF Known
<1>11. CASE k = 6
  <2>1. iface'.et = before'.et /\ iface'.nb = Saved(before'.nb)
    BY <1>5, <1>8, <1>11 DEF IfaceMembers, Known
  <2> QED BY <1>6, <1>7, <1>8, <1>9, <1>11, <2>1 DEF Known
<1> QED BY <1>10, <1>11

\* ... before it is overwritten ...
LEMMA ThreadBorrows ==
  ASSUME IfaceMembers, NEW k \in {7, 8, 9}, todo["config"] = Rest(k), Known(k), Working
  PROVE  Advances(k) /\ Works /\ Known(k + 1)'
<1>1. Head(todo["config"]) = threadFunction[k] /\ k \in 1 .. 20 BY AtWork
<1>2. Head(todo["config"]).do = (IF k = 9 THEN "assign" ELSE "writeReg")
      /\ Head(todo["config"]).f = (IF k = 7 THEN "et" ELSE "nb")
  BY <1>1, ThreadShape, ThreadKinds
<1>3. Step("config") /\ UNCHANGED extra
  BY <1>2, WhichIfaceStep DEF Working, CameraKinds
<1>4. iface' = iface /\ before' = before BY <1>3 DEF extra
<1>5. CASE k \in {7, 8}
  <2>1. WriteReg("config") BY <1>2, <1>3, <1>5, WhichStep
  <2>2. Advances(k) BY <1>1, <2>1, DoneAdvances DEF WriteReg, Done, IfaceMembers
  <2>3. /\ UNCHANGED <<cam, espia>> /\ DOMAIN board' = DOMAIN board
        /\ board' = [board EXCEPT ![Head(todo["config"]).f] = Head(todo["config"]).v]
    BY <2>1, Effects DEF IfaceMembers
  <2>4. k = 7 => board'.nb = board.nb BY <1>2, <2>3 DEF IfaceMembers, Members
  <2>5. Works BY <1>3, <2>3 DEF Works, extra
  <2>6. Known(k + 1)' BY <1>4, <1>5, <2>4 DEF Known
  <2> QED BY <2>2, <2>5, <2>6
<1>6. CASE k = 9
  <2>1. Assign("config") BY <1>2, <1>3, <1>6, WhichStep
  <2>2. Advances(k) BY <1>1, <2>1, DoneAdvances DEF Assign, Done, IfaceMembers
  <2>3. /\ UNCHANGED <<board, espia>> /\ DOMAIN cam' = DOMAIN cam
        /\ cam' = [cam EXCEPT ![Head(todo["config"]).f] = Head(todo["config"]).v]
    BY <2>1, Effects DEF IfaceMembers
  <2>4. cam'.prepare = cam.prepare /\ cam'.lima = cam.lima
    BY <1>2, <1>6, <2>3 DEF IfaceMembers, Members
  <2>5. Works BY <1>3, <2>3, <2>4 DEF Works, extra
  <2>6. Known(k + 1)' BY <1>4, <1>6, <2>3 DEF Known
  <2> QED BY <2>2, <2>5, <2>6
<1> QED BY <1>5, <1>6

\* ... and given back.
LEMMA ThreadRestores ==
  ASSUME IfaceMembers, NEW k \in {16, 17, 18}, todo["config"] = Rest(k), Known(k), Working
  PROVE  Advances(k) /\ Works /\ Known(k + 1)'
<1>1. Head(todo["config"]) = threadFunction[k] /\ k \in 1 .. 20 BY AtWork
<1>2. Head(todo["config"]).do = IF k = 16 THEN "restoreExpo"
                                ELSE IF k = 17 THEN "restoreFrames" ELSE "keepFrames"
  BY <1>1, ThreadShape, ThreadKinds
<1>3. IfaceStep("config")
  BY <1>2, CameraStepKind DEF Working, CameraKinds
<1>4. Restore("config") BY <1>2, <1>3, WhichIfaceStep
<1>5. Done("config") /\ UNCHANGED <<espia, extra>> BY <1>4 DEF Restore
<1>6. Advances(k) BY <1>1, <1>5, DoneAdvances DEF Done, IfaceMembers
<1>7. /\ k = 16 => board' = [board EXCEPT !.et = Held(iface.et)] /\ cam' = cam
      /\ k = 17 => board' = [board EXCEPT !.nb = iface.nb % (2 * Half)] /\ cam' = cam
      /\ k = 18 => cam' = [cam EXCEPT !.nb = iface.nb] /\ board' = board
  BY <1>2, <1>4 DEF Restore, At, Next1
<1>8. Works BY <1>5, <1>7 DEF Works, extra, IfaceMembers, Members
<1>9. iface' = iface /\ before' = before BY <1>5 DEF extra
<1>10. CASE k = 16
  <2>1. board'.et = Held(before.et) /\ board'.nb = board.nb
    BY <1>7, <1>10 DEF Known, IfaceMembers, Members
  <2> QED BY <1>6, <1>8, <1>9, <1>10, <2>1 DEF Known
<1>11. CASE k = 17
  <2>1. board'.et = Held(before.et) /\ board'.nb = iface.nb % (2 * Half)
    BY <1>7, <1>11 DEF Known, IfaceMembers, Members
  <2> QED BY <1>6, <1>8, <1>9, <1>11, <2>1 DEF Known
<1>12. CASE k = 18
  <2>1. board' = board /\ cam'.nb = iface.nb
    BY <1>7, <1>12 DEF IfaceMembers, Members
  <2> QED BY <1>6, <1>8, <1>9, <1>12, <2>1 DEF Known
<1> QED BY <1>10, <1>11, <1>12


\* Giving up begins with a stop of the board.
LEMMA Join21 ==
  ASSUME NEW a, NEW b, NEW c
  PROVE  <<a, b>> \o <<c>> = <<a, b, c>>
<1> DEFINE S == {a, b, c}
           s == <<a, b>> \o <<c>>
           t == <<a, b, c>>
<1>1. s \in Seq(S) /\ t \in Seq(S) /\ Len(s) = 3 /\ Len(t) = 3
  OBVIOUS
<1>2. s[1] = a /\ s[2] = b /\ s[3] = c
  OBVIOUS
<1>3. t[1] = a /\ t[2] = b /\ t[3] = c
  OBVIOUS
<1>4. \A i \in 1 .. 3 : i \in {1, 2, 3}
  OBVIOUS
<1> HIDE DEF s, t
<1>5. s = t
  BY <1>1, <1>2, <1>3, <1>4, SeqEqual
<1> QED BY <1>5 DEF s, t

\* The dummy acquisition is over, or the thread begins to give up.
LEMMA ThreadWaits ==
  ASSUME IfaceMembers, todo["config"] = Rest(13), Known(13), Working
  PROVE  /\ Works /\ Aside
         /\ \/ Advances(13) /\ Known(14)'
            \/ /\ todo'["config"] \in GivingUp /\ DOMAIN todo' = Actors /\ op' = op
               /\ \A q \in Actors \ {"config"} : todo'[q] = todo[q]
<1>1. Head(todo["config"]) = threadFunction[13] BY AtWork
<1>2. Head(todo["config"]).do = "readIdle" BY <1>1, ThreadShape, ThreadKinds
<1>3. IfaceStep("config") BY <1>2, CameraStepKind DEF Working, CameraKinds
<1>4. ReadIdle("config") BY <1>2, <1>3, WhichIfaceStep
<1>5. UNCHANGED <<state, extra>> BY <1>4 DEF ReadIdle
<1>6. Works /\ Aside BY <1>5 DEF Works, Aside, state, extra
<1>7. CASE Goes("config")
  <2>1. Advances(13) BY <1>7, DoneAdvances DEF IfaceMembers
  <2>2. Known(14)' BY <1>6, KnownAside
  <2> QED BY <1>6, <2>1, <2>2
<1>8. CASE ~Goes("config")
  <2>1. todo' = [todo EXCEPT !["config"] = priamStopAcq \o <<giveUp>>] /\ op' = op
    BY <1>4, <1>8 DEF ReadIdle, giveUp
  <2>2. priamStopAcq \o <<giveUp>> = <<disarm, enableSerial0, giveUp>>
    <3>1. priamStopAcq \o <<giveUp>> = <<disarm, enableSerial0>> \o <<giveUp>>
      BY DEF priamStopAcq, disarm
    <3> QED BY <3>1, Join21
  <2>3. priamStopAcq \o <<giveUp>> \in GivingUp BY <2>2, Zenon DEF GivingUp
  <2> QED BY <1>6, <2>1, <2>3, ConfigAssumption DEF IfaceMembers, Members
<1> QED BY <1>7, <1>8

\* The flag is lowered: what was loaded came from one configuration.
LEMMA ThreadLowers ==
  ASSUME IfaceMembers, todo["config"] = Rest(19), Known(19), Working
  PROVE  /\ Advances(19) /\ iface'.det = iface'.chip /\ iface'.det = iface.det
         /\ iface'.chip = iface.chip /\ DOMAIN iface' = DOMAIN iface
         /\ UNCHANGED <<state, seen>>
<1>1. Head(todo["config"]) = threadFunction[19] BY AtWork
<1>2. Head(todo["config"]) = lower /\ lower.do = "set" /\ lower.f = "flag"
  BY <1>1, ThreadShape, ThreadKinds
<1>3. IfaceStep("config") BY <1>2, CameraStepKind DEF Working, CameraKinds
<1>4. Set("config") BY <1>2, <1>3, WhichIfaceStep
<1>5. Goes("config") /\ UNCHANGED <<state, seen>>
      /\ iface' = [iface EXCEPT !["flag"] = lower.v]
  BY <1>2, <1>4 DEF Set, Next1
<1>6. Advances(19) BY <1>5, DoneAdvances DEF IfaceMembers
<1> QED BY <1>5, <1>6 DEF IfaceMembers, Known

\* The thread joins, at its end.
LEMMA ThreadJoins ==
  ASSUME IfaceMembers, todo["config"] = Rest(20), Working
  PROVE  /\ Advances(20) /\ todo'["config"] = <<>> /\ UNCHANGED <<state, seen>>
         /\ iface'.det = iface.det /\ iface'.chip = iface.chip
         /\ iface'.flag = iface.flag /\ DOMAIN iface' = DOMAIN iface
<1>1. Head(todo["config"]) = threadFunction[20] BY AtWork
<1>2. Head(todo["config"]).do = "join" BY <1>1, ThreadShape, ThreadKinds
<1>3. IfaceStep("config") BY <1>2, CameraStepKind DEF Working, CameraKinds
<1>4. Join("config") BY <1>2, <1>3, WhichIfaceStep
<1>5. Goes("config") /\ UNCHANGED <<state, seen>>
      /\ iface' = [iface EXCEPT !.et = 0, !.nb = 0]
  BY <1>4 DEF Join
<1>6. Advances(20) BY <1>5, DoneAdvances DEF IfaceMembers
<1> QED BY <1>5, <1>6, RestShape DEF Advances, IfaceMembers

\* The thread gives up: it stops the board and throws.
LEMMA ThreadGivesUp ==
  ASSUME IfaceMembers, todo["config"] \in GivingUp, Working
  PROVE  /\ Aside /\ DOMAIN todo' = Actors /\ op' = op
         /\ \A q \in Actors \ {"config"} : todo'[q] = todo[q]
         /\ \/ todo'["config"] \in GivingUp
            \/ todo'["config"] = <<>> /\ "config" \in threw'
<1> DEFINE s == todo["config"]
<1>0. "config" \in Actors BY ConfigAssumption
<1>1. CASE s \in {<<disarm, enableSerial0, giveUp>>, <<enableSerial0, giveUp>>}
  <2>1. /\ s # <<>> /\ Head(s) \in {disarm, enableSerial0} /\ Tail(s) \in GivingUp
    <3>1. CASE s = <<disarm, enableSerial0, giveUp>>
      <4>1. s # <<>> /\ Head(s) = disarm /\ Tail(s) = <<enableSerial0, giveUp>>
        BY <3>1, Head3
      <4> QED BY <4>1, Zenon DEF GivingUp
    <3>2. CASE s = <<enableSerial0, giveUp>>
      <4>1. s # <<>> /\ Head(s) = enableSerial0 /\ Tail(s) = <<giveUp>>
        BY <3>2, Head2
      <4> QED BY <4>1, Zenon DEF GivingUp
    <3> QED BY <1>1, <3>1, <3>2
  <2>2. Head(s).do \in CameraKinds BY <2>1, Kinds DEF CameraKinds
  <2>3. Step("config") /\ UNCHANGED extra BY <2>2, WhichIfaceStep DEF Working
  <2>4. Disarm("config") \/ (WriteReg("config") /\ Head(s).f = "sel")
    BY <2>1, <2>3, Kinds, WhichStep
  <2>5. Aside
    <3>1. CASE Disarm("config") BY <2>3, <3>1 DEF Disarm, Aside, IfaceMembers, Members
    <3>2. CASE WriteReg("config") /\ Head(s).f = "sel"
      BY <2>3, <3>2, Effects DEF Aside, IfaceMembers, Members
    <3> QED BY <2>4, <3>1, <3>2
  <2>6. Goes("config") \/ Throws("config") BY <2>4 DEF Disarm, WriteReg, Done
  <2> QED BY <1>0, <2>1, <2>5, <2>6, Ends DEF IfaceMembers
<1>2. CASE s = <<giveUp>>
  <2>1. Head(s).do = "giveUp" BY <1>2, Head1, ThreadKinds
  <2>2. IfaceStep("config") BY <2>1, CameraStepKind DEF Working, CameraKinds
  <2>3. GiveUp("config") BY <2>1, <2>2, WhichIfaceStep
  <2>4. Aside BY <2>3 DEF GiveUp, Aside, state
  <2> QED BY <1>0, <2>3, <2>4 DEF GiveUp, IfaceMembers, Members
<1> QED BY <1>1, <1>2 DEF GivingUp

\* A thread that a file, a register or a call throws in is over.
LEMMA ThreadFails ==
  ASSUME IfaceMembers, NEW p \in Actors, IfaceFail(p), UNCHANGED extra
  PROVE  /\ UNCHANGED <<state, extra>> /\ DOMAIN todo' = Actors /\ op' = op
         /\ \A q \in Actors \ {p} : todo'[q] = todo[q]
         /\ todo'[p] = <<>> /\ threw' = threw \cup {p}
BY DEF IfaceFail, Fail, Throws, IfaceMembers, Members

\* Whether the thread is at work.
LEMMA LoadingMeans ==
  /\ todo["config"] = <<>> => ~Loading
  /\ todo["config"] = Rest(20) => ~Loading
  /\ todo["config"] \in GivingUp => Loading
  /\ \A k \in 1 .. 19 : todo["config"] = Rest(k) => Loading
<1>1. todo["config"] = <<>> => ~Loading BY DEF Loading, Idle
<1>2. todo["config"] = Rest(20) => ~Loading
  <2> SUFFICES ASSUME todo["config"] = Rest(20) PROVE Head(todo["config"]).do = "join"
    BY DEF Loading, Next1
  <2> QED BY AtWork, ThreadShape, ThreadKinds
<1>3. ASSUME todo["config"] \in GivingUp PROVE Loading
  <2>1. todo["config"] # <<>> /\ Head(todo["config"]) \in {disarm, enableSerial0, giveUp}
    <3> DEFINE s == todo["config"]
    <3>1. s = <<disarm, enableSerial0, giveUp>> => s # <<>> /\ Head(s) = disarm
      BY Head3
    <3>2. s = <<enableSerial0, giveUp>> => s # <<>> /\ Head(s) = enableSerial0
      BY Head2
    <3>3. s = <<giveUp>> => s # <<>> /\ Head(s) = giveUp
      BY Head1
    <3> QED BY <1>3, <3>1, <3>2, <3>3, Zenon DEF GivingUp
  <2>2. disarm.do # "join" /\ enableSerial0.do # "join" /\ giveUp.do # "join"
    BY Kinds, ThreadKinds
  <2> QED BY <2>1, <2>2 DEF Loading, Idle, Next1
<1>4. ASSUME NEW k \in 1 .. 19, todo["config"] = Rest(k) PROVE Loading
  <2>1. todo["config"] # <<>> /\ Head(todo["config"]) = threadFunction[k]
    <3>1. k \in 1 .. 20 OBVIOUS
    <3> QED BY <1>4, <3>1, AtWork
  <2>2. threadFunction[k].do # "join"
    <3>1. threadFunction[k] \in {readDet, enableSerial0, readChip, saveExpo, saveFrames,
            expose, oneFrame, keepOne, check, select, arm, readIdle, disarm, giveExpo,
            giveFrames, keepFrames, lower}
      BY ThreadShape
    <3> QED BY <3>1, Kinds, ThreadKinds
  <2> QED BY <2>1, <2>2 DEF Loading, Idle, Next1
<1> QED BY <1>1, <1>2, <1>3, <1>4


-----------------------------------------------------------------------------
(***************************************************************************)
(* The invariant is preserved.                                             *)
(***************************************************************************)
\* The parts of it that are about the thread, when another actor moves.
LEMMA ConfigKept ==
  ASSUME ConfigPlace, todo'["config"] = todo["config"],
         "config" \in threw => "config" \in threw',
         UNCHANGED <<iface, before>>, board'.et = board.et, board'.nb = board.nb,
         cam'.nb = cam.nb
  PROVE  ConfigPlace' /\ (Loading' <=> Loading)
<1>1. Loading' <=> Loading BY DEF Loading, Idle, Next1
<1>2. ASSUME NEW k \in 1 .. 19, Known(k) PROVE Known(k)'
  BY <1>2 DEF Known
<1>3. iface' = iface OBVIOUS
<1>4. CASE \E k \in 1 .. 19 : todo["config"] = Rest(k) /\ Known(k)
  <2>1. PICK k \in 1 .. 19 : todo["config"] = Rest(k) /\ Known(k) BY <1>4
  <2>2. Known(k)' BY <1>2, <2>1
  <2> QED BY <1>1, <2>1, <2>2 DEF ConfigPlace
<1>5. CASE ~\E k \in 1 .. 19 : todo["config"] = Rest(k) /\ Known(k)
  BY <1>1, <1>3, <1>5 DEF ConfigPlace
<1> QED BY <1>4, <1>5

\* ... and is not at work
LEMMA ConfigKeptIdle ==
  ASSUME ConfigPlace, todo'["config"] = todo["config"], ~Loading,
         "config" \in threw => "config" \in threw',
         iface'.det = iface.det, iface'.chip = iface.chip
  PROVE  ConfigPlace' /\ ~Loading'
<1>1. ~Loading' BY DEF Loading, Idle, Next1
<1>2. \/ todo["config"] = <<>> /\ ("config" \in threw \/ iface.det = iface.chip)
      \/ todo["config"] = Rest(20) /\ iface.det = iface.chip
  BY LoadingMeans DEF ConfigPlace
<1> QED BY <1>1, <1>2 DEF ConfigPlace

\* The thread is at work before the step.
LEMMA ThreadLeaves ==
  ASSUME AloneInv, Loading,
         DOMAIN todo' = Actors, op' = op, \A q \in Actors \ {"config"} : todo'[q] = todo[q],
         UNCHANGED <<seen, espia>>, DOMAIN cam' = DOMAIN cam, DOMAIN board' = DOMAIN board,
         DOMAIN iface' = DOMAIN iface, cam'.prepare = cam.prepare, cam'.lima = cam.lima,
         Loading' => iface'.flag = iface.flag, ConfigPlace'
  PROVE  AloneInv'
<1>1. Undisturbed BY DEF AloneInv
<1>2. IfaceMembers' BY DEF AloneInv, IfaceMembers, Members
<1>3. todo'["client"] = todo["client"] /\ todo'["acqend"] = todo["acqend"]
  BY ActorAssumption
<1>4. ClientDoes'
  <2>1. CASE Idle("client")
    <3>1. todo["client"] = <<>> BY <2>1 DEF Idle
    <3>2. LoadPlace' BY <1>3, <3>1 DEF LoadPlace
    <3> QED BY <1>3, <3>1, <3>2 DEF AloneInv, ClientDoes
  <2>2. CASE op["client"] = "stop" BY <1>3, <2>2 DEF AloneInv, ClientDoes
  <2>3. CASE op["client"] = "status"
    <3>1. todo["client"] \in {<<>>, getStatus} BY <2>3 DEF AloneInv, ClientDoes
    <3>2. getStatus' = getStatus BY DEF getStatus
    <3> QED BY <1>3, <2>3, <3>1, <3>2 DEF ClientDoes
  <2> QED BY <1>1, <2>1, <2>2, <2>3 DEF Undisturbed
<1>5. Loading' => Undisturbed' BY <1>1, <1>3 DEF Undisturbed, Idle
<1>6. seen' # "Ready" BY <1>1 DEF Undisturbed
<1> QED BY <1>2, <1>3, <1>4, <1>5, <1>6 DEF AloneInv

\* The thread is not at work after it.
LEMMA ThreadEnds ==
  ASSUME AloneInv,
         DOMAIN todo' = Actors, op' = op, \A q \in Actors \ {"config"} : todo'[q] = todo[q],
         UNCHANGED <<state, seen>>, ConfigPlace', ~Loading',
         iface'.flag = iface.flag, DOMAIN iface' = DOMAIN iface
  PROVE  AloneInv'
<1>0. cam' = cam /\ espia' = espia /\ board' = board BY DEF state
<1>1. IfaceMembers' BY <1>0 DEF AloneInv, IfaceMembers, Members
<1>2. todo'["client"] = todo["client"] /\ todo'["acqend"] = todo["acqend"]
  BY ActorAssumption
<1>3. LoadPlace => LoadPlace'
  BY <1>0, <1>2 DEF LoadPlace
<1>4. ClientDoes' BY <1>2, <1>3 DEF AloneInv, ClientDoes
<1> QED BY <1>0, <1>1, <1>2, <1>4 DEF AloneInv

\* Any step of the thread before the one that lowers the flag.
LEMMA ThreadWorks ==
  ASSUME IfaceMembers, NEW k \in 1 .. 18, todo["config"] = Rest(k), Known(k), Working
  PROVE  /\ Works /\ DOMAIN todo' = Actors /\ op' = op
         /\ \A q \in Actors \ {"config"} : todo'[q] = todo[q]
         /\ \/ todo'["config"] = Rest(k + 1) /\ Known(k + 1)'
            \/ todo'["config"] = <<>> /\ "config" \in threw'
            \/ todo'["config"] \in GivingUp
<1>1. Aside => Works BY DEF Aside, Works, extra
<1>2. CASE k \in {2, 4, 10, 11, 12, 14, 15}
  BY <1>1, <1>2, ThreadAside, KnownAside DEF Advances, IfaceMembers
<1>3. CASE k \in {1, 3} BY <1>3, ThreadReads DEF Advances
<1>4. CASE k \in {5, 6} BY <1>4, ThreadSaves DEF Advances
<1>5. CASE k \in {7, 8, 9} BY <1>5, ThreadBorrows DEF Advances
<1>6. CASE k \in {16, 17, 18} BY <1>6, ThreadRestores DEF Advances
<1>7. CASE k = 13
  <2>1. todo["config"] = Rest(13) /\ Known(13) BY <1>7
  <2>2. Works /\ (\/ Advances(13) /\ Known(14)'
                  \/ /\ todo'["config"] \in GivingUp /\ DOMAIN todo' = Actors /\ op' = op
                     /\ \A q \in Actors \ {"config"} : todo'[q] = todo[q])
    BY <2>1, ThreadWaits
  <2> QED BY <1>7, <2>2 DEF Advances
<1> QED BY <1>2, <1>3, <1>4, <1>5, <1>6, <1>7

\* A step of the thread.
LEMMA AloneOfThread ==
  ASSUME AloneInv, Working
  PROVE  AloneInv'
<1>1. IfaceMembers BY DEF AloneInv
<1>2. CASE todo["config"] = <<>>
  BY <1>2, CameraStepKind, WhichIfaceStep DEF Working
<1>3. CASE todo["config"] \in GivingUp
  <2>1. /\ Aside /\ DOMAIN todo' = Actors /\ op' = op
        /\ \A q \in Actors \ {"config"} : todo'[q] = todo[q]
        /\ \/ todo'["config"] \in GivingUp
           \/ todo'["config"] = <<>> /\ "config" \in threw'
    BY <1>1, <1>3, ThreadGivesUp
  <2>2. ConfigPlace' BY <2>1 DEF ConfigPlace
  <2>3. Loading BY <1>3, LoadingMeans
  <2> QED BY <2>1, <2>2, <2>3, ThreadLeaves DEF Aside, extra
<1>4. CASE todo["config"] = Rest(20) /\ iface.det = iface.chip
  <2>1. /\ Advances(20) /\ todo'["config"] = <<>> /\ UNCHANGED <<state, seen>>
        /\ iface'.det = iface.det /\ iface'.chip = iface.chip
        /\ iface'.flag = iface.flag /\ DOMAIN iface' = DOMAIN iface
    BY <1>1, <1>4, ThreadJoins
  <2>2. ConfigPlace' BY <1>4, <2>1 DEF ConfigPlace
  <2>3. ~Loading' BY <2>1 DEF Loading, Idle
  <2> QED BY <2>1, <2>2, <2>3, ThreadEnds DEF Advances
<1>5. ASSUME NEW k \in 1 .. 18, todo["config"] = Rest(k), Known(k)
      PROVE  AloneInv'
  <2>1. /\ Works /\ DOMAIN todo' = Actors /\ op' = op
        /\ \A q \in Actors \ {"config"} : todo'[q] = todo[q]
        /\ \/ todo'["config"] = Rest(k + 1) /\ Known(k + 1)'
           \/ todo'["config"] = <<>> /\ "config" \in threw'
           \/ todo'["config"] \in GivingUp
    BY <1>1, <1>5, ThreadWorks
  <2>2. ConfigPlace'
    <3>1. k + 1 \in 1 .. 19 OBVIOUS
    <3> QED BY <2>1, <3>1 DEF ConfigPlace
  <2>3. Loading
    <3>1. k \in 1 .. 19 OBVIOUS
    <3> QED BY <1>5, <3>1, LoadingMeans
  <2> QED BY <2>1, <2>2, <2>3, ThreadLeaves DEF Works
<1>6. CASE todo["config"] = Rest(19) /\ Known(19)
  <2>1. /\ Advances(19) /\ iface'.det = iface'.chip /\ DOMAIN iface' = DOMAIN iface
        /\ UNCHANGED <<state, seen>>
    BY <1>1, <1>6, ThreadLowers
  <2>2. ConfigPlace' BY <2>1 DEF ConfigPlace, Advances
  <2>3. Loading BY <1>6, LoadingMeans
  <2>4. ~Loading'
    <3>1. todo'["config"] = Rest(20) \/ todo'["config"] = <<>> BY <2>1 DEF Advances
    <3>2. Head(Rest(20)).do = "join"
      <4>1. Head(Rest(20)) = threadFunction[20] BY RestShape
      <4> QED BY <4>1, ThreadShape, ThreadKinds
    <3> QED BY <3>1, <3>2 DEF Loading, Idle, Next1
  <2> QED BY <2>1, <2>2, <2>3, <2>4, ThreadLeaves DEF Advances, state
<1>7. \A k \in 1 .. 19 : k \in 1 .. 18 \/ k = 19 OBVIOUS
<1> QED BY <1>2, <1>3, <1>4, <1>5, <1>6, <1>7 DEF AloneInv, ConfigPlace


\* What a stop, and the frames, do: nothing the thread relies on.
Gentle ==
  /\ UNCHANGED <<iface, seen, before>>
  /\ DOMAIN cam' = DOMAIN cam /\ DOMAIN board' = DOMAIN board
  /\ DOMAIN espia' = DOMAIN espia
  /\ (cam'.prepare => cam.prepare) /\ cam'.nb = cam.nb /\ cam'.lima = cam.lima
  /\ board'.et = board.et /\ board'.nb = board.nb
  /\ (espia'.running => espia.running)

LEMMA AloneGentle ==
  ASSUME AloneInv, Gentle, DOMAIN todo' = Actors, DOMAIN op' = Actors,
         \A p \in Actors \ {"client", "acqend"} : todo'[p] = todo[p],
         "config" \in threw => "config" \in threw',
         todo'["acqend"] \in Seq(OfStop),
         \/ todo'["client"] = todo["client"] /\ op'["client"] = op["client"]
         \/ todo'["client"] \in Seq(OfStop) /\ op'["client"] = "stop"
  PROVE  AloneInv'
<1>0. todo'["config"] = todo["config"] BY ConfigAssumption
<1>1. IfaceMembers' BY DEF AloneInv, IfaceMembers, Members, Gentle
<1>2. ConfigPlace' /\ (Loading' <=> Loading)
  BY <1>0, ConfigKept DEF AloneInv, Gentle
<1>3. ClientDoes'
  <2>1. CASE todo'["client"] \in Seq(OfStop) /\ op'["client"] = "stop"
    BY <2>1 DEF ClientDoes
  <2>2. CASE todo'["client"] = todo["client"] /\ op'["client"] = op["client"]
    <3>1. LoadPlace => LoadPlace'
      BY <2>2 DEF LoadPlace, Gentle
    <3>2. getStatus' = getStatus BY DEF getStatus
    <3>3. seen' = seen BY DEF Gentle
    <3> QED BY <1>2, <2>2, <3>1, <3>2, <3>3 DEF AloneInv, ClientDoes
  <2> QED BY <2>1, <2>2
<1>4. Undisturbed => Undisturbed' BY DEF Undisturbed, Gentle, Idle
<1>5. seen' = "Ready" => ~espia'.running BY DEF AloneInv, Gentle
<1> QED BY <1>1, <1>2, <1>3, <1>4, <1>5 DEF AloneInv

\* The client moves while the thread is not at work.
LEMMA AloneFree ==
  ASSUME AloneInv, ~Loading, IfaceMembers',
         todo'["config"] = todo["config"], todo'["acqend"] = todo["acqend"],
         "config" \in threw => "config" \in threw',
         iface'.det = iface.det, iface'.chip = iface.chip,
         ~Loading' => ClientDoes', seen' = "Ready" => ~espia'.running
  PROVE  AloneInv'
<1>1. ConfigPlace' /\ ~Loading' BY ConfigKeptIdle DEF AloneInv
<1> QED BY <1>1 DEF AloneInv

LEMMA SimpleKind == \A what : Simple(what).do = what
BY DEF Simple, Do

LEMMA NothingLeft == \A S : <<>> \in Seq(S)
OBVIOUS

\* A step of a stop is gentle.
LEMMA StopIsGentle ==
  ASSUME AloneInv, NEW p \in {"client", "acqend"}, todo[p] \in Seq(OfStop),
         (Step(p) /\ UNCHANGED extra) \/ IfaceStep(p)
  PROVE  /\ Gentle /\ todo'[p] \in Seq(OfStop) /\ DOMAIN todo' = Actors /\ op' = op
         /\ \A q \in Actors \ {p} : todo'[q] = todo[q]
         /\ threw \subseteq threw'
<1> USE ActorAssumption
<1> DEFINE s == todo[p]
<1>1. p \in Actors /\ Members BY DEF AloneInv, IfaceMembers
<1>2. s # <<>> BY CameraStepKind, WhichIfaceStep
<1>3. Head(s) \in OfStop /\ Tail(s) \in Seq(OfStop) BY <1>2
<1>4. Head(s).do \in CameraKinds
  BY <1>3, Kinds DEF OfStop, CameraKinds
<1>5. Step(p) /\ UNCHANGED extra BY <1>4, WhichIfaceStep
<1>6. \/ Disarm(p) \/ EspiaStop(p)
      \/ WriteReg(p) /\ Head(s).f = "sel"
      \/ Assign(p) /\ Head(s).f = "prepare" /\ Head(s).v = FALSE
  BY <1>3, <1>5, Kinds, WhichStep DEF OfStop
<1>7. Goes(p) \/ Throws(p)
  BY <1>6 DEF Disarm, EspiaStop, WriteReg, Assign, Done
<1>8. /\ DOMAIN todo' = Actors /\ op' = op /\ \A q \in Actors \ {p} : todo'[q] = todo[q]
      /\ \/ todo'[p] = Tail(s) /\ threw' = threw
         \/ todo'[p] = <<>> /\ threw' = threw \cup {p}
  BY <1>1, <1>7, Ends
<1>9. todo'[p] \in Seq(OfStop)
  <2>1. <<>> \in Seq(OfStop) BY NothingLeft
  <2> QED BY <1>3, <1>8, <2>1
<1>10. Gentle
  <2>1. CASE Disarm(p) BY <1>1, <1>5, <2>1 DEF Gentle, Disarm, Members, extra
  <2>2. CASE EspiaStop(p)
    BY <1>1, <1>5, <2>2, Effects DEF Gentle, extra
  <2>3. CASE WriteReg(p) /\ Head(s).f = "sel"
    BY <1>1, <1>5, <2>3, Effects DEF Gentle, Members, extra
  <2>4. CASE Assign(p) /\ Head(s).f = "prepare" /\ Head(s).v = FALSE
    BY <1>1, <1>5, <2>4, Effects DEF Gentle, Members, extra
  <2> QED BY <1>6, <2>1, <2>2, <2>3, <2>4
<1> QED BY <1>8, <1>9, <1>10

\* A step of acqFinished.
LEMMA AloneOfAcqEnd ==
  ASSUME AloneInv, (Step("acqend") /\ UNCHANGED extra) \/ IfaceStep("acqend")
  PROVE  AloneInv'
<1> USE ActorAssumption
<1>1. /\ Gentle /\ todo'["acqend"] \in Seq(OfStop) /\ DOMAIN todo' = Actors /\ op' = op
      /\ \A q \in Actors \ {"acqend"} : todo'[q] = todo[q]
      /\ threw \subseteq threw'
  BY StopIsGentle DEF AloneInv
<1>2. DOMAIN op' = Actors /\ todo'["client"] = todo["client"]
  BY <1>1 DEF AloneInv, IfaceMembers, Members
<1> QED BY <1>1, <1>2, AloneGentle

\* A step of the client's stop.
LEMMA AloneOfStop ==
  ASSUME AloneInv, op["client"] = "stop",
         (Step("client") /\ UNCHANGED extra) \/ IfaceStep("client")
  PROVE  AloneInv'
<1> USE ActorAssumption
<1>1. todo["client"] \in Seq(OfStop) BY DEF AloneInv, ClientDoes
<1>2. /\ Gentle /\ todo'["client"] \in Seq(OfStop) /\ DOMAIN todo' = Actors /\ op' = op
      /\ \A q \in Actors \ {"client"} : todo'[q] = todo[q]
      /\ threw \subseteq threw'
  BY <1>1, StopIsGentle
<1>3. DOMAIN op' = Actors /\ todo'["acqend"] \in Seq(OfStop)
  BY <1>2 DEF AloneInv, IfaceMembers, Members
<1> QED BY <1>2, <1>3, AloneGentle

\* An exception before any effect.
LEMMA AloneOfFail ==
  ASSUME AloneInv, NEW p \in Actors, IfaceFail(p), UNCHANGED extra
  PROVE  AloneInv'
<1> USE ActorAssumption, ConfigAssumption
<1>1. /\ UNCHANGED <<state, extra>> /\ DOMAIN todo' = Actors /\ op' = op
      /\ \A q \in Actors \ {p} : todo'[q] = todo[q]
      /\ todo'[p] = <<>> /\ threw' = threw \cup {p} /\ todo[p] # <<>>
  BY ThreadFails DEF AloneInv, IfaceFail, Fail, Idle
<1>2. UNCHANGED <<cam, board, espia, iface, seen, before>> BY <1>1 DEF state, extra
<1>3. p \in {"client", "acqend", "config"} BY <1>1 DEF AloneInv, IfaceMembers
<1>4. CASE p = "config"
  <2>1. ConfigPlace' /\ ~Loading' BY <1>1, <1>4 DEF ConfigPlace, Loading, Idle
  <2> QED BY <1>1, <1>2, <1>4, <2>1, ThreadEnds
<1>5. Gentle BY <1>2 DEF Gentle
<1>6. CASE p = "acqend"
  <2>1. todo'["acqend"] \in Seq(OfStop)
    <3>1. <<>> \in Seq(OfStop) BY NothingLeft
    <3> QED BY <1>1, <1>6, <3>1
  <2>2. /\ DOMAIN op' = Actors /\ todo'["client"] = todo["client"]
        /\ op'["client"] = op["client"] /\ todo'["config"] = todo["config"]
    BY <1>1, <1>6 DEF AloneInv, IfaceMembers, Members
  <2> QED BY <1>1, <1>5, <1>6, <2>1, <2>2, AloneGentle
<1>7. CASE p = "client"
  <2>1. todo'["client"] = <<>> /\ op' = op /\ todo'["acqend"] = todo["acqend"]
        /\ todo'["config"] = todo["config"]
    BY <1>1, <1>7
  <2>2. ConfigPlace' /\ (Loading' <=> Loading)
    BY <1>1, <1>2, <2>1, ConfigKept DEF AloneInv
  <2>3. IfaceMembers' BY <1>1, <1>2, <1>7 DEF AloneInv, IfaceMembers, Members
  <2>4. \A S : <<>> \in Seq(S) BY NothingLeft
  <2>5. LoadPlace' BY <2>1 DEF LoadPlace
  <2>6. ClientDoes' BY <2>1, <2>4, <2>5 DEF AloneInv, ClientDoes
  <2>7. Undisturbed => Undisturbed' BY <1>2, <2>1 DEF Undisturbed, Idle
  <2> QED BY <1>2, <2>1, <2>2, <2>3, <2>6, <2>7 DEF AloneInv
<1> QED BY <1>3, <1>4, <1>6, <1>7


\* A step of one of the client's methods touches neither Lima's mode nor,
\* unless it is startAcq, Espia.
LEMMA MethodKinds ==
  /\ \A s \in OfSet : s.do \in {"assign", "writeReg"} /\ (s.do = "assign" => s.f # "lima")
  /\ \A s \in OfFrames : /\ s.do \in {"assign", "writeReg", "espiaFrames"}
                         /\ s.do = "assign" => s.f # "lima"
  /\ \A s \in OfStart : /\ s.do \in {"assign", "ifPrepared", "check", "writeReg", "arm",
                                     "espiaStart"}
                        /\ s.do = "assign" => s.f # "lima"
<1>0. /\ \A f, v : assign(f, v).do = "assign" /\ assign(f, v).f = f
      /\ \A f, v : writeReg(f, v).do = "writeReg"
      /\ \A x, f, v : Do(x, f, v).do = x
  BY DEF assign, writeReg, Do
<1>1. ASSUME NEW s \in OfSet
      PROVE  s.do \in {"assign", "writeReg"} /\ (s.do = "assign" => s.f # "lima")
  <2>1. CASE \E t : s = assign("trig", t) BY <1>0, <2>1
  <2>2. CASE s = assign("prepare", TRUE) BY <1>0, <2>2
  <2>3. CASE \E t : s = writeReg("et", t) BY <1>0, <2>3
  <2> QED BY <2>1, <2>2, <2>3 DEF OfSet
<1>2. ASSUME NEW s \in OfFrames
      PROVE  /\ s.do \in {"assign", "writeReg", "espiaFrames"}
             /\ s.do = "assign" => s.f # "lima"
  <2>1. CASE \E n \in Nat : s = Do("espiaFrames", "", n)
    <3>0. PICK n \in Nat : s = Do("espiaFrames", "", n) BY <2>1
    <3>1. s.do = "espiaFrames" BY <3>0, EspiaFramesStep
    <3> QED BY <3>1
  <2>2. CASE \E m : s = assign("mode", m) BY <1>0, <2>2
  <2>3. CASE \E n : s = writeReg("nb", n) BY <1>0, <2>3
  <2>4. CASE \E n : s = assign("nb", n) BY <1>0, <2>4
  <2> QED BY <2>1, <2>2, <2>3, <2>4 DEF OfFrames
<1>3. ASSUME NEW s \in OfStart
      PROVE  /\ s.do \in {"assign", "ifPrepared", "check", "writeReg", "arm", "espiaStart"}
             /\ s.do = "assign" => s.f # "lima"
  <2>1. CASE \E m : s = assign("mode", m) BY <1>0, <2>1
  <2>2. CASE s \in {Simple("ifPrepared"), Simple("check"), select, arm, listen, clear}
    BY <2>2, Kinds
  <2> QED BY <2>1, <2>2 DEF OfStart
<1> QED BY <1>1, <1>2, <1>3

\* The client in a method that sets, or in a start: the thread is not at work.
LEMMA ClientAtWork ==
  ASSUME AloneInv, todo["client"] # <<>>, op["client"] \notin {"status", "stop"}
  PROVE  ~Loading
BY DEF AloneInv, Undisturbed, Idle

\* ... and its first step is one of the camera's.
LEMMA MethodHeads ==
  /\ \A s \in Seq(OfSet) : s # <<>> => Head(s).do \in CameraKinds
  /\ \A s \in Seq(OfFrames) : s # <<>> => Head(s).do \in CameraKinds
  /\ \A s \in Seq(OfStart) : s # <<>> => Head(s).do \in CameraKinds
<1>1. ASSUME NEW S, NEW s \in Seq(S), s # <<>> PROVE Head(s) \in S
  BY <1>1, HeadTailProperties
<1> QED BY <1>1, MethodKinds DEF CameraKinds

\* loadConfig sets two members, and starts the thread.
LEMMA LoadHead ==
  \A n : Head(loadConfig(n)) = set("name", n) /\ loadConfig(n) # <<>>
BY Head3, Zenon DEF loadConfig

LEMMA LoadKinds ==
  ASSUME LoadPlace, todo["client"] # <<>>
  PROVE  Head(todo["client"]).do \in {"set", "threadStart"}
<1>1. \A f, v : set(f, v).do = "set" BY DEF set, Do
<1>2. CASE \E n \in Names : todo["client"] = loadConfig(n)
  <2>1. PICK n \in Names : todo["client"] = loadConfig(n) BY <1>2
  <2>2. Head(todo["client"]) = set("name", n) BY <2>1, LoadHead
  <2> QED BY <1>1, <2>2
<1>3. CASE todo["client"] = <<set("flag", TRUE), Simple("threadStart")>>
  <2>1. Head(todo["client"]) = set("flag", TRUE) BY <1>3, Head2
  <2> QED BY <1>1, <2>1
<1>4. CASE todo["client"] = <<Simple("threadStart")>>
  <2>1. Head(todo["client"]) = Simple("threadStart") BY <1>4, Head1
  <2>2. Head(todo["client"]).do = "threadStart" BY <2>1, SimpleKind
  <2> QED BY <2>2
<1> QED BY <1>2, <1>3, <1>4 DEF LoadPlace

LEMMA AloneOfMethod ==
  ASSUME AloneInv, op["client"] \in {"set", "frames", "start"},
         (Step("client") /\ UNCHANGED extra) \/ IfaceStep("client")
  PROVE  AloneInv'
<1> USE ActorAssumption, ConfigAssumption
<1> DEFINE s == todo["client"]
           S == IF op["client"] = "set" THEN OfSet
                ELSE IF op["client"] = "frames" THEN OfFrames ELSE OfStart
<1>0. Members BY DEF AloneInv, IfaceMembers
<1>1. s # <<>> BY CameraStepKind, WhichIfaceStep
<1>2. ~Loading BY <1>1, ClientAtWork
<1>3. s \in Seq(S) BY DEF AloneInv, ClientDoes
<1>4. Head(s) \in S /\ Tail(s) \in Seq(S)
  <2> HIDE DEF S, s
  <2> QED BY <1>1, <1>3, HeadTailProperties
<1>5. /\ Head(s).do \in {"assign", "writeReg", "espiaFrames", "ifPrepared", "check", "arm",
                         "espiaStart"}
      /\ Head(s).do = "assign" => Head(s).f # "lima"
      /\ Head(s).do \in {"ifPrepared", "espiaStart"} => op["client"] = "start"
  BY <1>4, MethodKinds
<1>6. Step("client") /\ UNCHANGED extra BY <1>5, WhichIfaceStep DEF CameraKinds
<1>7. /\ DOMAIN todo' = Actors /\ op' = op
      /\ \A q \in Actors \ {"client"} : todo'[q] = todo[q]
      /\ threw \subseteq threw'
  BY <1>0, <1>6, Moves
<1>8. /\ DOMAIN cam' = DOMAIN cam /\ DOMAIN board' = DOMAIN board
      /\ DOMAIN espia' = DOMAIN espia /\ cam'.lima = cam.lima
      /\ espia'.running = espia.running \/ op["client"] = "start"
  <2>1. CASE Head(s).do = "assign"
    BY <1>0, <1>5, <1>6, <2>1, WhichStep, Effects DEF Members
  <2>2. CASE Head(s).do = "writeReg"
    BY <1>0, <1>6, <2>2, WhichStep, Effects
  <2>3. CASE Head(s).do = "espiaFrames"
    BY <1>0, <1>6, <2>3, WhichStep, Effects
  <2>4. CASE Head(s).do = "ifPrepared"
    BY <1>6, <2>4, WhichStep DEF IfPrepared, state
  <2>5. CASE Head(s).do = "check"
    BY <1>6, <2>5, WhichStep DEF Check, state
  <2>6. CASE Head(s).do = "arm"
    BY <1>0, <1>6, <2>6, WhichStep, Effects
  <2>7. CASE Head(s).do = "espiaStart"
    BY <1>0, <1>5, <1>6, <2>7, WhichStep, Effects
  <2> QED BY <1>5, <2>1, <2>2, <2>3, <2>4, <2>5, <2>6, <2>7
<1>9. todo'["client"] \in Seq(S)
  <2>0. <<>> \in Seq(S) BY NothingLeft
  <2>1. CASE Head(s).do = "ifPrepared"
    <3>1. op["client"] = "start" BY <1>5, <2>1
    <3>2. listen \in OfStart /\ clear \in OfStart BY Zenon DEF OfStart
    <3>3. <<listen, clear>> \in Seq(OfStart) BY <3>2
    <3>4. PICK first \in Seq(OfStart) : todo' = [todo EXCEPT !["client"] = first \o Tail(@)]
      BY <1>6, <2>1, <3>1, <3>3, NothingLeft, WhichStep DEF IfPrepared, listen, clear
    <3>5. first \o Tail(s) \in Seq(OfStart) BY <1>4, <3>1, <3>4, ConcatProperties
    <3> QED BY <1>0, <3>1, <3>4, <3>5 DEF Members
  <2>2. CASE Head(s).do = "check"
    <3>1. Check("client") BY <1>6, <2>2, WhichStep
    <3> QED BY <1>0, <1>4, <2>0, <3>1 DEF Check, Goes, Members
  <2>3. CASE Head(s).do \notin {"ifPrepared", "check"}
    <3>1. Goes("client") \/ Throws("client")
      BY <1>5, <1>6, <2>3, WhichStep DEF Assign, WriteReg, EspiaFrames, Arm, EspiaStart, Done
    <3>2. todo'["client"] = Tail(s) \/ todo'["client"] = <<>> BY <1>0, <3>1, Ends
    <3> QED BY <1>4, <2>0, <3>2
  <2> QED BY <2>1, <2>2, <2>3
<1>10. iface' = iface /\ seen' = seen BY <1>6 DEF extra
<1>11. IfaceMembers' BY <1>0, <1>7, <1>8, <1>10 DEF AloneInv, IfaceMembers, Members
<1>12. op["client"] = "start" => seen # "Ready" BY <1>1 DEF AloneInv, ClientDoes
<1>13. ClientDoes'
  <2>1. S \in {OfSet, OfFrames, OfStart} /\ (AcqModes' = AcqModes) OBVIOUS
  <2> QED BY <1>7, <1>9, <1>10, <1>12 DEF ClientDoes
<1>14. seen' = "Ready" => ~espia'.running BY <1>8, <1>10, <1>12 DEF AloneInv
<1> QED BY <1>2, <1>7, <1>10, <1>11, <1>13, <1>14, AloneFree

\* A step of getStatus.
LEMMA AloneOfStatus ==
  ASSUME AloneInv, op["client"] = "status",
         (Step("client") /\ UNCHANGED extra) \/ IfaceStep("client")
  PROVE  AloneInv'
<1> USE ActorAssumption, ConfigAssumption
<1> DEFINE s == todo["client"]
<1>0. IfaceMembers /\ Members BY DEF AloneInv, IfaceMembers
<1>1. s # <<>> BY CameraStepKind, WhichIfaceStep
<1>2. CASE s = getStatus
  <2>1. /\ Head(s) = Simple("readFlag") /\ Tail(s) = <<Simple("readRunning")>>
    BY <1>2, Head2 DEF getStatus
  <2>2. Head(s).do = "readFlag" BY <2>1, SimpleKind
  <2>3. ReadFlag("client") BY <2>2, CameraStepKind, WhichIfaceStep DEF CameraKinds
  <2>4. UNCHANGED <<cam, board, espia, op, threw, iface, before>>
    BY <2>3 DEF ReadFlag, state
  <2>5. /\ DOMAIN todo' = Actors /\ \A q \in Actors \ {"client"} : todo'[q] = todo[q]
        /\ \/ seen' = "Config" /\ todo'["client"] = <<>>
           \/ ~iface.flag /\ seen' = seen /\ todo'["client"] = Tail(s)
    BY <1>0, <2>3 DEF ReadFlag, Members
  <2>6. ConfigPlace' /\ (Loading' <=> Loading) BY <2>4, <2>5, ConfigKept DEF AloneInv
  <2>7. ~iface.flag => ~Loading BY DEF AloneInv, Undisturbed
  <2>8. ClientDoes' BY <2>1, <2>4, <2>5, <2>6, <2>7 DEF ClientDoes
  <2>9. IfaceMembers' BY <1>0, <2>4, <2>5 DEF IfaceMembers, Members
  <2>10. Undisturbed => Undisturbed' BY <2>4, <2>5 DEF Undisturbed
  <2>11. seen' = "Ready" => ~espia'.running BY <2>4, <2>5 DEF AloneInv
  <2> QED BY <2>5, <2>6, <2>8, <2>9, <2>10, <2>11 DEF AloneInv
<1>3. CASE s = <<Simple("readRunning")>> /\ ~Loading
  <2>1. Head(s) = Simple("readRunning") /\ Tail(s) = <<>> BY <1>3, Head1
  <2>2. Head(s).do = "readRunning" BY <2>1, SimpleKind
  <2>3. ReadRunning("client") BY <2>2, CameraStepKind, WhichIfaceStep DEF CameraKinds
  <2>4. /\ UNCHANGED <<cam, board, espia, op, threw, iface>> /\ Goes("client")
        /\ seen' = IF espia.running THEN "Running" ELSE "Ready"
    BY <2>3 DEF ReadRunning, Goes, state
  <2>5. /\ DOMAIN todo' = Actors /\ \A q \in Actors \ {"client"} : todo'[q] = todo[q]
        /\ todo'["client"] = <<>>
    BY <1>0, <2>1, <2>4 DEF Goes, Members
  <2>6. IfaceMembers' BY <1>0, <2>4, <2>5 DEF IfaceMembers, Members
  <2>7. ClientDoes' BY <2>4, <2>5 DEF ClientDoes
  <2>8. seen' = "Ready" => ~espia'.running BY <2>4
  <2> QED BY <1>3, <2>4, <2>5, <2>6, <2>7, <2>8, AloneFree
<1> QED BY <1>1, <1>2, <1>3 DEF AloneInv, ClientDoes


\* A step of loadConfig: the last one starts the thread.
LEMMA AloneOfLoad ==
  ASSUME AloneInv, op["client"] = "load",
         (Step("client") /\ UNCHANGED extra) \/ IfaceStep("client")
  PROVE  AloneInv'
<1> USE ActorAssumption, ConfigAssumption
<1> DEFINE s == todo["client"]
<1>0. IfaceMembers /\ Members BY DEF AloneInv, IfaceMembers
<1>1. s # <<>> BY CameraStepKind, WhichIfaceStep
<1>2. ~Loading BY <1>1, ClientAtWork
<1>3. /\ seen # "Ready" /\ ~espia.running /\ ~cam.prepare
      /\ \/ \E n \in Names : s = loadConfig(n)
         \/ s = <<set("flag", TRUE), Simple("threadStart")>>
         \/ s = <<Simple("threadStart")>> /\ iface.flag
  BY <1>1 DEF AloneInv, ClientDoes, LoadPlace
<1>4. \A f, v : set(f, v).do = "set" /\ set(f, v).f = f /\ set(f, v).v = v
  BY DEF set, Do
<1>5. ASSUME NEW f \in {"name", "flag"}, NEW v, s # <<>>, Head(s) = set(f, v),
             Tail(s) = <<set("flag", TRUE), Simple("threadStart")>>
             \/ (Tail(s) = <<Simple("threadStart")>> /\ f = "flag" /\ v = TRUE)
      PROVE  AloneInv'
  <2>1. Head(s).do = "set" /\ Head(s).f = f /\ Head(s).v = v BY <1>4, <1>5
  <2>2. Set("client") BY <2>1, CameraStepKind, WhichIfaceStep DEF CameraKinds
  <2>3. /\ Goes("client") /\ UNCHANGED <<cam, board, espia, seen, before>>
        /\ iface' = [iface EXCEPT ![f] = v]
    BY <2>1, <2>2 DEF Set, Next1, state
  <2>4. /\ DOMAIN todo' = Actors /\ todo'["client"] = Tail(s) /\ op' = op /\ threw' = threw
        /\ \A q \in Actors \ {"client"} : todo'[q] = todo[q]
    BY <1>0, <2>3 DEF Goes, Members
  <2>5. /\ DOMAIN iface' = DOMAIN iface /\ iface'.det = iface.det
        /\ iface'.chip = iface.chip /\ (f = "flag" /\ v = TRUE => iface'.flag)
    BY <1>0, <2>3 DEF IfaceMembers
  <2>6. IfaceMembers' BY <1>0, <2>3, <2>4, <2>5 DEF IfaceMembers, Members
  <2>7. LoadPlace' BY <1>3, <1>5, <2>3, <2>4, <2>5 DEF LoadPlace
  <2>8. ClientDoes' BY <2>4, <2>7 DEF ClientDoes
  <2> QED BY <1>2, <1>3, <2>3, <2>4, <2>5, <2>6, <2>8, AloneFree
<1>6. CASE \E n \in Names : s = loadConfig(n)
  <2>1. PICK n \in Names : s = loadConfig(n) BY <1>6
  <2>2. Head(s) = set("name", n) /\ Tail(s) = <<set("flag", TRUE), Simple("threadStart")>>
    <3>1. s = <<set("name", n), set("flag", TRUE), Simple("threadStart")>>
      BY <2>1, Zenon DEF loadConfig
    <3>2. /\ Head(<<set("name", n), set("flag", TRUE), Simple("threadStart")>>) = set("name", n)
          /\ Tail(<<set("name", n), set("flag", TRUE), Simple("threadStart")>>)
               = <<set("flag", TRUE), Simple("threadStart")>>
      BY Head3, Zenon
    <3> QED BY <3>1, <3>2, Zenon
  <2> QED BY <1>1, <1>5, <2>2
<1>7. CASE s = <<set("flag", TRUE), Simple("threadStart")>>
  <2>1. Head(s) = set("flag", TRUE) /\ Tail(s) = <<Simple("threadStart")>>
    BY <1>7, Head2
  <2> QED BY <1>1, <1>5, <2>1
<1>8. CASE s = <<Simple("threadStart")>> /\ iface.flag
  <2>1. Head(s) = Simple("threadStart") /\ Tail(s) = <<>> BY <1>8, Head1
  <2>2. Head(s).do = "threadStart" BY <2>1, SimpleKind
  <2>3. ThreadStart("client") BY <2>2, CameraStepKind, WhichIfaceStep DEF CameraKinds
  <2>4. UNCHANGED <<cam, board, espia, iface, seen>> BY <2>3 DEF ThreadStart, state
  <2>5. CASE todo' = [todo EXCEPT !["client"] = Tail(@), !["config"] = threadFunction]
             /\ op' = [op EXCEPT !["config"] = "config"]
             /\ before' = [et |-> board.et, nb |-> board.nb]
    <3>1. /\ DOMAIN todo' = Actors /\ todo'["client"] = <<>> /\ DOMAIN op' = Actors
          /\ todo'["config"] = threadFunction /\ op'["client"] = "load"
          /\ \A q \in Actors \ {"client", "config"} : todo'[q] = todo[q]
      BY <1>0, <2>1, <2>5 DEF Members
    <3>2. todo'["config"] = Rest(1) BY <3>1, RestShape
    <3>3. Known(1)' BY <2>4, <2>5 DEF Known
    <3>4. ConfigPlace' BY <3>2, <3>3 DEF ConfigPlace
    <3>5. IfaceMembers' BY <1>0, <2>4, <3>1 DEF IfaceMembers, Members
    <3>6. ClientDoes' BY <3>1 DEF ClientDoes, LoadPlace
    <3>7. Undisturbed' BY <1>3, <1>8, <2>4, <3>1 DEF Undisturbed, Idle
    <3> QED BY <1>3, <2>4, <3>1, <3>4, <3>5, <3>6, <3>7 DEF AloneInv
  <2>6. CASE todo' = [todo EXCEPT !["client"] = <<>>] /\ threw' = threw \cup {"client"}
             /\ UNCHANGED <<op, thread, before>>
    <3>1. /\ DOMAIN todo' = Actors /\ todo'["client"] = <<>> /\ op'["client"] = "load"
          /\ \A q \in Actors \ {"client"} : todo'[q] = todo[q]
      BY <1>0, <2>6 DEF Members
    <3>2. IfaceMembers' BY <1>0, <2>4, <2>6, <3>1 DEF IfaceMembers, Members
    <3>3. ClientDoes' BY <3>1 DEF ClientDoes, LoadPlace
    <3> QED BY <1>2, <1>3, <2>4, <2>6, <3>1, <3>2, <3>3, AloneFree
  <2> QED BY <2>3, <2>5, <2>6 DEF ThreadStart
<1> QED BY <1>3, <1>6, <1>7, <1>8

\* A step of any actor.
LEMMA AloneOfSteps ==
  ASSUME AloneInv, NEW p \in Actors, (Step(p) /\ UNCHANGED extra) \/ IfaceStep(p)
  PROVE  AloneInv'
<1>1. todo[p] # <<>> BY CameraStepKind, WhichIfaceStep
<1>2. p \in {"client", "acqend", "config"} BY <1>1 DEF AloneInv, IfaceMembers
<1>3. CASE p = "config" BY <1>3, AloneOfThread DEF Working
<1>4. CASE p = "acqend" BY <1>4, AloneOfAcqEnd
<1>5. CASE p = "client"
  <2>1. op["client"] \in {"set", "frames", "start", "stop", "status", "load"}
    BY <1>1, <1>5 DEF AloneInv, ClientDoes
  <2> QED BY <1>5, <2>1, AloneOfMethod, AloneOfStop, AloneOfStatus, AloneOfLoad
<1> QED BY <1>2, <1>3, <1>4, <1>5


LEMMA FewSteps ==
  ASSUME NEW S, NEW a \in S
  PROVE  <<a>> \in Seq(S) /\ \A b \in S : <<a, b>> \in Seq(S)
OBVIOUS

\* A method the client calls is made of its steps.
LEMMA MethodSteps ==
  ASSUME cam.lima \in Modes
  PROVE  /\ stopAcq \in Seq(OfStop) /\ startAcq \in Seq(OfStart)
         /\ \A n \in Frames : setNbHwFrames(n) \in Seq(OfFrames)
         /\ prepareAcq \in Seq(OfSet)
         /\ \A t \in Trigs : <<assign("trig", t)>> \in Seq(OfSet)
         /\ \A t \in Expos : setExpTime(t) \in Seq(OfSet)
<1>1. stopAcq \in Seq(OfStop)
  <2>1. disarm \in OfStop /\ enableSerial0 \in OfStop /\ halt \in OfStop /\ clear \in OfStop
    BY Zenon DEF OfStop
  <2>2. <<disarm, enableSerial0>> \in Seq(OfStop) /\ <<halt, clear>> \in Seq(OfStop)
    BY <2>1, FewSteps
  <2>3. <<disarm, enableSerial0>> \o <<halt, clear>> \in Seq(OfStop) BY <2>2, ConcatProperties
  <2> QED BY <2>3 DEF stopAcq, priamStopAcq, disarm, halt, clear
<1>2. startAcq \in Seq(OfStart)
  <2>1. /\ assign("mode", cam.lima) \in OfStart /\ Simple("ifPrepared") \in OfStart
        /\ Simple("check") \in OfStart /\ select \in OfStart /\ arm \in OfStart
    BY Zenon DEF OfStart
  <2>2. /\ <<assign("mode", cam.lima), Simple("ifPrepared")>> \in Seq(OfStart)
        /\ <<Simple("check"), select, arm>> \in Seq(OfStart)
    BY <2>1
  <2>3. <<assign("mode", cam.lima), Simple("ifPrepared")>> \o <<Simple("check"), select, arm>>
          \in Seq(OfStart)
    BY <2>2, ConcatProperties
  <2> QED BY <2>3 DEF startAcq, priamStartAcq, select, arm
<1>3. ASSUME NEW n \in Frames PROVE setNbHwFrames(n) \in Seq(OfFrames)
  <2>0. n \in Nat /\ n \in Words /\ 1 \in Words BY ConfigAssumption DEF Words
  <2>1. PICK k \in Nat : /\ k \in Words
          /\ k = IF cam.trig = "IntTrigMult" /\ cam.lima # "Accumulation" THEN 1 ELSE n
    BY <2>0
  <2>2. /\ assign("mode", cam.lima) \in OfFrames /\ Do("espiaFrames", "", n) \in OfFrames
        /\ writeReg("nb", k) \in OfFrames /\ assign("nb", k) \in OfFrames
    BY <2>0, <2>1, Zenon DEF OfFrames
  <2>3. /\ <<assign("mode", cam.lima), Do("espiaFrames", "", n)>> \in Seq(OfFrames)
        /\ <<writeReg("nb", k), assign("nb", k)>> \in Seq(OfFrames)
    BY <2>2, FewSteps
  <2>4. <<assign("mode", cam.lima), Do("espiaFrames", "", n)>>
          \o <<writeReg("nb", k), assign("nb", k)>> \in Seq(OfFrames)
    BY <2>3, ConcatProperties
  <2> QED BY <2>1, <2>4, Zenon DEF setNbHwFrames, priamSetNbFrames
<1>4. prepareAcq \in Seq(OfSet)
  <2>1. assign("prepare", TRUE) \in OfSet BY Zenon DEF OfSet
  <2> QED BY <2>1, FewSteps DEF prepareAcq
<1>5. ASSUME NEW t \in Trigs PROVE <<assign("trig", t)>> \in Seq(OfSet)
  <2>1. assign("trig", t) \in OfSet BY Zenon DEF OfSet
  <2> QED BY <2>1
<1>6. ASSUME NEW t \in Expos PROVE setExpTime(t) \in Seq(OfSet)
  <2>1. writeReg("et", Held(t)) \in OfSet BY Zenon DEF OfSet
  <2> QED BY <2>1 DEF setExpTime
<1> QED BY <1>1, <1>2, <1>3, <1>4, <1>5, <1>6

\* A method begins.
LEMMA Calls ==
  ASSUME Members, NEW name, NEW steps, Call("client", name, steps)
  PROVE  /\ todo["client"] = <<>> /\ DOMAIN todo' = Actors /\ DOMAIN op' = Actors
         /\ todo'["client"] = steps /\ op'["client"] = name
         /\ \A q \in Actors \ {"client"} : todo'[q] = todo[q]
         /\ UNCHANGED <<cam, board, espia>>
         /\ ("config" \in threw => "config" \in threw')
BY ActorAssumption DEF Call, Idle, Members, state

\* A client that has seen Ready calls a method that sets or starts.
LEMMA AloneOfReady ==
  ASSUME AloneInv, seen = "Ready", NEW name, NEW steps, Call("client", name, steps),
         iface' = iface, seen' = "Ready" => name # "start",
         \/ name = "set" /\ steps \in Seq(OfSet)
         \/ name = "frames" /\ steps \in Seq(OfFrames)
         \/ name = "start" /\ steps \in Seq(OfStart)
  PROVE  AloneInv'
<1> USE ActorAssumption, ConfigAssumption
<1>0. IfaceMembers /\ Members BY DEF AloneInv, IfaceMembers
<1>1. /\ DOMAIN todo' = Actors /\ DOMAIN op' = Actors
      /\ todo'["client"] = steps /\ op'["client"] = name
      /\ \A q \in Actors \ {"client"} : todo'[q] = todo[q]
      /\ UNCHANGED <<cam, board, espia>>
      /\ ("config" \in threw => "config" \in threw')
  BY <1>0, Calls
<1>2. ~Loading /\ ~espia.running BY DEF AloneInv, Undisturbed
<1>3. IfaceMembers' BY <1>0, <1>1 DEF IfaceMembers, Members
<1>4. ClientDoes' BY <1>1 DEF ClientDoes
<1> QED BY <1>1, <1>2, <1>3, <1>4, AloneFree

LEMMA AloneOfSetUp ==
  ASSUME AloneInv, SetUp
  PROVE  AloneInv'
<1> USE ActorAssumption, ConfigAssumption
<1>0. /\ IfaceMembers /\ Members /\ cam.lima \in Modes
      /\ seen = "Ready" /\ iface' = iface /\ seen' = seen
  BY DEF AloneInv, IfaceMembers, SetUp, extra
<1>1. CASE SetAcqMode
  <2>1. /\ UNCHANGED <<board, espia, todo, op, threw>> /\ todo["client"] = <<>>
        /\ DOMAIN cam' = DOMAIN cam /\ cam'.lima \in Modes
    BY <1>0, <1>1 DEF SetAcqMode, Idle, Members, Modes
  <2>2. ~Loading BY <1>0 DEF AloneInv, Undisturbed
  <2>3. IfaceMembers' BY <1>0, <2>1 DEF IfaceMembers, Members
  <2>4. LoadPlace' BY <2>1 DEF LoadPlace
  <2>5. \A S : <<>> \in Seq(S) BY NothingLeft
  <2>6. ClientDoes' BY <2>1, <2>4, <2>5 DEF AloneInv, ClientDoes
  <2> QED BY <1>0, <2>1, <2>2, <2>3, <2>6, AloneFree DEF AloneInv
<1>2. CASE SetNbHwFrames
  <2>1. PICK n \in Frames : Call("client", "frames", setNbHwFrames(n))
    BY <1>2 DEF SetNbHwFrames
  <2>2. setNbHwFrames(n) \in Seq(OfFrames) BY <1>0, MethodSteps
  <2> QED BY <1>0, <2>1, <2>2, AloneOfReady
<1>3. CASE SetTrigMode
  <2>1. PICK t \in Trigs : Call("client", "set", <<assign("trig", t)>>)
    BY <1>3 DEF SetTrigMode
  <2>2. <<assign("trig", t)>> \in Seq(OfSet) BY <1>0, MethodSteps
  <2> QED BY <1>0, <2>1, <2>2, AloneOfReady
<1>4. CASE PrepareAcq
  <2>1. Call("client", "set", prepareAcq) BY <1>4 DEF PrepareAcq
  <2>2. prepareAcq \in Seq(OfSet) BY <1>0, MethodSteps
  <2> QED BY <1>0, <2>1, <2>2, AloneOfReady
<1>5. CASE \E t \in Expos : Call("client", "set", setExpTime(t))
  <2>1. PICK t \in Expos : Call("client", "set", setExpTime(t)) BY <1>5
  <2>2. setExpTime(t) \in Seq(OfSet) BY <1>0, MethodSteps
  <2> QED BY <1>0, <2>1, <2>2, AloneOfReady
<1> QED BY <1>1, <1>2, <1>3, <1>4, <1>5 DEF SetUp

LEMMA AloneOfStart ==
  ASSUME AloneInv, Start
  PROVE  AloneInv'
<1>1. /\ cam.lima \in Modes /\ seen = "Ready" /\ iface' = iface /\ seen' = "none"
      /\ Call("client", "start", startAcq)
  BY DEF AloneInv, IfaceMembers, Start, StartAcq, NoStatus
<1>2. startAcq \in Seq(OfStart) BY <1>1, MethodSteps
<1> QED BY <1>1, <1>2, AloneOfReady

LEMMA AloneOfCalledStop ==
  ASSUME AloneInv, Stop
  PROVE  AloneInv'
<1> USE ActorAssumption
<1>0. IfaceMembers /\ Members /\ cam.lima \in Modes /\ todo["acqend"] \in Seq(OfStop)
  BY DEF AloneInv, IfaceMembers
<1>1. Call("client", "stop", stopAcq) /\ UNCHANGED <<iface, seen, before>>
  BY DEF Stop, StopAcq, extra
<1>2. stopAcq \in Seq(OfStop) BY <1>0, MethodSteps
<1>3. /\ DOMAIN todo' = Actors /\ DOMAIN op' = Actors
      /\ todo'["client"] = stopAcq /\ op'["client"] = "stop"
      /\ \A q \in Actors \ {"client"} : todo'[q] = todo[q]
      /\ UNCHANGED <<cam, board, espia>>
      /\ ("config" \in threw => "config" \in threw')
  BY <1>0, <1>1, Calls
<1>4. Gentle BY <1>1, <1>3 DEF Gentle
<1> QED BY <1>0, <1>2, <1>3, <1>4, AloneGentle

LEMMA AloneOfAsk ==
  ASSUME AloneInv, Ask
  PROVE  AloneInv'
<1> USE ActorAssumption, ConfigAssumption
<1>0. IfaceMembers /\ Members BY DEF AloneInv, IfaceMembers
<1>1. Call("client", "status", getStatus) /\ UNCHANGED <<iface, seen, before>>
  BY DEF Ask, extra
<1>2. /\ DOMAIN todo' = Actors /\ DOMAIN op' = Actors
      /\ todo'["client"] = getStatus /\ op'["client"] = "status"
      /\ \A q \in Actors \ {"client"} : todo'[q] = todo[q]
      /\ UNCHANGED <<cam, board, espia>>
      /\ ("config" \in threw => "config" \in threw')
  BY <1>0, <1>1, Calls
<1>3. ConfigPlace' /\ (Loading' <=> Loading) BY <1>1, <1>2, ConfigKept DEF AloneInv
<1>4. IfaceMembers' BY <1>0, <1>1, <1>2 DEF IfaceMembers, Members
<1>5. getStatus' = getStatus BY DEF getStatus
<1>6. ClientDoes' BY <1>2, <1>5 DEF ClientDoes
<1>7. Undisturbed => Undisturbed' BY <1>1, <1>2 DEF Undisturbed
<1> QED BY <1>1, <1>2, <1>3, <1>4, <1>6, <1>7 DEF AloneInv

\* A client that waits loads a configuration only when it has seen Ready.
LEMMA AloneOfLoadConfig ==
  ASSUME AloneInv, Waits, LoadConfig
  PROVE  AloneInv'
<1> USE ActorAssumption, ConfigAssumption
<1>0. IfaceMembers /\ Members BY DEF AloneInv, IfaceMembers
<1>1. PICK n \in Names : Call("client", "load", loadConfig(n)) BY DEF LoadConfig
<1>2. seen = "Ready" /\ ~cam.prepare /\ seen' = "none" /\ iface' = iface
  BY DEF LoadConfig, Waits, NoStatus
<1>3. /\ DOMAIN todo' = Actors /\ DOMAIN op' = Actors
      /\ todo'["client"] = loadConfig(n) /\ op'["client"] = "load"
      /\ \A q \in Actors \ {"client"} : todo'[q] = todo[q]
      /\ UNCHANGED <<cam, board, espia>>
      /\ ("config" \in threw => "config" \in threw')
  BY <1>0, <1>1, Calls
<1>4. ~Loading /\ ~espia.running BY <1>2 DEF AloneInv, Undisturbed
<1>5. IfaceMembers' BY <1>0, <1>2, <1>3 DEF IfaceMembers, Members
<1>6. LoadPlace'
  <2>1. todo'["client"] = loadConfig(n)' BY <1>3 DEF loadConfig
  <2> QED BY <1>2, <1>3, <1>4, <2>1 DEF LoadPlace
<1>7. ClientDoes' BY <1>3, <1>6 DEF ClientDoes
<1> QED BY <1>2, <1>3, <1>4, <1>5, <1>7, AloneFree

\* The end notice and the frames are gentle.
LEMMA AloneOfNotice ==
  ASSUME AloneInv, AcqFinished, UNCHANGED extra
  PROVE  AloneInv'
<1> USE ActorAssumption
<1>0. IfaceMembers /\ Members /\ cam.lima \in Modes BY DEF AloneInv, IfaceMembers
<1>1. /\ DOMAIN todo' = Actors /\ DOMAIN op' = Actors
      /\ \A q \in Actors \ {"acqend"} : todo'[q] = todo[q] /\ op'[q] = op[q]
      /\ todo'["acqend"] = stopAcq /\ threw' = threw \ {"acqend"}
  BY <1>0 DEF AcqFinished, Members
<1>2. Gentle BY <1>0 DEF AcqFinished, Gentle, extra, Members
<1>3. stopAcq \in Seq(OfStop) BY <1>0, MethodSteps
<1> QED BY <1>1, <1>2, <1>3, AloneGentle

LEMMA AloneOfBoard ==
  ASSUME AloneInv, BoardFrame, UNCHANGED extra
  PROVE  AloneInv'
<1>0. IfaceMembers /\ Members BY DEF AloneInv, IfaceMembers
<1>1. UNCHANGED <<todo, op, threw>> BY DEF BoardFrame
<1>2. Gentle BY <1>0 DEF BoardFrame, Gentle, extra, Members
<1> QED BY <1>0, <1>1, <1>2, AloneGentle DEF AloneInv, Members

-----------------------------------------------------------------------------
LEMMA AloneInit == IfaceInit => AloneInv
<1> SUFFICES ASSUME IfaceInit PROVE AloneInv
  OBVIOUS
<1> USE ActorAssumption, ConfigAssumption
<1>1. /\ IfaceMembers /\ todo["client"] = <<>> /\ todo["acqend"] = <<>>
      /\ todo["config"] = <<>> /\ op["client"] = "none"
      /\ iface.det = iface.chip /\ seen = "none"
  BY DEF IfaceInit, Init, IfaceMembers, Members, NoStatus, Modes
<1>2. ConfigPlace /\ ~Loading BY <1>1 DEF ConfigPlace, Loading, Idle
<1>3. todo["acqend"] \in Seq(OfStop) BY <1>1, NothingLeft
<1> QED BY <1>1, <1>2, <1>3 DEF AloneInv, ClientDoes

LEMMA AloneStep ==
  ASSUME Waits, AloneInv, [IfaceNext]_allVars
  PROVE  AloneInv'
<1>1. CASE UNCHANGED allVars
  <2>1. UNCHANGED <<cam, board, espia, todo, op, threw, iface, seen, before>>
    BY <1>1 DEF allVars, vars, state, extra
  <2>2. Gentle BY <2>1 DEF Gentle
  <2> QED BY <2>1, <2>2, AloneGentle DEF AloneInv, IfaceMembers, Members
<1>2. CASE Ask BY <1>2, AloneOfAsk
<1>3. CASE LoadConfig BY <1>3, AloneOfLoadConfig
<1>4. CASE SetUp BY <1>4, AloneOfSetUp
<1>5. CASE Start BY <1>5, AloneOfStart
<1>6. CASE Stop BY <1>6, AloneOfCalledStop
<1>7. CASE AcqFinished /\ UNCHANGED extra BY <1>7, AloneOfNotice
<1>8. CASE BoardFrame /\ UNCHANGED extra BY <1>8, AloneOfBoard
<1>9. ASSUME NEW p \in Actors,
             (Step(p) /\ UNCHANGED extra) \/ IfaceStep(p) \/ (IfaceFail(p) /\ UNCHANGED extra)
      PROVE  AloneInv'
  BY <1>9, AloneOfSteps, AloneOfFail
<1> QED BY <1>1, <1>2, <1>3, <1>4, <1>5, <1>6, <1>7, <1>8, <1>9 DEF IfaceNext

\* The invariant holds in every state.
LEMMA AloneHolds == Waits => (IfaceSpec => []AloneInv)
<1>1. Waits /\ AloneInv /\ [IfaceNext]_allVars => AloneInv'
  BY AloneStep
<1>2. CASE Waits
  <2>1. AloneInv /\ [IfaceNext]_allVars => AloneInv' BY <1>1, <1>2
  <2> QED BY <2>1, AloneInit, PTL DEF IfaceSpec
<1> QED BY <1>2

-----------------------------------------------------------------------------
\* While the thread is at work getStatus says so, for any configurations,
\* parameters and exceptions.
THEOREM StatusTells ==
  ASSUME Waits
  PROVE  IfaceSpec => []ConfigReported
<1>1. AloneInv => ConfigReported BY DEF AloneInv, Undisturbed, ConfigReported
<1> QED BY <1>1, AloneHolds, PTL

\* The thread meets no acquisition of a client that goes by getStatus.
THEOREM ThreadIsAlone ==
  ASSUME Waits
  PROVE  IfaceSpec => []ConfigAlone
<1>1. AloneInv => ConfigAlone
  BY DEF AloneInv, Undisturbed, ConfigAlone
<1> QED BY <1>1, AloneHolds, PTL

\* The detector and the chips are configured alike, although the name is read
\* twice.
THEOREM LoadsOne ==
  ASSUME Waits
  PROVE  IfaceSpec => []OneConfig
<1>1. ASSUME AloneInv PROVE OneConfig
  <2> SUFFICES ASSUME Idle("config"), "config" \notin threw PROVE iface.det = iface.chip
    BY DEF OneConfig
  <2>1. todo["config"] = <<>> BY DEF Idle
  <2>2. \A k \in 1 .. 20 : Rest(k) # <<>> BY RestShape
  <2>3. todo["config"] \notin GivingUp BY <2>1, LoadingMeans DEF Loading, Idle
  <2> QED BY <1>1, <2>1, <2>2, <2>3 DEF AloneInv, ConfigPlace
<1> QED BY <1>1, AloneHolds, PTL

-----------------------------------------------------------------------------
(***************************************************************************)
(* The values: what the registers hold and the thread saves is in range,   *)
(* so that the register's encoding says how much a restored value lost.    *)
(***************************************************************************)
LEMMA LongestType ==
  /\ Longest \in Nat /\ Dummy \in Nat /\ Dummy <= Longest
  /\ Limit \in Nat /\ 2 * Longest < Limit
BY SMT DEF Longest, Dummy, Limit

LEMMA UnitGrows ==
  \A i, j \in 0 .. 6 : Unit(i) \in Nat /\ (i <= j => Unit(i) <= Unit(j))
<1> SUFFICES ASSUME NEW i \in 0 .. 6, NEW j \in 0 .. 6
             PROVE  Unit(i) \in Nat /\ (i <= j => Unit(i) <= Unit(j))
  OBVIOUS
<1>1. i \in {0, 1, 2, 3, 4, 5, 6} /\ j \in {0, 1, 2, 3, 4, 5, 6} OBVIOUS
<1> QED BY <1>1, Units

\* A shorter duration has no coarser unit.
LEMMA ScaleGrows ==
  ASSUME NEW a \in Nat, NEW b \in Nat, a <= b, b < Limit
  PROVE  Unit(Scale(a)) <= Unit(Scale(b))
<1>1. a < Limit BY LongestType
<1>2. PICK i \in 0 .. 6 : i = Scale(a) /\ (i > 0 => ~FitsIn(a, i - 1))
  BY <1>1, ScaleInRange
<1>3. PICK j \in 0 .. 6 : j = Scale(b) /\ FitsIn(b, j) BY ScaleInRange
<1>4. i <= j
  <2> SUFFICES ASSUME j <= i - 1 PROVE FALSE OBVIOUS
  <2>1. i > 0 /\ i - 1 \in 0 .. 6 OBVIOUS
  <2>2. PICK x \in Nat, y \in Nat : x = Unit(j) /\ y = Unit(i - 1) /\ x <= y
    BY <2>1, UnitGrows
  <2>3. ~(a < 2 * (1024 * y)) /\ b < 2 * (1024 * x) BY <1>2, <1>3, <2>1, <2>2 DEF FitsIn
  <2> QED BY <2>2, <2>3
<1> QED BY <1>2, <1>3, <1>4, UnitGrows

\* A duration written once more is not longer, and loses one step at most.
LEMMA HeldClose ==
  ASSUME NEW us \in Times
  PROVE  Held(us) \in 0 .. us /\ us - Held(us) <= Unit(Scale(2 * us))
<1>1. PICK askt : askt = IF us \in Short THEN 2 * us - 1 ELSE 2 * us OBVIOUS
<1>2. /\ askt \in Nat /\ 2 * us \in Nat /\ askt < Limit /\ 2 * us < Limit
      /\ 2 * us - 1 <= askt /\ askt <= 2 * us
  BY <1>1, ConfigAssumption, LongestType DEF Times
<1>3. PICK fine \in Nat, unit \in Nat :
        fine = Unit(Scale(askt)) /\ unit = Unit(Scale(2 * us)) /\ fine <= unit
  BY <1>2, ScaleInRange, ScaleGrows, UnitGrows
<1>4. PICK got \in Nat : got = Held(us) /\ 2 * got <= askt /\ askt < 2 * got + 2 * fine
  <2>0. Count(askt) \in 0 .. 1023 BY <1>2, CountInRange, Zenon
  <2>1. PICK n \in Nat : n = Count(askt) BY <2>0
  <2>2. PICK got \in Nat : got = n * fine OBVIOUS
  <2>3. 2 * got <= askt /\ askt < 2 * got + 2 * fine
    BY <1>2, <1>3, <2>1, <2>2, CountInRange
  <2>4. Held(us) = got BY <1>1, <1>3, <2>1, <2>2 DEF Held
  <2> QED BY <2>3, <2>4
<1> QED BY <1>2, <1>3, <1>4, LongestType DEF Times

\* The number of frames comes back in the register as it was.
LEMMA SavedWord ==
  ASSUME NEW nb \in Words
  PROVE  /\ Saved(nb) \in Int
         /\ Saved(nb) % (2 * Half) = IF nb = 0 THEN 1 ELSE nb
         /\ Saved(nb) = getNbFrames(Saved(nb) % (2 * Half))
<1>1. PICK w \in Nat : w = 2 * Half /\ w > 2 BY ConfigAssumption
<1>2. CASE nb = 0
  <2>1. Saved(nb) = 1 BY <1>2 DEF Saved
  <2>2. 1 % w = 1 BY <1>1
  <2>3. getNbFrames(1) = 1 BY ConfigAssumption DEF getNbFrames
  <2> QED BY <1>1, <1>2, <2>1, <2>2, <2>3
<1>3. CASE nb # 0 /\ nb < Half
  <2>1. Saved(nb) = nb /\ getNbFrames(nb) = nb BY <1>3 DEF Saved, getNbFrames
  <2>2. nb % w = nb BY <1>1 DEF Words
  <2> QED BY <1>1, <1>3, <2>1, <2>2 DEF Words
<1>4. CASE nb # 0 /\ ~(nb < Half)
  <2>1. Saved(nb) = nb - w /\ getNbFrames(nb) = nb - w
    BY <1>1, <1>4 DEF Saved, getNbFrames
  <2>2. (nb - w) % w = nb BY <1>1 DEF Words
  <2> QED BY <1>1, <1>4, <2>1, <2>2 DEF Words
<1> QED BY <1>2, <1>3, <1>4

Measured ==
  /\ board.et \in Times /\ board.nb \in Words
  /\ before.et \in Times /\ before.nb \in Words
  /\ iface.et \in Times /\ iface.nb \in Int

\* A step that writes a register or sets a member does so with a value in range.
Ranged(s) ==
  /\ s.do = "writeReg" => /\ s.f \in {"sel", "nb", "et"}
                          /\ s.f = "nb" => s.v \in Words
                          /\ s.f = "et" => s.v \in Times
  /\ s.do = "set" => s.f \in {"name", "flag"}

LEMMA RangedKinds ==
  /\ \A s \in OfStop : Ranged(s)
  /\ \A s \in OfStart : Ranged(s)
  /\ \A s \in OfFrames : Ranged(s)
  /\ \A s \in OfSet : Ranged(s)
  /\ \A s \in OfThread : Ranged(s)
<1>1. /\ \A f, v : assign(f, v).do = "assign"
      /\ \A f, v : writeReg(f, v).do = "writeReg" /\ writeReg(f, v).f = f
                   /\ writeReg(f, v).v = v
      /\ \A n : Do("espiaFrames", "", n).do = "espiaFrames"
  BY DEF assign, writeReg, Do
<1>2. \A f, v : Ranged(assign(f, v)) BY <1>1 DEF Ranged
<1>3. \A n \in Words : Ranged(writeReg("nb", n)) BY <1>1 DEF Ranged
<1>4. \A t \in Times : Ranged(writeReg("et", t)) BY <1>1 DEF Ranged
<1>5. \A v : Ranged(writeReg("sel", v)) BY <1>1 DEF Ranged
<1>6. \A n : Ranged(Do("espiaFrames", "", n)) BY <1>1 DEF Ranged
<1>7. \A what : what \notin {"writeReg", "set"} => Ranged(Simple(what))
  BY SimpleKind DEF Ranged
<1>8. Ranged(lower) BY ThreadKinds DEF Ranged
<1>9. \A s \in OfStop : Ranged(s)
  BY <1>2, <1>5, <1>7 DEF OfStop, disarm, enableSerial0, halt, clear
<1>10. \A s \in OfStart : Ranged(s)
  BY <1>2, <1>5, <1>7 DEF OfStart, select, arm, listen, clear
<1>11. \A s \in OfFrames : Ranged(s)
  BY <1>2, <1>3, <1>6 DEF OfFrames
<1>12. \A s \in OfSet : Ranged(s)
  <2>1. \A t \in Expos : t \in Times BY ConfigAssumption DEF Times
  <2>2. \A t \in Expos : Held(t) \in Times
    <3> SUFFICES ASSUME NEW t \in Expos PROVE Held(t) \in Times OBVIOUS
    <3>1. t \in Times /\ Held(t) \in 0 .. t BY <2>1, HeldClose
    <3> QED BY <3>1, LongestType DEF Times
  <2> QED BY <1>2, <1>4, <2>2 DEF OfSet
<1>13. \A s \in OfThread : Ranged(s)
  <2>1. Dummy \in Times BY LongestType DEF Times
  <2>2. 1 \in Words BY ConfigAssumption DEF Words
  <2>3. Ranged(expose) BY <1>4, <2>1 DEF expose
  <2>4. Ranged(oneFrame) BY <1>3, <2>2 DEF oneFrame
  <2>5. Ranged(keepOne) /\ Ranged(select) /\ Ranged(enableSerial0)
    BY <1>2, <1>5 DEF keepOne, select, enableSerial0
  <2>6. /\ Ranged(readDet) /\ Ranged(readChip) /\ Ranged(saveExpo) /\ Ranged(saveFrames)
        /\ Ranged(check) /\ Ranged(arm) /\ Ranged(readIdle) /\ Ranged(disarm)
        /\ Ranged(giveExpo) /\ Ranged(giveFrames) /\ Ranged(keepFrames) /\ Ranged(join)
    BY <1>7 DEF readDet, readChip, saveExpo, saveFrames, check, arm, readIdle, disarm,
                giveExpo, giveFrames, keepFrames, join
  <2> QED BY <1>8, <2>3, <2>4, <2>5, <2>6, Zenon DEF OfThread
<1> QED BY <1>9, <1>10, <1>11, <1>12, <1>13

\* The next step of any actor.
LEMMA NextRanged ==
  ASSUME AloneInv, NEW p \in Actors, todo[p] # <<>>
  PROVE  Ranged(Head(todo[p]))
<1>1. \A S, s : s \in Seq(S) /\ s # <<>> => Head(s) \in S
  BY HeadTailProperties
<1>2. \A what : what \notin {"writeReg", "set"} => Ranged(Simple(what))
  BY SimpleKind DEF Ranged
<1>3. p \in {"client", "acqend", "config"} BY DEF AloneInv, IfaceMembers
<1>4. CASE p = "acqend"
  <2>1. Head(todo["acqend"]) \in OfStop BY <1>1, <1>4 DEF AloneInv
  <2> QED BY <1>4, <2>1, RangedKinds
<1>5. CASE p = "client"
  <2>1. CASE op["client"] \in {"set", "frames", "start", "stop"}
    <3>1. \E S \in {OfSet, OfFrames, OfStart, OfStop} : todo["client"] \in Seq(S)
      BY <2>1 DEF AloneInv, ClientDoes
    <3>2. \E S \in {OfSet, OfFrames, OfStart, OfStop} : Head(todo["client"]) \in S
      BY <1>1, <1>5, <3>1
    <3> QED BY <1>5, <3>2, RangedKinds
  <2>2. CASE op["client"] = "status"
    <3>1. todo["client"] \in {getStatus, <<Simple("readRunning")>>}
      BY <1>5, <2>2 DEF AloneInv, ClientDoes
    <3>2. Head(todo["client"]) \in {Simple("readFlag"), Simple("readRunning")}
      BY <3>1, Head1, Head2 DEF getStatus
    <3> QED BY <1>2, <1>5, <3>2
  <2>3. CASE op["client"] = "load"
    <3>0. \A f \in {"name", "flag"} : \A v : Ranged(set(f, v)) BY DEF Ranged, set, Do
    <3>1. \/ \E n \in Names : todo["client"] = loadConfig(n)
          \/ todo["client"] = <<set("flag", TRUE), Simple("threadStart")>>
          \/ todo["client"] = <<Simple("threadStart")>>
      BY <1>5, <2>3 DEF AloneInv, ClientDoes, LoadPlace
    <3>2. CASE \E n \in Names : todo["client"] = loadConfig(n)
      <4>1. PICK n \in Names : todo["client"] = loadConfig(n) BY <3>2
      <4>2. Head(todo["client"]) = set("name", n) BY <4>1, LoadHead
      <4> QED BY <1>5, <3>0, <4>2
    <3>3. CASE todo["client"] = <<set("flag", TRUE), Simple("threadStart")>>
      <4>1. Head(todo["client"]) = set("flag", TRUE) BY <3>3, Head2
      <4> QED BY <1>5, <3>0, <4>1
    <3>4. CASE todo["client"] = <<Simple("threadStart")>>
      <4>1. Head(todo["client"]) = Simple("threadStart") BY <3>4, Head1
      <4> QED BY <1>2, <1>5, <4>1
    <3> QED BY <3>1, <3>2, <3>3, <3>4
  <2> QED BY <1>5, <2>1, <2>2, <2>3 DEF AloneInv, ClientDoes
<1>6. CASE p = "config"
  <2>1. CASE todo["config"] \in GivingUp
    <3>1. Head(todo["config"]) \in {disarm, enableSerial0, giveUp}
      BY <2>1, Head1, Head2, Head3 DEF GivingUp
    <3>2. Ranged(disarm) /\ Ranged(enableSerial0) BY RangedKinds, Zenon DEF OfStop
    <3>3. Ranged(giveUp) BY <1>2 DEF giveUp
    <3> QED BY <1>6, <3>1, <3>2, <3>3
  <2>2. ASSUME NEW k \in 1 .. 20, todo["config"] = Rest(k) PROVE Ranged(Head(todo["config"]))
    <3>1. Head(todo["config"]) = threadFunction[k] BY <2>2, AtWork
    <3>2. threadFunction[k] \in OfThread
      <4>1. threadFunction \in Seq(OfThread) /\ k \in 1 .. Len(threadFunction) BY ThreadShape
      <4> DEFINE f == threadFunction
      <4> HIDE DEF f
      <4>2. f \in Seq(OfThread) /\ k \in 1 .. Len(f) BY <4>1 DEF f
      <4>3. f[k] \in OfThread BY <4>2
      <4> QED BY <4>3 DEF f
    <3> QED BY <3>1, <3>2, RangedKinds
  <2>3. 20 \in 1 .. 20 /\ \A k \in 1 .. 19 : k \in 1 .. 20 OBVIOUS
  <2> QED BY <1>6, <2>1, <2>2, <2>3 DEF AloneInv, ConfigPlace
<1> QED BY <1>3, <1>4, <1>5, <1>6

\* A step of the camera's methods.
LEMMA MeasuredStep ==
  ASSUME AloneInv, Measured, NEW p \in Actors, Step(p), UNCHANGED extra
  PROVE  Measured'
<1> DEFINE s == Head(todo[p])
<1>1. Members /\ todo[p] # <<>> /\ s.do \in CameraKinds
  BY CameraStepKind DEF AloneInv, IfaceMembers
<1>2. Ranged(s) BY <1>1, NextRanged
<1>3. /\ s.do = "assign" => Assign(p)
      /\ s.do = "writeReg" => WriteReg(p)
      /\ s.do = "ifPrepared" => IfPrepared(p)
      /\ s.do = "check" => Check(p)
      /\ s.do = "arm" => Arm(p)
      /\ s.do = "disarm" => Disarm(p)
      /\ s.do = "espiaFrames" => EspiaFrames(p)
      /\ s.do = "espiaStart" => EspiaStart(p)
      /\ s.do = "espiaStop" => EspiaStop(p)
  BY WhichStep
<1>4. iface' = iface /\ before' = before BY DEF extra
<1>5. board'.et \in Times /\ board'.nb \in Words
  <2>1. CASE s.do = "writeReg"
    <3>1. s.f \in {"sel", "nb", "et"} /\ board' = [board EXCEPT ![s.f] = s.v]
      BY <1>1, <1>2, <1>3, <2>1, Effects DEF Ranged
    <3> QED BY <1>1, <1>2, <2>1, <3>1 DEF Measured, Members, Ranged
  <2>2. CASE s.do \in {"arm", "disarm"}
    BY <1>1, <1>3, <2>2 DEF Arm, Disarm, Members, Measured
  <2>3. CASE s.do \notin {"writeReg", "arm", "disarm"}
    <3>1. board' = board
      BY <1>1, <1>3, <2>3 DEF CameraKinds, Assign, IfPrepared, Check, EspiaFrames, EspiaStart,
                              EspiaStop, state
    <3> QED BY <3>1 DEF Measured
  <2> QED BY <2>1, <2>2, <2>3
<1> QED BY <1>4, <1>5 DEF Measured

\* A step of the interface's.
LEMMA MeasuredIface ==
  ASSUME AloneInv, Measured, NEW p \in Actors, IfaceStep(p)
  PROVE  Measured'
<1> DEFINE s == Head(todo[p])
<1>1. IfaceMembers /\ Members /\ todo[p] # <<>>
  BY WhichIfaceStep DEF AloneInv, IfaceMembers
<1>2. Ranged(s) BY <1>1, NextRanged
<1>3. CASE Set(p)
  <2>1. /\ s.f \in {"name", "flag"} /\ iface' = [iface EXCEPT ![s.f] = s.v]
        /\ UNCHANGED <<board, before>>
    BY <1>2, <1>3 DEF Set, At, Next1, Ranged, state
  <2> QED BY <1>1, <2>1 DEF Measured, IfaceMembers
<1>4. CASE Save(p)
  <2>1. /\ UNCHANGED <<board, before>>
        /\ \/ iface' = [iface EXCEPT !.et = board.et]
           \/ iface' = [iface EXCEPT !.nb = Saved(board.nb)]
    BY <1>4 DEF Save, state
  <2>2. Saved(board.nb) \in Int BY SavedWord DEF Measured
  <2> QED BY <1>1, <2>1, <2>2 DEF Measured, IfaceMembers
<1>5. CASE Restore(p)
  <2>1. /\ UNCHANGED <<iface, before>>
        /\ \/ board' = [board EXCEPT !.et = Held(iface.et)]
           \/ board' = [board EXCEPT !.nb = iface.nb % (2 * Half)]
           \/ board' = board
    BY <1>5 DEF Restore, extra
  <2>2. Held(iface.et) \in Times
    <3>1. PICK t \in Times : t = iface.et /\ Held(t) \in 0 .. t BY HeldClose DEF Measured
    <3> QED BY <3>1, LongestType DEF Times
  <2>3. iface.nb % (2 * Half) \in Words
    <3>1. PICK n \in Int, w \in Nat : n = iface.nb /\ w = 2 * Half /\ w > 0
      BY ConfigAssumption DEF Measured
    <3> QED BY <3>1 DEF Words
  <2> QED BY <1>1, <2>1, <2>2, <2>3 DEF Measured, Members
<1>6. CASE ThreadStart(p)
  <2>1. /\ UNCHANGED <<iface, board>>
        /\ before' = before \/ before' = [et |-> board.et, nb |-> board.nb]
    BY <1>6 DEF ThreadStart, state
  <2> QED BY <2>1 DEF Measured
<1>7. CASE ReadFile(p)
  <2>1. /\ UNCHANGED <<board, before>>
        /\ \/ iface' = [iface EXCEPT !.det = iface.name]
           \/ iface' = [iface EXCEPT !.chip = iface.name]
    BY <1>7 DEF ReadFile, state
  <2> QED BY <1>1, <2>1 DEF Measured, IfaceMembers
<1>8. CASE ReadFlag(p) \/ ReadRunning(p) \/ ReadIdle(p) \/ GiveUp(p)
  <2>1. UNCHANGED <<board, iface, before>>
    BY <1>8 DEF ReadFlag, ReadRunning, ReadIdle, GiveUp, state, extra
  <2> QED BY <2>1 DEF Measured
<1>9. CASE Join(p)
  <2>1. /\ board' = board /\ iface' = [iface EXCEPT !.et = 0, !.nb = 0]
        /\ before' = [et |-> 0, nb |-> 0]
    BY <1>9 DEF Join, state
  <2>2. 0 \in Times BY LongestType DEF Times
  <2>3. 0 \in Words BY ConfigAssumption DEF Words
  <2> QED BY <1>1, <2>1, <2>2, <2>3 DEF Measured, IfaceMembers
<1> QED BY <1>3, <1>4, <1>5, <1>6, <1>7, <1>8, <1>9 DEF IfaceStep

LEMMA MeasuredNext ==
  ASSUME AloneInv, Measured, [IfaceNext]_allVars
  PROVE  Measured'
<1>1. ASSUME UNCHANGED <<board, iface, before>> PROVE Measured' BY <1>1 DEF Measured
<1>2. CASE UNCHANGED allVars BY <1>1, <1>2 DEF allVars, vars, state, extra
<1>3. CASE Ask \/ LoadConfig \/ SetUp \/ Start \/ Stop \/ (AcqFinished /\ UNCHANGED extra)
  <2>1. UNCHANGED <<board, iface, before>>
    BY <1>3 DEF Ask, LoadConfig, SetUp, Start, Stop, AcqFinished, Call, SetAcqMode,
                SetNbHwFrames, SetTrigMode, PrepareAcq, StartAcq, StopAcq, extra, state
  <2> QED BY <1>1, <2>1
<1>4. CASE BoardFrame /\ UNCHANGED extra
  <2>1. iface' = iface /\ before' = before /\ board' = [board EXCEPT !.left = board.left - 1]
    BY <1>4 DEF BoardFrame, extra
  <2> QED BY <2>1 DEF Measured, AloneInv, IfaceMembers, Members
<1>5. ASSUME NEW p \in Actors, IfaceFail(p), UNCHANGED extra PROVE Measured'
  BY <1>1, <1>5 DEF IfaceFail, Fail, state, extra
<1>6. ASSUME NEW p \in Actors, (Step(p) /\ UNCHANGED extra) \/ IfaceStep(p) PROVE Measured'
  BY <1>6, MeasuredStep, MeasuredIface
<1> QED BY <1>2, <1>3, <1>4, <1>5, <1>6 DEF IfaceNext

LEMMA MeasuredInit == IfaceInit => Measured
<1>1. 0 \in Times BY LongestType DEF Times
<1>2. 0 \in Words BY ConfigAssumption DEF Words
<1> QED BY <1>1, <1>2 DEF IfaceInit, Init, Measured

\* Only the thread lowers the flag, when it has restored what it saved.
LEMMA FlagLowered ==
  ASSUME AloneInv, [IfaceNext]_allVars, iface.flag, ~iface'.flag
  PROVE  /\ board.et = Held(before.et)
         /\ board.nb = Saved(before.nb) % (2 * Half)
         /\ cam.nb = Saved(before.nb)
<1> USE ActorAssumption, ConfigAssumption
<1>0. IfaceMembers BY DEF AloneInv
<1>1. iface' # iface OBVIOUS
<1>2. PICK p \in Actors : IfaceStep(p)
  BY <1>1 DEF IfaceNext, Ask, LoadConfig, SetUp, Start, Stop, extra, allVars
<1>3. todo[p] # <<>> /\ Head(todo[p]).do \notin CameraKinds BY <1>2, WhichIfaceStep
<1>4. p \in {"client", "acqend", "config"} BY <1>0, <1>3 DEF IfaceMembers
<1>5. CASE p = "acqend"
  <2>1. Gentle BY <1>2, <1>5, StopIsGentle DEF AloneInv
  <2> QED BY <1>1, <2>1 DEF Gentle
<1>6. CASE p = "client"
  <2>1. CASE op["client"] \in {"set", "frames", "start"}
    BY <1>3, <1>6, <2>1, MethodHeads DEF AloneInv, ClientDoes, CameraKinds
  <2>2. CASE op["client"] = "stop"
    <3>1. Gentle BY <1>2, <1>6, <2>2, StopIsGentle DEF AloneInv, ClientDoes
    <3> QED BY <1>1, <3>1 DEF Gentle
  <2>3. CASE op["client"] = "status"
    <3>1. todo["client"] \in {getStatus, <<Simple("readRunning")>>}
      BY <1>3, <1>6, <2>3 DEF AloneInv, ClientDoes
    <3>2. Head(todo["client"]) \in {Simple("readFlag"), Simple("readRunning")}
      BY <3>1, Head1, Head2 DEF getStatus
    <3>3. Head(todo["client"]).do \in {"readFlag", "readRunning"} BY <3>2, SimpleKind
    <3>4. ReadFlag("client") \/ ReadRunning("client") BY <1>2, <1>6, <3>3, WhichIfaceStep
    <3> QED BY <1>1, <3>4 DEF ReadFlag, ReadRunning
  <2>4. CASE op["client"] = "load"
    <3>1. CASE Set("client")
      <4>1. Head(todo["client"]).do = "set" BY <3>1 DEF Set, At, Next1
      <4>2. \/ \E n \in Names : todo["client"] = loadConfig(n)
            \/ todo["client"] = <<set("flag", TRUE), Simple("threadStart")>>
        <5>1. todo["client"] # <<Simple("threadStart")>>
          BY <4>1, Head1, SimpleKind
        <5> QED BY <1>3, <1>6, <2>4, <5>1 DEF AloneInv, ClientDoes, LoadPlace
      <4>3. \A f, v : set(f, v).f = f /\ set(f, v).v = v BY DEF set, Do
      <4>4. iface' = [iface EXCEPT ![Head(todo["client"]).f] = Head(todo["client"]).v]
        BY <3>1 DEF Set, Next1
      <4>5. CASE \E n \in Names : todo["client"] = loadConfig(n)
        <5>1. PICK n \in Names : todo["client"] = loadConfig(n) BY <4>5
        <5>2. Head(todo["client"]) = set("name", n) BY <5>1, LoadHead
        <5>3. Head(todo["client"]).f = "name" BY <5>2, <4>3
        <5>4. iface'.flag = iface.flag BY <4>4, <5>3
        <5> QED BY <5>4
      <4>6. CASE todo["client"] = <<set("flag", TRUE), Simple("threadStart")>>
        <5>1. Head(todo["client"]) = set("flag", TRUE) BY <4>6, Head2
        <5>2. Head(todo["client"]).f = "flag" /\ Head(todo["client"]).v = TRUE
          BY <5>1, <4>3
        <5>3. "flag" \in DOMAIN iface BY <1>0 DEF IfaceMembers
        <5>4. iface'.flag = TRUE BY <4>4, <5>2, <5>3
        <5> QED BY <5>4
      <4> QED BY <4>2, <4>5, <4>6
    <3>2. CASE ~Set("client")
      <4>1. todo["client"] # <<>> /\ LoadPlace BY <1>3, <1>6, <2>4 DEF AloneInv, ClientDoes
      <4>2. Head(todo["client"]).do \in {"set", "threadStart"} BY <4>1, LoadKinds
      <4>3. ThreadStart("client") BY <1>2, <1>6, <3>2, <4>2, WhichIfaceStep
      <4> QED BY <1>1, <4>3 DEF ThreadStart
    <3> QED BY <3>1, <3>2
  <2> QED BY <1>3, <1>6, <2>1, <2>2, <2>3, <2>4 DEF AloneInv, ClientDoes
<1>7. CASE p = "config"
  <2>0. Working BY <1>2, <1>7 DEF Working
  <2>1. CASE todo["config"] \in GivingUp
    <3>1. Aside BY <1>0, <2>0, <2>1, ThreadGivesUp
    <3> QED BY <1>1, <3>1 DEF Aside, extra
  <2>2. CASE todo["config"] = Rest(20)
    BY <1>0, <1>1, <2>0, <2>2, ThreadJoins
  <2>3. ASSUME NEW k \in 1 .. 18, todo["config"] = Rest(k), Known(k) PROVE FALSE
    <3>1. Works BY <1>0, <2>0, <2>3, ThreadWorks
    <3> QED BY <3>1 DEF Works
  <2>4. CASE todo["config"] = Rest(19) /\ Known(19)
    BY <2>4 DEF Known
  <2>5. \A k \in 1 .. 19 : k \in 1 .. 18 \/ k = 19 OBVIOUS
  <2> QED BY <1>3, <1>7, <2>1, <2>2, <2>3, <2>4, <2>5 DEF AloneInv, ConfigPlace
<1> QED BY <1>4, <1>5, <1>6, <1>7

\* A configuration that succeeds gives back the exposure time and the number of
\* frames it found, as far as their form when saved allows: the time is not
\* longer and one step short at most, the board's number of frames is the one it
\* had, and m_nb_frame is that number read as getNbFrames reads it.
THEOREM GivesBack ==
  ASSUME Waits
  PROVE  IfaceSpec => ParamsRestored
<1> DEFINE Inv2 == AloneInv /\ Measured
           Back == /\ board.et <= before.et
                   /\ before.et - board.et <= Unit(Scale(2 * before.et))
                   /\ board.nb = IF before.nb = 0 THEN 1 ELSE before.nb
                   /\ cam.nb = getNbFrames(board.nb)
<1>1. IfaceInit => Inv2 BY AloneInit, MeasuredInit
<1>2. Inv2 /\ [IfaceNext]_allVars => Inv2' BY AloneStep, MeasuredNext
<1>3. ASSUME Inv2, [IfaceNext]_allVars PROVE [iface.flag /\ ~iface'.flag => Back]_allVars
  <2> SUFFICES ASSUME iface.flag, ~iface'.flag PROVE Back
    OBVIOUS
  <2>1. /\ board.et = Held(before.et) /\ cam.nb = Saved(before.nb)
        /\ board.nb = Saved(before.nb) % (2 * Half)
    BY <1>3, FlagLowered
  <2>2. PICK t \in Times, n \in Words : t = before.et /\ n = before.nb BY <1>3 DEF Measured
  <2>3. Held(t) \in 0 .. t /\ t - Held(t) <= Unit(Scale(2 * t)) BY HeldClose
  <2>4. /\ Saved(n) % (2 * Half) = IF n = 0 THEN 1 ELSE n
        /\ Saved(n) = getNbFrames(Saved(n) % (2 * Half))
    BY SavedWord
  <2> QED BY <2>1, <2>2, <2>3, <2>4 DEF Times
<1>4. Inv2 /\ [IfaceNext]_allVars => [iface.flag /\ ~iface'.flag => Back]_allVars
  BY <1>3
<1> QED BY <1>1, <1>2, <1>4, PTL DEF IfaceSpec, ParamsRestored
=============================================================================
