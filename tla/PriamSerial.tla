---------------------------- MODULE PriamSerial -----------------------------
(***************************************************************************)
(* PriamSerial: the command/answer protocol between the computer and the   *)
(* Priam readout board over the Espia serial line, used by several threads *)
(* (the application, the reconfiguration thread, the Espia acquisition     *)
(* callback).  A thread's call locks m_mutex (all methods but writeMatrix),*)
(* writes the command, then reads the echoed code, the payload and the end *)
(* character, each with a time-out, throwing on the first surprise.        *)
(*                                                                         *)
(* The line and the board are external.  Characters travel on tx (written, *)
(* not yet consumed by the board), wire (answered, not yet received) and   *)
(* rx (received, not yet read; the only part flush() empties).  A character*)
(* carries in "by" the call it belongs to: a ghost the code never sees.    *)
(***************************************************************************)
EXTENDS PriamCodes

CONSTANTS Threads,     \* the threads that use the PriamSerial object
          NoThread,    \* the value of a free mutex
          Calls,       \* the calls they make (records built in PriamCodes)
          MaxCalls,    \* bound: calls a thread makes
          MaxLate,     \* bound: time-outs that fire while an answer is due
          PowerUp      \* what each cell of the board holds at power-up

CallType == [code: Nat, args: Seq(Nat), rsize: Nat,
             lock: BOOLEAN, sized: BOOLEAN, valid: BOOLEAN,
             echo: Int, listed: BOOLEAN, along: BOOLEAN]

\* Read and write codes of a register differ by 0x80: one cell per register.
Cell(code) == code % 128
Cells      == {Cell(c.code) : c \in Calls}

ASSUME ThreadAssumption == NoThread \notin Threads
ASSUME CallAssumption   == Calls \subseteq CallType
ASSUME BoundAssumption  == MaxCalls \in Nat /\ MaxLate \in Nat
ASSUME BoardAssumption  == PowerUp \in [Cells -> Seq(Nat)]

\* What is assumed of calls that all take the mutex: they are none of those
\* of a LUT, a command character is no status character and comes with one
\* length, and a register that is read holds as many characters as are
\* written to and read from it.
ValidCalls == {c \in Calls : c.valid}
Matched ==
  /\ \A c \in Calls : c.lock
  /\ \A c \in ValidCalls : c.listed /\ c.echo = c.code /\ ~c.along
  /\ \A c \in ValidCalls : c.code \notin {SERIAL_ERR, SERIAL_BAD, SERIAL_END}
  /\ \A c, d \in ValidCalls :
       /\ c.code = d.code => Len(c.args) = Len(d.args) /\ c.rsize = d.rsize
       /\ Cell(c.code) = Cell(d.code) /\ c.rsize = 0 /\ d.rsize > 0 =>
            Len(c.args) = d.rsize
  /\ \A d \in ValidCalls : d.rsize > 0 => Len(PowerUp[Cell(d.code)]) = d.rsize

VARIABLES mutex,  \* m_mutex: its owner, or NoThread
          pc,     \* where each thread is in its call
          call,   \* the call each thread is making, or NoCall
          seq,    \* how many calls each thread has begun
          got,    \* the answer characters the call has read
          res,    \* how the call ended: "ok" or the exception it threw
          tx, wire, rx,  \* the line
          mem,    \* the board's registers: cell -> characters stored
          due,    \* ghost: what the board answered to each thread's call
          late    \* ghost: time-outs that fired while an answer was due

thread == <<mutex, pc, call, seq, got, res>>
line   == <<tx, wire, rx>>
vars   == <<thread, line, mem, due, late>>

NoCall == Call(0, <<>>, 0, FALSE, FALSE, FALSE)
Char   == [ch: Nat, by: Threads \X Nat \X Nat]

PCs     == {"idle", "lock", "code", "args", "answer", "data", "end", "unlock"}
Results == {"none", "ok", "no_answer", "error", "bad", "wrong_code",
            "out_of_range", "no_end", "wrong_size"}

\* The threads between the first character written and the last one read.
InTransfer(t) == pc[t] \in {"code", "args", "answer", "data", "end"}

Tag(t)          == <<t, seq[t], call[t].code>>
Chars(chs, tag) == [i \in DOMAIN chs |-> [ch |-> chs[i], by |-> tag]]
Codes(chars)    == [i \in DOMAIN chars |-> chars[i].ch]
Drop(s, n)      == SubSeq(s, n + 1, Len(s))

(***************************************************************************)
(* The board.  It knows how many argument characters follow each code of   *)
(* the tables and answers a command it does not know with SERIAL_BAD.      *)
(***************************************************************************)
Commands     == {c \in Calls : c.valid /\ c.listed}
Known(code)  == \E c \in Commands : c.code = code
Model(code)  == CHOOSE c \in Commands : c.code = code
NbArgs(code) == IF Known(code) THEN Len(Model(code).args) ELSE 0

Complete == tx # <<>> /\ Len(tx) > NbArgs(tx[1].ch)
\* Nothing is on its way to the computer, and nothing will be.
Silent   == wire = <<>> /\ ~Complete

Init ==
  /\ mutex = NoThread
  /\ pc   = [t \in Threads |-> "idle"]
  /\ call = [t \in Threads |-> NoCall]
  /\ seq  = [t \in Threads |-> 0]
  /\ got  = [t \in Threads |-> <<>>]
  /\ res  = [t \in Threads |-> "none"]
  /\ tx = <<>> /\ wire = <<>> /\ rx = <<>>   \* the constructor flushes the line
  /\ mem  = PowerUp
  /\ due  = [t \in Threads |-> <<>>]
  /\ late = 0

\* A method is entered.  Its argument checks throw before any I/O: a call
\* that is not valid changes nothing.
Enter(t, c) ==
  /\ pc[t] = "idle" /\ seq[t] < MaxCalls /\ c.valid
  /\ call' = [call EXCEPT ![t] = c]
  /\ seq'  = [seq EXCEPT ![t] = @ + 1]
  /\ pc'   = [pc EXCEPT ![t] = IF c.lock THEN "lock" ELSE "code"]
  /\ UNCHANGED <<mutex, got, res, line, mem, due, late>>

Lock(t) ==
  /\ pc[t] = "lock" /\ mutex = NoThread
  /\ mutex' = t
  /\ pc' = [pc EXCEPT ![t] = "code"]
  /\ UNCHANGED <<call, seq, got, res, line, mem, due, late>>

\* What a call sends in its first write, and in its second one.
First(c) == IF c.along /\ c.args # <<>> THEN <<c.code, c.args[1]>> ELSE <<c.code>>
Rest(c)  == IF c.along /\ c.args # <<>> THEN Tail(c.args) ELSE c.args

\* _writeCommand: the code, then the arguments in a second write.
WriteCode(t) ==
  /\ pc[t] = "code"
  /\ tx' = tx \o Chars(First(call[t]), Tag(t))
  /\ pc' = [pc EXCEPT ![t] = IF Rest(call[t]) = <<>> THEN "answer" ELSE "args"]
  /\ UNCHANGED <<mutex, call, seq, got, res, wire, rx, mem, due, late>>

WriteArgs(t) ==
  /\ pc[t] = "args"
  /\ tx' = tx \o Chars(Rest(call[t]), Tag(t))
  /\ pc' = [pc EXCEPT ![t] = "answer"]
  /\ UNCHANGED <<mutex, call, seq, got, res, wire, rx, mem, due, late>>

\* Mutant: no answer, so read again, without sending the command again.
FinishRetry(t, r) ==
  /\ res' = [res EXCEPT ![t] = r]
  /\ pc'  = [pc EXCEPT ![t] = IF r = "no_answer" THEN "answer" ELSE "unlock"]

\* Mutant: the mutex is unlocked by hand, on the normal path only.
FinishThrow(t, r) ==
  /\ res' = [res EXCEPT ![t] = r]
  /\ pc'  = [pc EXCEPT ![t] = IF r = "ok" THEN "unlock" ELSE "idle"]

\* Mutant: a refusal is logged, not thrown.
FinishRefused(t, r) ==
  /\ res' = [res EXCEPT ![t] = IF r = "error" THEN "ok" ELSE r]
  /\ pc'  = [pc EXCEPT ![t] = "unlock"]

\* The call of t ends with result r; AutoMutex unlocks on every way out.
Finish(t, r) ==
  /\ res' = [res EXCEPT ![t] = r]
  /\ pc'  = [pc EXCEPT ![t] = "unlock"]

\* A read of n characters times out.  It may do so although the answer is
\* on its way: at most MaxLate times.
TimesOut(n) ==
  /\ Len(rx) < n
  /\ \/ Silent  /\ late' = late
     \/ ~Silent /\ late < MaxLate /\ late' = late + 1

FirstChar(t) ==
  /\ rx # <<>>
  /\ got' = [got EXCEPT ![t] = <<rx[1]>>]

\* Mutant: any character but an error status passes for the code.
AcceptsAny(t, ch) == ch \notin {SERIAL_ERR, SERIAL_BAD}

Accepts(t, ch) == ch = call[t].echo

\* Mutant: an exception of its own for each unexpected character.
RefusalOther(ch) == CASE ch = SERIAL_ERR -> "error"
                      [] ch = SERIAL_BAD -> "bad"
                      [] ch = SERIAL_END -> "early_end"
                      [] OTHER -> "wrong_code"

Refusal(ch) == CASE ch = SERIAL_ERR -> "error"
                 [] ch = SERIAL_BAD -> "bad"
                 [] OTHER -> "wrong_code"

\* _readAnswer: the first character must be the code that was sent.
ReadCode(t) ==
  /\ pc[t] = "answer"
  /\ \/ /\ FirstChar(t)
        /\ IF Accepts(t, rx[1].ch)
             THEN /\ rx' = Tail(rx)
                  /\ pc' = [pc EXCEPT ![t] = IF call[t].rsize > 0 THEN "data" ELSE "end"]
                  /\ res' = res
             ELSE /\ rx' = <<>>      \* flush()
                  /\ Finish(t, Refusal(rx[1].ch))
        /\ late' = late
     \/ /\ TimesOut(1)               \* no flush on this path
        /\ Finish(t, "no_answer")
        /\ UNCHANGED <<rx, got>>
  /\ UNCHANGED <<mutex, call, seq, tx, wire, mem, due>>

\* The payload: what arrived before the time-out is kept.
ReadData(t) ==
  /\ pc[t] = "data"
  /\ LET n == IF Len(rx) < call[t].rsize THEN Len(rx) ELSE call[t].rsize IN
       /\ \/ n = call[t].rsize /\ late' = late
          \/ TimesOut(call[t].rsize)
       /\ got' = [got EXCEPT ![t] = @ \o SubSeq(rx, 1, n)]
       /\ rx'  = Drop(rx, n)
  /\ pc' = [pc EXCEPT ![t] = "end"]
  /\ UNCHANGED <<mutex, call, seq, res, tx, wire, mem, due>>

\* The end character; sret.at(0) throws when nothing came.  readRegister
\* then checks how much payload it got.
ReadEnd(t) ==
  /\ pc[t] = "end"
  /\ \/ /\ rx # <<>>
        /\ IF rx[1].ch = SERIAL_END
             THEN /\ rx' = Tail(rx)
                  /\ got' = [got EXCEPT ![t] = Append(@, rx[1])]
                  /\ Finish(t, IF call[t].sized /\ Len(got[t]) # call[t].rsize + 1
                                 THEN "wrong_size" ELSE "ok")
             ELSE /\ rx' = <<>>      \* flush()
                  /\ Finish(t, "no_end")
                  /\ got' = got
        /\ late' = late
     \/ /\ TimesOut(1)               \* no flush on this path either
        /\ Finish(t, "out_of_range")
        /\ UNCHANGED <<rx, got>>
  /\ UNCHANGED <<mutex, call, seq, tx, wire, mem, due>>

\* The call returns, or its exception leaves it.
Unlock(t) ==
  /\ pc[t] = "unlock"
  /\ mutex' = IF call[t].lock THEN NoThread ELSE mutex
  /\ pc'   = [pc   EXCEPT ![t] = "idle"]
  /\ call' = [call EXCEPT ![t] = NoCall]
  /\ got'  = [got  EXCEPT ![t] = <<>>]
  /\ res'  = [res  EXCEPT ![t] = "none"]
  /\ due'  = [due  EXCEPT ![t] = <<>>]
  /\ UNCHANGED <<seq, line, mem, late>>

\* The board takes one complete command and answers it.  It may refuse it
\* (SERIAL_ERR) or, detector unplugged, not take it; and the answer to a
\* write it has carried out may be lost.
BoardAnswers ==
  /\ Complete
  /\ LET code == tx[1].ch
         n    == NbArgs(code)
         tag  == tx[1].by
         args == Codes(SubSeq(tx, 2, n + 1))
         lost(chs) == /\ wire' = wire
                      /\ due'  = IF tag = Tag(tag[1])
                                   THEN [due EXCEPT ![tag[1]] = chs] ELSE due
         said(chs) == /\ wire' = wire \o Chars(chs, tag)
                      /\ due'  = IF tag = Tag(tag[1])
                                   THEN [due EXCEPT ![tag[1]] = chs] ELSE due
     IN /\ tx' = Drop(tx, n + 1)
        /\ \/ Known(code) /\ IF Model(code).rsize = 0
                THEN mem' = [mem EXCEPT ![Cell(code)] = args]
                     /\ (said(<<code, SERIAL_END>>) \/ lost(<<code, SERIAL_END>>))
                ELSE mem' = mem
                     /\ said(<<code>> \o mem[Cell(code)] \o <<SERIAL_END>>)
           \/ said(IF Known(code) THEN <<SERIAL_ERR>> ELSE <<SERIAL_BAD>>) /\ mem' = mem
           \/ UNCHANGED <<wire, due, mem>>
  /\ UNCHANGED <<thread, rx, late>>

Receive ==
  /\ wire # <<>>
  /\ rx' = Append(rx, wire[1])
  /\ wire' = Tail(wire)
  /\ UNCHANGED <<thread, tx, mem, due, late>>

Step(t) == \/ Lock(t) \/ WriteCode(t) \/ WriteArgs(t) \/ ReadCode(t)
           \/ ReadData(t) \/ ReadEnd(t) \/ Unlock(t)

\* Every thread has made its MaxCalls calls: the end of a bounded history.
Finished ==
  /\ \A t \in Threads : pc[t] = "idle" /\ seq[t] = MaxCalls
  /\ Silent
  /\ UNCHANGED vars

Next == \/ \E t \in Threads : Step(t) \/ \E c \in Calls : Enter(t, c)
        \/ BoardAnswers
        \/ Receive
        \/ Finished

(***************************************************************************)
(* A thread inside a call keeps running and its reads time out; the board  *)
(* consumes what it is sent and the line delivers.  A waiter gets the mutex*)
(* if it is free again and again.  Nobody has to enter a method.           *)
(***************************************************************************)
Fairness ==
  /\ \A t \in Threads : WF_vars(Step(t)) /\ SF_vars(Lock(t))
  /\ WF_vars(BoardAnswers) /\ WF_vars(Receive)

Spec     == Init /\ [][Next]_vars
FairSpec == Spec /\ Fairness

-----------------------------------------------------------------------------
TypeOK ==
  /\ mutex \in Threads \cup {NoThread}
  /\ pc   \in [Threads -> PCs]
  /\ call \in [Threads -> CallType]
  /\ seq  \in [Threads -> Nat]
  /\ got  \in [Threads -> Seq(Char)]
  /\ res  \in [Threads -> Results]
  /\ tx \in Seq(Char) /\ wire \in Seq(Char) /\ rx \in Seq(Char)
  /\ mem  \in [Cells -> Seq(Nat)]
  /\ due  \in [Threads -> Seq(Nat)]
  /\ late \in 0..MaxLate

\* Two calls that both take the mutex are never on the line together, and
\* the mutex is held exactly by the one that is: no path of a call, normal
\* or throwing, leaves it locked or releases it early.
MutualExclusion ==
  \A t \in Threads :
    (mutex = t) <=> (call[t].lock /\ (InTransfer(t) \/ pc[t] = "unlock"))

\* Every serial access is made under the lock, as the comment on each
\* access says ("Lock here the serial write/read acess to the priam to
\* avoid deadlock due to concurrent access"): one transfer at a time.
AccessIsLocked ==
  \A t, u \in Threads : InTransfer(t) /\ InTransfer(u) => t = u

OnLine == {tx[i] : i \in DOMAIN tx} \cup {wire[i] : i \in DOMAIN wire}
            \cup {rx[i] : i \in DOMAIN rx}

\* Until a time-out fires while an answer is on its way, the line is in
\* step: every character on it belongs to the call of the mutex holder, so
\* nothing a call leaves behind, whatever exception it threw, can reach the
\* next one although three of the throwing paths do not flush.
LineInStep ==
  late = 0 => \A x \in OnLine : mutex # NoThread /\ x.by = Tag(mutex)

\* ... and a call that returns normally has read exactly the answer the
\* board gave to it, a register write is acknowledged only once the board
\* holds the written value, and the only exceptions are the board's silence
\* or refusal.
AnswerIsOwn ==
  \A t \in Threads : late = 0 /\ pc[t] = "unlock" =>
    /\ res[t] \in {"ok", "no_answer", "error"}
    /\ res[t] = "ok" => /\ Codes(got[t]) = due[t]
                        /\ call[t].rsize = 0 => mem[Cell(call[t].code)] = call[t].args

\* With late answers a read may return an older answer, but readRegister
\* never takes another register's character for the one it asked: the code,
\* the end and their distance discard every misplaced answer, however many
\* come late.  Only the inside of a longer answer (the chip number after an
\* FSR, a LUT, a one-wire transfer) can pass for the answer to it.
NoForeignData ==
  \A t \in Threads : res[t] = "ok" /\ call[t].sized /\ call[t].rsize = 1 =>
    \A i \in 2 .. Len(got[t]) - 1 :
      \/ got[t][i].by[3] = call[t].code
      \/ \E c \in ValidCalls : c.code = got[t][i].by[3] /\ c.rsize > 1

(***************************************************************************)
(* The calls that lock implement PriamService.                             *)
(***************************************************************************)
\* The characters between the code and the end.
Payload(chs) == SubSeq(chs, 2, Len(chs) - 1)

Service == INSTANCE PriamService WITH
  served <- [t \in Threads |-> IF Len(due[t]) < 2 THEN {} ELSE {Payload(due[t])}],
  reply  <- [t \in Threads |->
               [how   |-> IF pc[t] # "unlock" THEN "none"
                          ELSE IF res[t] = "ok" THEN "value" ELSE "exception",
                value |-> IF pc[t] = "unlock" /\ res[t] = "ok"
                          THEN Payload(Codes(got[t])) ELSE <<>>]],
  late   <- late > 0

\* A call is served between its beginning and its end, exactly once if it
\* returns, at most once if it throws, as long as no answer comes too late;
\* and no register ever holds anything but what a call writes, however the
\* calls, late answers and refusals of the threads follow one another.
ServiceImplemented == Service!Spec

\* Every call returns, whatever the board answers or fails to answer and
\* whatever the other threads do, and so gives the mutex back.
CallsReturn ==
  \A t \in Threads : (pc[t] # "idle") ~> (pc[t] = "idle")
=============================================================================
