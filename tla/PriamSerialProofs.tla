------------------------- MODULE PriamSerialProofs --------------------------
(***************************************************************************)
(* Proofs about PriamSerial, for any threads, calls and bounds: the types, *)
(* that the methods that take m_mutex never overlap on the line and give   *)
(* it back on every path, and that as long as no answer comes too late     *)
(* nothing a call leaves on the line reaches the next one, and a call that *)
(* returns returns the answer it was given: the line is then the service of*)
(* PriamService.  Even afterwards no caller takes another register's       *)
(* character for the one it asked.  The last four hold of calls that all   *)
(* take the mutex, send their code alone and use each command with one     *)
(* length (Matched): all methods but writeMatrix and those of a LUT.       *)
(***************************************************************************)
EXTENDS PriamSerial, SequenceTheorems, TLAPS

\* A tag names a thread, one of its calls and that call's code.
LEMMA TagType ==
  ASSUME TypeOK, NEW t \in Threads
  PROVE  Tag(t) \in Threads \X Nat \X Nat
BY DEF TypeOK, Tag, CallType

\* How sequences are built, in the form the provers use.
LEMMA FunctionIsSeq ==
  ASSUME NEW S, NEW n \in Nat, NEW f \in [1 .. n -> S]
  PROVE  f \in Seq(S)
<1>1. Seq(S) = UNION {[1 .. m -> S] : m \in Nat}
  BY SeqDef
<1> QED
  BY <1>1

\* Tagging characters yields line characters.
LEMMA CharsType ==
  ASSUME NEW chs \in Seq(Nat), NEW tag \in Threads \X Nat \X Nat
  PROVE  Chars(chs, tag) \in Seq(Char)
<1>1. chs \in [1 .. Len(chs) -> Nat] /\ Len(chs) \in Nat
  OBVIOUS
<1>2. DOMAIN chs = 1 .. Len(chs)
  OBVIOUS
<1>3. \A i \in 1 .. Len(chs) : [ch |-> chs[i], by |-> tag] \in Char
  BY <1>1 DEF Char
<1>4. Chars(chs, tag) \in [1 .. Len(chs) -> Char]
  BY <1>2, <1>3 DEF Chars
<1> QED
  BY <1>1, <1>4, FunctionIsSeq

\* Removing the tags yields plain characters.
LEMMA CodesType ==
  ASSUME NEW chars \in Seq(Char)
  PROVE  Codes(chars) \in Seq(Nat)
<1>1. chars \in [1 .. Len(chars) -> Char] /\ Len(chars) \in Nat
  OBVIOUS
<1>2. DOMAIN chars = 1 .. Len(chars)
  OBVIOUS
<1>3. \A i \in 1 .. Len(chars) : chars[i].ch \in Nat
  BY <1>1 DEF Char
<1>4. Codes(chars) \in [1 .. Len(chars) -> Nat]
  BY <1>2, <1>3 DEF Codes
<1> QED
  BY <1>1, <1>4, FunctionIsSeq

\* Dropping a prefix leaves a sequence over the same set.
LEMMA DropType ==
  ASSUME NEW S, NEW s \in Seq(S), NEW n \in Nat
  PROVE  Drop(s, n) \in Seq(S)
BY DEF Drop

\* A call made, or none, is a record of the right fields.
LEMMA CallsType == NoCall \in CallType /\ \A c \in Calls : c \in CallType
BY CallAssumption DEF NoCall, Call, CallType

\* The state at power-up is well typed.
LEMMA InitType == Init => TypeOK
<1> SUFFICES ASSUME Init PROVE TypeOK
  OBVIOUS
<1>1. call \in [Threads -> CallType]
  BY CallsType DEF Init
<1>2. mem \in [Cells -> Seq(Nat)]
  BY BoardAssumption DEF Init
<1> QED
  BY <1>1, <1>2, BoundAssumption DEF Init, TypeOK, PCs, Results

-----------------------------------------------------------------------------
(* The parts of a step that several actions share. *)

\* The late answers are counted up to their bound.
LEMMA TimesOutType ==
  ASSUME TypeOK, NEW n, TimesOut(n)
  PROVE  late' \in 0 .. MaxLate
BY BoundAssumption DEF TypeOK, TimesOut

\* A read of one character times out only when there is none.
LEMMA TimesOutEmpty ==
  ASSUME TypeOK, TimesOut(1)
  PROVE  rx = <<>>
BY DEF TypeOK, TimesOut

\* A refusal is one of the exceptions.
LEMMA RefusalType == \A ch : Refusal(ch) \in Results
BY DEF Refusal, Results

\* A call that ends goes to its unlock with a result.
LEMMA FinishType ==
  ASSUME TypeOK, NEW t \in Threads, NEW r \in Results, Finish(t, r)
  PROVE  /\ res' \in [Threads -> Results]
         /\ pc' \in [Threads -> PCs]
BY DEF TypeOK, Finish, PCs

\* What is received begins with a character and goes on with others.
LEMMA HeadType ==
  ASSUME TypeOK, rx # <<>>
  PROVE  /\ rx[1] \in Char
         /\ Tail(rx) \in Seq(Char)
BY DEF TypeOK

-----------------------------------------------------------------------------
\* One lemma per action that changes the types of several variables.
LEMMA EnterType ==
  ASSUME TypeOK, NEW t \in Threads, NEW c \in Calls, Enter(t, c)
  PROVE  TypeOK'
<1>1. c \in CallType
  BY CallsType
<1>2. call' \in [Threads -> CallType] /\ seq' \in [Threads -> Nat]
  BY <1>1 DEF TypeOK, Enter
<1>3. pc' \in [Threads -> PCs]
  BY DEF TypeOK, Enter, PCs
<1> QED
  BY <1>2, <1>3 DEF TypeOK, Enter, line

\* ... _writeCommand
LEMMA WriteType ==
  ASSUME TypeOK, NEW t \in Threads, WriteCode(t) \/ WriteArgs(t)
  PROVE  TypeOK'
<1>1. call[t].code \in Nat /\ call[t].args \in Seq(Nat)
  BY DEF TypeOK, CallType
<1>2. /\ Chars(First(call[t]), Tag(t)) \in Seq(Char)
      /\ Chars(Rest(call[t]), Tag(t)) \in Seq(Char)
  <2>1. Tag(t) \in Threads \X Nat \X Nat
    BY TagType
  <2>2. First(call[t]) \in Seq(Nat) /\ Rest(call[t]) \in Seq(Nat)
    BY <1>1 DEF First, Rest
  <2> QED
    BY <2>1, <2>2, CharsType
<1>3. PICK cs \in Seq(Char) : tx' = tx \o cs
  BY <1>2 DEF WriteCode, WriteArgs
<1>4. tx' \in Seq(Char)
  BY <1>3 DEF TypeOK
<1>5. pc' \in [Threads -> PCs]
  BY DEF TypeOK, WriteCode, WriteArgs, PCs
<1> QED
  BY <1>4, <1>5 DEF TypeOK, WriteCode, WriteArgs

\* ... _readAnswer, the code
LEMMA ReadCodeType ==
  ASSUME TypeOK, NEW t \in Threads, ReadCode(t)
  PROVE  TypeOK'
<1>0. UNCHANGED <<mutex, call, seq, tx, wire, mem, due>>
  BY DEF ReadCode
<1>1. CASE FirstChar(t) /\ late' = late /\ rx # <<>>
  <2>1. got' \in [Threads -> Seq(Char)]
    BY <1>1, HeadType DEF TypeOK, FirstChar
  <2>2. CASE Accepts(t, rx[1].ch)
    <3>1. rx' = Tail(rx) /\ res' = res
          /\ pc' = [pc EXCEPT ![t] = IF call[t].rsize > 0 THEN "data" ELSE "end"]
      BY <1>1, <2>2, TimesOutEmpty DEF ReadCode
    <3>2. rx' \in Seq(Char) /\ pc' \in [Threads -> PCs]
      BY <1>1, <3>1, HeadType DEF TypeOK, PCs
    <3> QED
      BY <1>0, <1>1, <2>1, <3>1, <3>2 DEF TypeOK
  <2>3. CASE ~Accepts(t, rx[1].ch)
    <3>1. rx' = <<>> /\ Finish(t, Refusal(rx[1].ch))
      BY <1>1, <2>3, TimesOutEmpty DEF ReadCode
    <3>2. res' \in [Threads -> Results] /\ pc' \in [Threads -> PCs]
      BY <3>1, RefusalType, FinishType
    <3> QED
      BY <1>0, <1>1, <2>1, <3>1, <3>2 DEF TypeOK
  <2> QED
    BY <2>2, <2>3
<1>2. CASE TimesOut(1) /\ Finish(t, "no_answer") /\ UNCHANGED <<rx, got>>
  <2>1. res' \in [Threads -> Results] /\ pc' \in [Threads -> PCs]
    BY <1>2, FinishType DEF Results
  <2> QED
    BY <1>2, <2>1, TimesOutType DEF TypeOK, ReadCode
<1> QED
  BY <1>1, <1>2 DEF ReadCode, FirstChar

\* ... the payload
LEMMA ReadDataType ==
  ASSUME TypeOK, NEW t \in Threads, ReadData(t)
  PROVE  TypeOK'
<1> DEFINE n == IF Len(rx) < call[t].rsize THEN Len(rx) ELSE call[t].rsize
<1>1. n \in Nat /\ n <= Len(rx) /\ rx \in Seq(Char)
  BY DEF TypeOK, CallType
<1>2. SubSeq(rx, 1, n) \in Seq(Char) /\ Drop(rx, n) \in Seq(Char)
  BY <1>1, DropType
<1>3. got' = [got EXCEPT ![t] = @ \o SubSeq(rx, 1, n)] /\ rx' = Drop(rx, n)
  BY DEF ReadData
<1>4. got' \in [Threads -> Seq(Char)] /\ rx' \in Seq(Char)
  BY <1>2, <1>3 DEF TypeOK
<1>5. late' \in 0 .. MaxLate
  BY TimesOutType DEF TypeOK, ReadData
<1>6. pc' \in [Threads -> PCs]
  BY DEF TypeOK, ReadData, PCs
<1> QED
  BY <1>4, <1>5, <1>6 DEF TypeOK, ReadData

\* ... the end
LEMMA ReadEndType ==
  ASSUME TypeOK, NEW t \in Threads, ReadEnd(t)
  PROVE  TypeOK'
<1>1. CASE rx # <<>> /\ late' = late /\ rx[1].ch = SERIAL_END
  <2>1. rx' = Tail(rx) /\ got' = [got EXCEPT ![t] = Append(@, rx[1])]
        /\ \E r \in Results : Finish(t, r)
    BY <1>1, TimesOutEmpty DEF ReadEnd, Results
  <2>2. rx' \in Seq(Char) /\ got' \in [Threads -> Seq(Char)]
    BY <1>1, <2>1, HeadType DEF TypeOK
  <2>3. res' \in [Threads -> Results] /\ pc' \in [Threads -> PCs]
    BY <2>1, FinishType
  <2> QED
    BY <1>1, <2>2, <2>3 DEF TypeOK, ReadEnd
<1>2. CASE rx # <<>> /\ late' = late /\ rx[1].ch # SERIAL_END
  <2>1. rx' = <<>> /\ got' = got /\ Finish(t, "no_end")
    BY <1>2, TimesOutEmpty DEF ReadEnd
  <2>2. res' \in [Threads -> Results] /\ pc' \in [Threads -> PCs]
    BY <2>1, FinishType DEF Results
  <2> QED
    BY <1>2, <2>1, <2>2 DEF TypeOK, ReadEnd
<1>3. CASE TimesOut(1) /\ Finish(t, "out_of_range") /\ UNCHANGED <<rx, got>>
  <2>1. res' \in [Threads -> Results] /\ pc' \in [Threads -> PCs]
    BY <1>3, FinishType DEF Results
  <2> QED
    BY <1>3, <2>1, TimesOutType DEF TypeOK, ReadEnd
<1> QED
  BY <1>1, <1>2, <1>3 DEF ReadEnd

\* ... the end of the call
LEMMA UnlockType ==
  ASSUME TypeOK, NEW t \in Threads, Unlock(t)
  PROVE  TypeOK'
<1>1. call' \in [Threads -> CallType]
  BY CallsType DEF TypeOK, Unlock
<1>2. pc' \in [Threads -> PCs] /\ res' \in [Threads -> Results]
  BY DEF TypeOK, Unlock, PCs, Results
<1>3. got' \in [Threads -> Seq(Char)] /\ due' \in [Threads -> Seq(Nat)]
  BY DEF TypeOK, Unlock
<1> QED
  BY <1>1, <1>2, <1>3 DEF TypeOK, Unlock, line

\* What the board knows: the length of a command and the cell it is about.
LEMMA BoardKnows ==
  ASSUME NEW code \in Nat
  PROVE  /\ NbArgs(code) \in Nat
         /\ Known(code) => Cell(code) \in Cells
<1>1. ASSUME Known(code) PROVE Model(code) \in Calls
  BY <1>1 DEF Known, Model, Commands
<1>2. NbArgs(code) \in Nat
  BY <1>1, CallsType DEF NbArgs, CallType
<1>3. Known(code) => Cell(code) \in Cells
  BY DEF Known, Commands, Cells
<1> QED
  BY <1>2, <1>3

\* The board answers with characters and keeps characters.
LEMMA BoardType ==
  ASSUME TypeOK, BoardAnswers
  PROVE  TypeOK'
<1> DEFINE code == tx[1].ch
           n    == NbArgs(code)
           tag  == tx[1].by
           args == Codes(SubSeq(tx, 2, n + 1))
           lost(chs) == /\ wire' = wire
                        /\ due'  = IF tag = Tag(tag[1])
                                     THEN [due EXCEPT ![tag[1]] = chs] ELSE due
           said(chs) == /\ wire' = wire \o Chars(chs, tag)
                        /\ due'  = IF tag = Tag(tag[1])
                                     THEN [due EXCEPT ![tag[1]] = chs] ELSE due
<1>1. tx # <<>> /\ tx \in Seq(Char)
  BY DEF BoardAnswers, Complete, TypeOK
<1>2. tx[1] \in Char
  BY <1>1
<1>3. code \in Nat /\ tag \in Threads \X Nat \X Nat
  BY <1>2 DEF Char
<1>4. n \in Nat
  BY <1>3, BoardKnows
<1>5. n < Len(tx)
  BY DEF BoardAnswers, Complete
<1>6. args \in Seq(Nat)
  <2>1. SubSeq(tx, 2, n + 1) \in Seq(Char)
    BY <1>1, <1>4, <1>5
  <2> QED
    BY <2>1, CodesType
<1>7. Drop(tx, n + 1) \in Seq(Char)
  BY <1>1, <1>4, DropType
<1>8. ASSUME NEW chs \in Seq(Nat), said(chs) \/ lost(chs)
      PROVE  wire' \in Seq(Char) /\ due' \in [Threads -> Seq(Nat)]
  <2>1. Chars(chs, tag) \in Seq(Char)
    BY <1>3, <1>8, CharsType
  <2>2. wire \in Seq(Char) /\ (wire' = wire \/ wire' = wire \o Chars(chs, tag))
    BY <1>8 DEF TypeOK
  <2>3. wire \o Chars(chs, tag) \in Seq(Char)
    BY <2>1, <2>2
  <2>4. due' \in [Threads -> Seq(Nat)]
    BY <1>3, <1>8 DEF TypeOK
  <2> QED
    BY <2>2, <2>3, <2>4
<1>9. tx' = Drop(tx, n + 1) /\ UNCHANGED <<thread, rx, late>>
  BY DEF BoardAnswers
<1>10. CASE Known(code) /\ mem' = [mem EXCEPT ![Cell(code)] = args]
            /\ (said(<<code, SERIAL_END>>) \/ lost(<<code, SERIAL_END>>))
  <2>1. <<code, SERIAL_END>> \in Seq(Nat)
    BY <1>3 DEF SERIAL_END
  <2>2. wire' \in Seq(Char) /\ due' \in [Threads -> Seq(Nat)]
    BY <1>8, <1>10, <2>1
  <2>3. mem' \in [Cells -> Seq(Nat)]
    BY <1>6, <1>10 DEF TypeOK
  <2> QED
    BY <1>7, <1>9, <2>2, <2>3 DEF TypeOK, thread
<1>11. CASE Known(code) /\ mem' = mem
            /\ said(<<code>> \o mem[Cell(code)] \o <<SERIAL_END>>)
  <2>1. Cell(code) \in Cells
    BY <1>3, <1>11, BoardKnows
  <2>2. mem[Cell(code)] \in Seq(Nat)
    BY <2>1 DEF TypeOK
  <2>3. <<code>> \o mem[Cell(code)] \o <<SERIAL_END>> \in Seq(Nat)
    BY <1>3, <2>2 DEF SERIAL_END
  <2>4. wire' \in Seq(Char) /\ due' \in [Threads -> Seq(Nat)]
    BY <1>8, <1>11, <2>3
  <2> QED
    BY <1>7, <1>9, <1>11, <2>4 DEF TypeOK, thread
<1>12. CASE mem' = mem /\ (said(<<SERIAL_ERR>>) \/ said(<<SERIAL_BAD>>))
  <2>1. <<SERIAL_ERR>> \in Seq(Nat) /\ <<SERIAL_BAD>> \in Seq(Nat)
    BY DEF SERIAL_ERR, SERIAL_BAD
  <2>2. wire' \in Seq(Char) /\ due' \in [Threads -> Seq(Nat)]
    BY <1>8, <1>12, <2>1
  <2> QED
    BY <1>7, <1>9, <1>12, <2>2 DEF TypeOK, thread
<1>13. CASE UNCHANGED <<wire, due, mem>>
  BY <1>7, <1>9, <1>13 DEF TypeOK, thread
<1> QED
  BY <1>10, <1>11, <1>12, <1>13 DEF BoardAnswers

\* The line delivers characters.
LEMMA ReceiveType ==
  ASSUME TypeOK, Receive
  PROVE  TypeOK'
<1>1. wire # <<>> /\ wire \in Seq(Char) /\ rx \in Seq(Char)
  BY DEF TypeOK, Receive
<1>2. wire[1] \in Char /\ Tail(wire) \in Seq(Char)
  BY <1>1
<1>3. rx' \in Seq(Char) /\ wire' \in Seq(Char)
  BY <1>1, <1>2 DEF Receive
<1> QED
  BY <1>3 DEF TypeOK, Receive, thread

\* Whatever the threads, the calls and the bounds, the state keeps its types.
THEOREM TypeCorrect == Spec => []TypeOK
<1>1. Init => TypeOK
  BY InitType
<1>2. TypeOK /\ [Next]_vars => TypeOK'
  <2> SUFFICES ASSUME TypeOK, [Next]_vars PROVE TypeOK'
    OBVIOUS
  <2>1. ASSUME NEW t \in Threads, Step(t) PROVE TypeOK'
    <3>1. CASE Lock(t)
      BY <3>1 DEF TypeOK, Lock, PCs, line
    <3> QED
      BY <2>1, <3>1, WriteType, ReadCodeType, ReadDataType, ReadEndType,
         UnlockType DEF Step
  <2>2. ASSUME NEW t \in Threads, NEW c \in Calls, Enter(t, c) PROVE TypeOK'
    BY <2>2, EnterType
  <2>3. CASE UNCHANGED vars
    BY <2>3 DEF TypeOK, vars, thread, line
  <2> QED
    BY <2>1, <2>2, <2>3, BoardType, ReceiveType DEF Next, Finished
<1> QED
  BY <1>1, <1>2, PTL DEF Spec


-----------------------------------------------------------------------------
(***************************************************************************)
(* Mutual exclusion.  The invariant adds to MutualExclusion what Lock and  *)
(* the transfer steps rely on: only a call that locks waits for the mutex, *)
(* and a thread that is not idle is making one of Calls.                   *)
(***************************************************************************)
MutexInv ==
  /\ MutualExclusion
  /\ \A t \in Threads : pc[t] = "lock" => call[t].lock
  /\ \A t \in Threads : pc[t] # "idle" => call[t] \in Calls

\* A transfer step of t keeps t in its critical section.
LEMMA TransferKeeps ==
  ASSUME TypeOK, MutexInv, NEW t \in Threads,
         InTransfer(t),
         NEW to \in {"args", "answer", "data", "end", "unlock"},
         pc' = [pc EXCEPT ![t] = to],
         UNCHANGED <<mutex, call>>
  PROVE  MutexInv'
BY DEF TypeOK, MutexInv, MutualExclusion, InTransfer

\* MutexInv is inductive: one step per action.
LEMMA MutexStep ==
  ASSUME TypeOK, MutexInv, [Next]_vars
  PROVE  MutexInv'
<1>1. ASSUME NEW t \in Threads, NEW c \in Calls, Enter(t, c) PROVE MutexInv'
  BY <1>1, ThreadAssumption
  DEF TypeOK, MutexInv, MutualExclusion, InTransfer, Enter
<1>2. ASSUME NEW t \in Threads, Lock(t) PROVE MutexInv'
  BY <1>2, ThreadAssumption
  DEF TypeOK, MutexInv, MutualExclusion, InTransfer, Lock
<1>3. ASSUME NEW t \in Threads, WriteCode(t) \/ WriteArgs(t) PROVE MutexInv'
  <2>1. InTransfer(t) /\ UNCHANGED <<mutex, call>>
    BY <1>3 DEF WriteCode, WriteArgs, InTransfer
  <2>2. \E to \in {"args", "answer"} : pc' = [pc EXCEPT ![t] = to]
    BY <1>3 DEF WriteCode, WriteArgs
  <2> QED
    BY <2>1, <2>2, TransferKeeps
<1>4. ASSUME NEW t \in Threads, ReadCode(t) PROVE MutexInv'
  <2>1. InTransfer(t) /\ UNCHANGED <<mutex, call>>
    BY <1>4 DEF ReadCode, InTransfer
  <2>2. \E to \in {"data", "end", "unlock"} : pc' = [pc EXCEPT ![t] = to]
    BY <1>4 DEF ReadCode, Finish
  <2> QED
    BY <2>1, <2>2, TransferKeeps
<1>5. ASSUME NEW t \in Threads, ReadData(t) PROVE MutexInv'
  <2>1. /\ InTransfer(t) /\ UNCHANGED <<mutex, call>>
        /\ pc' = [pc EXCEPT ![t] = "end"]
    BY <1>5 DEF ReadData, InTransfer
  <2> QED
    BY <2>1, TransferKeeps
<1>6. ASSUME NEW t \in Threads, ReadEnd(t) PROVE MutexInv'
  <2>1. /\ InTransfer(t) /\ UNCHANGED <<mutex, call>>
        /\ pc' = [pc EXCEPT ![t] = "unlock"]
    BY <1>6 DEF ReadEnd, Finish, InTransfer
  <2> QED
    BY <2>1, TransferKeeps
<1>7. ASSUME NEW t \in Threads, Unlock(t) PROVE MutexInv'
  <2>1. NoCall.lock = FALSE
    BY DEF NoCall, Call
  <2> QED
    BY <1>7, <2>1, ThreadAssumption
    DEF TypeOK, MutexInv, MutualExclusion, InTransfer, Unlock
<1>8. CASE BoardAnswers \/ Receive \/ Finished \/ UNCHANGED vars
  <2>1. UNCHANGED <<mutex, pc, call>>
    BY <1>8 DEF BoardAnswers, Receive, Finished, vars, thread
  <2> QED
    BY <2>1 DEF MutexInv, MutualExclusion, InTransfer
<1> QED
  BY <1>1, <1>2, <1>3, <1>4, <1>5, <1>6, <1>7, <1>8 DEF Next, Step

\* The mutex is free at first, and nobody waits for it.
LEMMA MutexInit == Init => MutexInv
BY ThreadAssumption DEF Init, MutexInv, MutualExclusion, InTransfer

\* MutexInv holds in every state.
LEMMA MutexInvariant == Spec => []MutexInv
<1>1. TypeOK /\ MutexInv /\ [Next]_vars => MutexInv'
  BY MutexStep
<1> QED
  BY <1>1, MutexInit, TypeCorrect, PTL DEF Spec

\* The calls that lock m_mutex exclude each other for their whole transfer,
\* and the mutex is released however a call ends.
THEOREM LockedCallsExclude == Spec => []MutualExclusion
<1>1. MutexInv => MutualExclusion
  BY DEF MutexInv
<1> QED
  BY <1>1, MutexInvariant, PTL

\* What the comments beside every AutoMutex claim is true of any set of
\* methods that all lock: with writeMatrix locked, one transfer at a time.
THEOREM AllLockedIsExclusive ==
  ASSUME \A c \in Calls : c.lock
  PROVE  Spec => []AccessIsLocked
<1>1. MutexInv => AccessIsLocked
  <2> SUFFICES ASSUME MutexInv, NEW t \in Threads, NEW u \in Threads,
                      InTransfer(t), InTransfer(u)
               PROVE  t = u
    BY DEF AccessIsLocked
  <2>1. call[t].lock /\ call[u].lock
    BY DEF MutexInv, InTransfer
  <2>2. mutex = t /\ mutex = u
    BY <2>1 DEF MutexInv, MutualExclusion
  <2> QED
    BY <2>2
<1> QED
  BY <1>1, MutexInvariant, PTL

-----------------------------------------------------------------------------
(***************************************************************************)
(* The invariant: where the characters of the mutex holder's call are.     *)
(***************************************************************************)
NothingOnLine == tx = <<>> /\ wire = <<>> /\ rx = <<>>

\* Read, received and answered characters, in their order.
Stream(t) == (got[t] \o rx) \o wire

\* A normal answer to the call of t.
Normal(t) ==
  /\ Len(due[t]) = call[t].rsize + 2
  /\ due[t][1] = call[t].code /\ due[t][call[t].rsize + 2] = SERIAL_END
  /\ call[t].rsize = 0 => mem[Cell(call[t].code)] = call[t].args

\* The board has answered, and the stream is its answer.
Replied(t) == tx = <<>> /\ Codes(Stream(t)) = due[t]

\* The command is on its way, all of it.
Sent(t) ==
  /\ wire = <<>> /\ rx = <<>>
  /\ Len(tx) = 1 + Len(call[t].args) /\ tx[1].ch = call[t].code
  /\ \A i \in 1 .. Len(call[t].args) : tx[i + 1].ch = call[t].args[i]

Place(t) ==
  \/ pc[t] = "code" /\ NothingOnLine
  \/ pc[t] = "args" /\ wire = <<>> /\ rx = <<>> /\ call[t].args # <<>>
       /\ Len(tx) = 1 /\ tx[1].ch = call[t].code
  \/ pc[t] = "answer" /\ got[t] = <<>> /\ Sent(t)
  \/ pc[t] = "answer" /\ got[t] = <<>> /\ NothingOnLine
  \/ pc[t] = "answer" /\ got[t] = <<>> /\ Replied(t)
       /\ (due[t] = <<SERIAL_ERR>> \/ Normal(t))
  \/ pc[t] = "data" /\ Len(got[t]) = 1 /\ Replied(t) /\ Normal(t)
  \/ pc[t] = "end" /\ Len(got[t]) = call[t].rsize + 1 /\ Replied(t) /\ Normal(t)
  \/ pc[t] = "unlock" /\ NothingOnLine /\ res[t] \in {"no_answer", "error"}
  \/ pc[t] = "unlock" /\ NothingOnLine /\ res[t] = "ok" /\ Codes(got[t]) = due[t] /\ Normal(t)

Own(t) == \A x \in OnLine : x.by = Tag(t)

\* The call of t is the only one on the line, and in its place.
Alone(t) == Place(t) /\ Own(t)

InPlace == /\ mutex = NoThread => NothingOnLine
           /\ \A t \in Threads : mutex = t => Alone(t)
InStep  == late = 0 => InPlace

\* Every call begins with nothing read, and is one that passed its checks.
Begun ==
  /\ \A t \in Threads : pc[t] \in {"idle", "lock", "code", "args"} => got[t] = <<>>
  /\ \A t \in Threads : pc[t] # "idle" => call[t] \in ValidCalls

\* A cell that is read holds as many characters as are read.
CellsFit == \A d \in ValidCalls : d.rsize > 0 => Len(mem[Cell(d.code)]) = d.rsize

LineInv == TypeOK /\ MutexInv /\ Begun /\ CellsFit /\ InStep

-----------------------------------------------------------------------------
(***************************************************************************)
(* Moving characters along the line leaves the stream as it is.            *)
(***************************************************************************)
LEMMA StreamReceived ==
  ASSUME NEW g \in Seq(Char), NEW r \in Seq(Char), NEW w \in Seq(Char), w # <<>>
  PROVE  (g \o Append(r, w[1])) \o Tail(w) = (g \o r) \o w
<1> DEFINE s == (g \o Append(r, w[1])) \o Tail(w)
           t == (g \o r) \o w
<1>1. Append(r, w[1]) \in Seq(Char) /\ Tail(w) \in Seq(Char) OBVIOUS
<1>2. s \in Seq(Char) /\ t \in Seq(Char) BY <1>1
<1>3. Len(s) = Len(t) OBVIOUS
<1>4. \A i \in 1 .. Len(s) : s[i] = t[i] OBVIOUS
<1> HIDE DEF s, t
<1>5. s = t BY <1>2, <1>3, <1>4, SeqEqual
<1> QED BY <1>5 DEF s, t

\* ... the first character, from what was received to what was read
LEMMA StreamRead ==
  ASSUME NEW S, NEW g \in Seq(S), NEW r \in Seq(S), NEW w \in Seq(S), r # <<>>
  PROVE  (Append(g, r[1]) \o Tail(r)) \o w = (g \o r) \o w
<1> DEFINE s == (Append(g, r[1]) \o Tail(r)) \o w
           t == (g \o r) \o w
<1>1. Append(g, r[1]) \in Seq(S) /\ Tail(r) \in Seq(S) OBVIOUS
<1>2. s \in Seq(S) /\ t \in Seq(S) BY <1>1
<1>3. Len(s) = Len(t) OBVIOUS
<1>4. \A i \in 1 .. Len(s) : s[i] = t[i] OBVIOUS
<1> HIDE DEF s, t
<1>5. s = t BY <1>2, <1>3, <1>4, SeqEqual
<1> QED BY <1>5 DEF s, t

\* ... joined in another order
LEMMA StreamSplit ==
  ASSUME NEW S, NEW g \in Seq(S), NEW w \in Seq(S), NEW a \in Seq(S), NEW b \in Seq(S)
  PROVE  ((g \o a) \o b) \o w = (g \o (a \o b)) \o w
OBVIOUS

\* A sequence cut in two is its parts joined.
LEMMA JoinBack ==
  ASSUME NEW S, NEW r \in Seq(S), NEW a \in Seq(S), NEW b \in Seq(S),
         Len(a) + Len(b) = Len(r),
         \A i \in 1 .. Len(a) : a[i] = r[i],
         \A i \in 1 .. Len(b) : b[i] = r[Len(a) + i]
  PROVE  a \o b = r
<1> DEFINE s == a \o b
<1>1. s \in Seq(S) /\ Len(s) = Len(r) OBVIOUS
<1>2. ASSUME NEW i \in 1 .. Len(s) PROVE s[i] = r[i]
  <2>1. CASE i <= Len(a) BY <2>1
  <2>2. CASE i > Len(a)
    <3>1. i - Len(a) \in 1 .. Len(b) /\ Len(a) + (i - Len(a)) = i BY <2>2
    <3>2. s[i] = b[i - Len(a)] BY <2>2
    <3> QED BY <3>1, <3>2
  <2> QED BY <2>1, <2>2
<1> HIDE DEF s
<1>3. s = r BY <1>1, <1>2, SeqEqual
<1> QED BY <1>3 DEF s

\* The first n characters; Drop gives the others.
Take(s, n) == SubSeq(s, 1, n)

\* ... n characters at once
LEMMA StreamData ==
  ASSUME NEW S, NEW g \in Seq(S), NEW r \in Seq(S), NEW w \in Seq(S), NEW n \in 0 .. Len(r)
  PROVE  /\ ((g \o Take(r, n)) \o Drop(r, n)) \o w = (g \o r) \o w
         /\ Len(g \o Take(r, n)) = Len(g) + n
<1> DEFINE a == Take(r, n)
           b == Drop(r, n)
<1>1. a \in Seq(S) /\ Len(a) = n /\ \A i \in 1 .. n : a[i] = r[i] BY DEF Take
<1>2. b \in Seq(S) /\ Len(b) = Len(r) - n /\ \A i \in 1 .. Len(r) - n : b[i] = r[n + i]
  BY DEF Drop
<1> HIDE DEF a, b
<1>3. Len(a) + Len(b) = Len(r) BY <1>1, <1>2
<1>4. \A i \in 1 .. Len(b) : b[i] = r[Len(a) + i] BY <1>1, <1>2
<1>5. a \o b = r BY <1>1, <1>2, <1>3, <1>4, JoinBack
<1>6. ((g \o a) \o b) \o w = (g \o (a \o b)) \o w BY <1>1, <1>2
<1>7. Len(g \o a) = Len(g) + n
  <2>1. a \in Seq(S) /\ Len(a) = n BY <1>1
  <2>2. Len(g \o a) = Len(g) + Len(a) BY <2>1, ConcatProperties
  <2> QED BY <2>1, <2>2
<1> QED BY <1>5, <1>6, <1>7 DEF a, b

-----------------------------------------------------------------------------
(***************************************************************************)
(* Who is on the line, and what a step reads there.                        *)
(***************************************************************************)
\* The thread in a transfer holds the mutex, for a call that was let in.
LEMMA Holder ==
  ASSUME LineInv, Matched, NEW t \in Threads, InTransfer(t) \/ pc[t] = "unlock"
  PROVE  mutex = t /\ t # NoThread /\ call[t] \in ValidCalls
<1>1. pc[t] # "idle" BY DEF InTransfer
<1>2. call[t] \in ValidCalls /\ call[t].lock
  BY <1>1 DEF LineInv, Begun, Matched, ValidCalls
<1> QED BY <1>2, ThreadAssumption DEF LineInv, MutexInv, MutualExclusion

\* Tagged characters are the characters, each with the tag.
LEMMA CharsShape ==
  ASSUME NEW chs \in Seq(Nat), NEW tag
  PROVE  /\ Len(Chars(chs, tag)) = Len(chs)
         /\ \A i \in 1 .. Len(chs) : /\ Chars(chs, tag)[i].ch = chs[i]
                                     /\ Chars(chs, tag)[i].by = tag
BY DEF Chars

\* Without their tags, as many characters, in their order.
LEMMA CodesShape ==
  ASSUME NEW s \in Seq(Char)
  PROVE  /\ Len(Codes(s)) = Len(s)
         /\ \A i \in 1 .. Len(s) : Codes(s)[i] = s[i].ch
BY DEF Codes

\* The stream goes on, after what was read, with what was received.
LEMMA StreamShape ==
  ASSUME TypeOK, NEW t \in Threads
  PROVE  /\ Stream(t) \in Seq(Char)
         /\ Len(Stream(t)) = Len(got[t]) + Len(rx) + Len(wire)
         /\ rx # <<>> => Stream(t)[Len(got[t]) + 1] = rx[1]
<1>1. got[t] \in Seq(Char) /\ rx \in Seq(Char) /\ wire \in Seq(Char) BY DEF TypeOK
<1> QED BY <1>1 DEF Stream

\* What has been answered: its length, and the next character to read.
LEMMA NextCode ==
  ASSUME TypeOK, NEW t \in Threads, Replied(t)
  PROVE  /\ Len(due[t]) = Len(got[t]) + Len(rx) + Len(wire)
         /\ rx # <<>> => due[t][Len(got[t]) + 1] = rx[1].ch
<1>1. Len(due[t]) = Len(got[t]) + Len(rx) + Len(wire)
  BY StreamShape, CodesShape DEF Replied
<1>2. ASSUME rx # <<>> PROVE due[t][Len(got[t]) + 1] = rx[1].ch
  <2>1. /\ got[t] \in Seq(Char) /\ rx \in Seq(Char) /\ wire \in Seq(Char)
        /\ Len(rx) > 0
    BY <1>2 DEF TypeOK
  <2>2. Len(got[t]) + 1 \in 1 .. Len(Stream(t)) BY <2>1, StreamShape
  <2>3. Codes(Stream(t))[Len(got[t]) + 1] = Stream(t)[Len(got[t]) + 1].ch
    BY <2>2, StreamShape, CodesShape
  <2> QED BY <1>2, <2>3, StreamShape DEF Replied
<1> QED BY <1>1, <1>2

\* Of a normal answer, what has been read, received and answered.
LEMMA LeftToRead ==
  ASSUME TypeOK, NEW t \in Threads, Replied(t), Normal(t)
  PROVE  Len(got[t]) + Len(rx) + Len(wire) = call[t].rsize + 2
<1>1. Len(due[t]) = Len(got[t]) + Len(rx) + Len(wire) BY NextCode
<1>2. Len(due[t]) = call[t].rsize + 2 BY DEF Normal
<1> QED BY <1>1, <1>2

\* A tag on the line, place by place.
OwnIn(s, tag) == \A i \in 1 .. Len(s) : s[i].by = tag

\* What is on the line is a call's when each of its parts is.
LEMMA OwnIs ==
  ASSUME tx \in Seq(Char), wire \in Seq(Char), rx \in Seq(Char), NEW t
  PROVE  Own(t) <=> OwnIn(tx, Tag(t)) /\ OwnIn(wire, Tag(t)) /\ OwnIn(rx, Tag(t))
<1>1. DOMAIN tx = 1 .. Len(tx) /\ DOMAIN wire = 1 .. Len(wire) /\ DOMAIN rx = 1 .. Len(rx)
  OBVIOUS
<1> QED BY <1>1 DEF Own, OnLine, OwnIn

\* A call of a table sends its code alone and is answered with it.
LEMMA TableCall ==
  ASSUME Matched, NEW c \in ValidCalls
  PROVE  /\ c \in Commands /\ c.echo = c.code
         /\ First(c) = <<c.code>> /\ Rest(c) = c.args
BY DEF Matched, ValidCalls, Commands, First, Rest

\* The board knows the command of a call that was let in.
LEMMA BoardKnowsCall ==
  ASSUME Matched, NEW c \in ValidCalls
  PROVE  /\ Known(c.code) /\ Model(c.code) \in ValidCalls
         /\ NbArgs(c.code) = Len(c.args) /\ Model(c.code).rsize = c.rsize
<1>1. Known(c.code) BY TableCall DEF Known
<1>2. Model(c.code) \in ValidCalls /\ Model(c.code).code = c.code
  BY <1>1 DEF Known, Model, ValidCalls, Commands
<1> QED BY <1>1, <1>2 DEF Matched, NbArgs

\* While the answer is awaited in step, a time-out means the board is silent.
LEMMA SilentWhenLate ==
  ASSUME TypeOK, NEW n, TimesOut(n), late' = 0
  PROVE  late = 0 /\ wire = <<>> /\ ~Complete /\ Len(rx) < n
BY BoundAssumption DEF TypeOK, TimesOut, Silent

-----------------------------------------------------------------------------
(***************************************************************************)
(* The steps of the mutex holder, one lemma each.                          *)
(***************************************************************************)
\* A step that leaves t and the line alone leaves t where it is.
LEMMA PlaceSame ==
  ASSUME NEW t \in Threads, Alone(t), UNCHANGED <<line, mem>>,
         pc'[t] = pc[t], call'[t] = call[t], seq'[t] = seq[t], got'[t] = got[t],
         res'[t] = res[t], due'[t] = due[t]
  PROVE  Alone(t)'
<1>1. Place(t)'
  BY DEF Alone, Place, NothingOnLine, Sent, Replied, Normal, Stream, Codes, line
<1>2. Own(t)' BY DEF Alone, Own, OnLine, Tag, line
<1> QED BY <1>1, <1>2 DEF Alone

\* _writeCommand: the code is a command without arguments, or a part of one.
LEMMA WriteCodeAlone ==
  ASSUME LineInv, Matched, NEW t \in Threads, WriteCode(t), Alone(t),
         call[t] \in ValidCalls
  PROVE  Alone(t)'
<1>1. NothingOnLine BY DEF WriteCode, Alone, Place
<1>2. /\ TypeOK /\ TypeOK' /\ got[t] = <<>>
      /\ call[t].code \in Nat /\ call[t].args \in Seq(Nat)
  BY WriteType DEF LineInv, Begun, TypeOK, CallType, WriteCode
<1>3. tx' = Chars(<<call[t].code>>, Tag(t)) /\ UNCHANGED <<wire, rx, got, call, seq>>
  <2>1. <<call[t].code>> \in Seq(Nat) /\ Tag(t) \in Threads \X Nat \X Nat BY <1>2, TagType
  <2>2. Chars(<<call[t].code>>, Tag(t)) \in Seq(Char) BY <2>1, CharsType
  <2>3. First(call[t]) = <<call[t].code>> BY TableCall
  <2> QED BY <1>1, <2>2, <2>3 DEF WriteCode, NothingOnLine
<1>4. Len(tx') = 1 /\ tx'[1].ch = call[t].code /\ tx'[1].by = Tag(t)
  <2> DEFINE chs == <<call[t].code>>
  <2>1. chs \in Seq(Nat) /\ Len(chs) = 1 /\ chs[1] = call[t].code BY <1>2
  <2> HIDE DEF chs
  <2>2. tx' = Chars(chs, Tag(t)) BY <1>3 DEF chs
  <2> QED BY <2>1, <2>2, CharsShape
<1>5. Own(t)'
  <2>1. Tag(t)' = Tag(t) BY <1>3 DEF Tag
  <2>2. OwnIn(tx', Tag(t)) /\ OwnIn(wire', Tag(t)) /\ OwnIn(rx', Tag(t))
    BY <1>1, <1>3, <1>4 DEF OwnIn, NothingOnLine
  <2>3. /\ tx' \in Seq(Char) /\ wire' \in Seq(Char) /\ rx' \in Seq(Char)
    BY <1>2 DEF TypeOK
  <2>4. \A x \in OnLine' : x.by = Tag(t)
    BY <2>2, <2>3 DEF OnLine, OwnIn
  <2> QED BY <2>1, <2>4 DEF Own
<1>6. CASE call[t].args = <<>>
  <2>1. pc'[t] = "answer" BY <1>2, <1>6, TableCall DEF WriteCode, TypeOK
  <2>2. Sent(t)' BY <1>1, <1>3, <1>4, <1>6 DEF Sent, NothingOnLine
  <2> QED BY <1>2, <1>3, <1>5, <2>1, <2>2 DEF Alone, Place
<1>7. CASE call[t].args # <<>>
  <2>1. pc'[t] = "args" BY <1>2, <1>7, TableCall DEF WriteCode, TypeOK
  <2> QED BY <1>1, <1>3, <1>4, <1>5, <1>7, <2>1 DEF Alone, Place, NothingOnLine
<1> QED BY <1>6, <1>7

\* One character and others: their number, and where each is.
LEMMA LongerByOne ==
  ASSUME NEW S, NEW s \in Seq(S), NEW u \in Seq(S), Len(s) = 1
  PROVE  /\ Len(s \o u) = 1 + Len(u) /\ (s \o u)[1] = s[1]
         /\ \A i \in 1 .. Len(u) : (s \o u)[i + 1] = u[i]
         /\ \A i \in 1 .. Len(s \o u) : i = 1 \/ (i - 1 \in 1 .. Len(u) /\ (i - 1) + 1 = i)
<1>1. Len(s \o u) = 1 + Len(u) /\ (s \o u)[1] = s[1] /\ Len(u) \in Nat
  <2>1. Len(u) \in Nat /\ 1 \in 1 .. Len(s) + Len(u) OBVIOUS
  <2>2. Len(s \o u) = Len(s) + Len(u) BY ConcatProperties
  <2>3. (s \o u)[1] = s[1] BY <2>1, ConcatProperties
  <2> QED BY <2>1, <2>2, <2>3
<1>2. ASSUME NEW i \in 1 .. Len(u) PROVE (s \o u)[i + 1] = u[i]
  <2>1. i + 1 \in 1 .. Len(s) + Len(u) /\ ~(i + 1 <= Len(s)) /\ i + 1 - Len(s) = i
    BY <1>1
  <2> QED BY <2>1, ConcatProperties
<1>3. \A i \in 1 .. 1 + Len(u) : i = 1 \/ (i - 1 \in 1 .. Len(u) /\ (i - 1) + 1 = i)
  BY <1>1
<1> QED BY <1>1, <1>2, <1>3

\* ... with its arguments the command is whole.
LEMMA WriteArgsAlone ==
  ASSUME LineInv, Matched, NEW t \in Threads, WriteArgs(t), Alone(t),
         call[t] \in ValidCalls
  PROVE  Alone(t)'
<1>1. wire = <<>> /\ rx = <<>> /\ Len(tx) = 1 /\ tx[1].ch = call[t].code
  BY DEF WriteArgs, Alone, Place
<1>2. /\ TypeOK /\ TypeOK' /\ got[t] = <<>> /\ call[t].args \in Seq(Nat) /\ tx \in Seq(Char)
  BY WriteType DEF LineInv, Begun, TypeOK, CallType, WriteArgs
<1> DEFINE cs == Chars(call[t].args, Tag(t))
<1>3. cs \in Seq(Char) BY <1>2, CharsType, TagType
<1>4. Len(cs) = Len(call[t].args)
      /\ \A i \in 1 .. Len(cs) : cs[i].ch = call[t].args[i] /\ cs[i].by = Tag(t)
  BY <1>2, CharsShape
<1>5. tx' = tx \o cs /\ UNCHANGED <<wire, rx, got, call, seq>> BY TableCall DEF WriteArgs
<1>6. pc'[t] = "answer" BY <1>2 DEF WriteArgs, TypeOK
<1> HIDE DEF cs
<1>7. /\ Len(tx') = 1 + Len(cs) /\ tx'[1] = tx[1]
      /\ \A i \in 1 .. Len(cs) : tx'[i + 1] = cs[i]
      /\ \A i \in 1 .. Len(tx') : i = 1 \/ (i - 1 \in 1 .. Len(cs) /\ (i - 1) + 1 = i)
  BY <1>1, <1>2, <1>3, <1>5, LongerByOne
<1>8. Sent(t)' BY <1>1, <1>4, <1>5, <1>7 DEF Sent
<1>9. Own(t)'
  <2>1. Tag(t)' = Tag(t) BY <1>5 DEF Tag
  <2>2. OwnIn(tx, Tag(t)) BY <1>2, OwnIs DEF Alone, TypeOK
  <2>3. OwnIn(tx', Tag(t)) /\ OwnIn(wire', Tag(t)) /\ OwnIn(rx', Tag(t))
    <3>1. tx[1].by = Tag(t) BY <1>1, <2>2 DEF OwnIn
    <3>2. ASSUME NEW i \in 1 .. Len(tx') PROVE tx'[i].by = Tag(t)
      <4>1. CASE i = 1 BY <1>7, <3>1, <4>1
      <4>2. CASE i - 1 \in 1 .. Len(cs) /\ (i - 1) + 1 = i
        <5>1. tx'[i] = cs[i - 1] BY <1>7, <4>2
        <5> QED BY <1>4, <4>2, <5>1
      <4> QED BY <1>7, <4>1, <4>2
    <3>3. OwnIn(<<>>, Tag(t)) BY DEF OwnIn
    <3> QED BY <1>1, <1>5, <3>2, <3>3 DEF OwnIn
  <2>4. tx' \in Seq(Char) /\ wire' \in Seq(Char) /\ rx' \in Seq(Char)
    BY <1>2 DEF TypeOK
  <2>5. \A x \in OnLine' : x.by = Tag(t)
    BY <2>3, <2>4 DEF OnLine, OwnIn
  <2> QED BY <2>1, <2>5 DEF Own
<1> QED BY <1>2, <1>5, <1>6, <1>8, <1>9 DEF Alone, Place

\* Nothing is added to what is on the line: it is still the holder's.
LEMMA OwnShrinks ==
  ASSUME NEW t, Own(t), Tag(t)' = Tag(t), OnLine' \subseteq OnLine
  PROVE  Own(t)'
BY DEF Own

\* Reading, or emptying what was received, adds nothing to the line.
LEMMA Shorter ==
  ASSUME rx \in Seq(Char), UNCHANGED <<tx, wire>>,
         rx' = <<>> \/ (rx # <<>> /\ rx' = Tail(rx)) \/ \E n \in Nat : rx' = Drop(rx, n)
  PROVE  OnLine' \subseteq OnLine
<1>1. {rx'[i] : i \in DOMAIN rx'} \subseteq {rx[i] : i \in DOMAIN rx}
  <2>1. CASE rx' = <<>> BY <2>1
  <2>2. CASE rx # <<>> /\ rx' = Tail(rx) BY <2>2
  <2>3. CASE \E n \in Nat : rx' = Drop(rx, n) BY <2>3 DEF Drop
  <2> QED BY <2>1, <2>2, <2>3
<1> QED BY <1>1 DEF OnLine

\* The command sent whole is one the board can answer.
LEMMA SentIsComplete ==
  ASSUME TypeOK, Matched, NEW t \in Threads, Sent(t), call[t] \in ValidCalls
  PROVE  Complete
<1>1. call[t].args \in Seq(Nat) BY DEF TypeOK, CallType
<1>2. NbArgs(tx[1].ch) = Len(call[t].args) BY BoardKnowsCall DEF Sent
<1>3. tx \in Seq(Char) /\ Len(tx) = 1 + Len(call[t].args) BY DEF TypeOK, Sent
<1> QED BY <1>1, <1>2, <1>3 DEF Complete

\* A whole first character, or a refusal, or the answer, or nothing.
LEMMA Awaiting ==
  ASSUME NEW t \in Threads, Alone(t), pc[t] = "answer"
  PROVE  /\ got[t] = <<>>
         /\ \/ Sent(t)
            \/ NothingOnLine
            \/ Replied(t) /\ due[t] = <<SERIAL_ERR>>
            \/ Replied(t) /\ Normal(t)
BY DEF Alone, Place

\* Characters move from the wire to the call: the answer is the same.
LEMMA RepliedStays ==
  ASSUME NEW t, Replied(t), UNCHANGED <<tx, due>>, Stream(t)' = Stream(t)
  PROVE  Replied(t)'
BY DEF Replied

\* ... and as normal as it was.
LEMMA NormalStays ==
  ASSUME NEW t, Normal(t), UNCHANGED <<call, mem, due>>
  PROVE  Normal(t)'
BY DEF Normal

\* _readAnswer: the code of a normal answer, a refusal, or silence.
LEMMA ReadCodeAlone ==
  ASSUME LineInv, Matched, NEW t \in Threads, ReadCode(t), Alone(t),
         call[t] \in ValidCalls, late' = 0
  PROVE  Alone(t)'
<1>1. /\ TypeOK /\ pc[t] = "answer" /\ got[t] = <<>> /\ Tag(t)' = Tag(t)
      /\ UNCHANGED <<call, tx, wire, mem, due>>
      /\ rx \in Seq(Char) /\ wire \in Seq(Char) /\ call[t].rsize \in Nat
      /\ call[t].code \notin {SERIAL_ERR, SERIAL_BAD, SERIAL_END}
      /\ got \in [Threads -> Seq(Char)] /\ got[t] \in Seq(Char)
      /\ Len(got[t]) = 0
  BY DEF LineInv, ReadCode, Alone, Place, Tag, TypeOK, CallType, Matched
<1>2. \/ Sent(t)
      \/ NothingOnLine
      \/ Replied(t) /\ due[t] = <<SERIAL_ERR>>
      \/ Replied(t) /\ Normal(t)
  BY <1>1, Awaiting
<1>3. ASSUME rx # <<>>
      PROVE  /\ Replied(t) /\ due[t][1] = rx[1].ch
             /\ due[t] = <<SERIAL_ERR>> \/ Normal(t)
  <2>1. Replied(t) /\ (due[t] = <<SERIAL_ERR>> \/ Normal(t))
    BY <1>2, <1>3 DEF Sent, NothingOnLine
  <2>2. due[t][Len(got[t]) + 1] = rx[1].ch BY <1>1, <1>3, <2>1, NextCode
  <2> QED BY <1>1, <2>1, <2>2
<1>4. CASE FirstChar(t) /\ Accepts(t, rx[1].ch)
  <2>1. rx # <<>> BY <1>4 DEF FirstChar
  <2>2. Normal(t)
    <3>1. rx[1].ch # SERIAL_ERR BY <1>1, <1>4, TableCall DEF Accepts
    <3>2. ASSUME due[t] = <<SERIAL_ERR>> PROVE due[t][1] = SERIAL_ERR BY <3>2
    <3> QED BY <1>3, <2>1, <3>1, <3>2
  <2>3. got'[t] = <<rx[1]>> /\ rx' = Tail(rx)
    BY <1>1, <1>4, <2>1, TimesOutEmpty DEF ReadCode, FirstChar
  <2>4. pc'[t] = IF call[t].rsize > 0 THEN "data" ELSE "end"
    BY <1>1, <1>4, <2>1, TimesOutEmpty DEF ReadCode, TypeOK
  <2>5. got'[t] = Append(got[t], rx[1]) /\ Len(got'[t]) = 1 BY <1>1, <2>3
  <2>6. (Append(got[t], rx[1]) \o Tail(rx)) \o wire = (got[t] \o rx) \o wire
    BY <1>1, <2>1, StreamRead
  <2>7. Stream(t)' = Stream(t) BY <1>1, <2>3, <2>5, <2>6 DEF Stream
  <2>8. Replied(t)' BY <1>1, <1>3, <2>1, <2>7, RepliedStays
  <2>9. Normal(t)' BY <1>1, <2>2, NormalStays
  <2>10. Place(t)' BY <1>1, <2>4, <2>5, <2>8, <2>9 DEF Place
  <2>11. OnLine' \subseteq OnLine BY <1>1, <2>1, <2>3, Shorter
  <2>12. Own(t)' BY <1>1, <2>11, OwnShrinks DEF Alone
  <2> QED BY <2>10, <2>12 DEF Alone
<1>5. CASE FirstChar(t) /\ ~Accepts(t, rx[1].ch)
  <2>1. rx # <<>> BY <1>5 DEF FirstChar
  <2>2. due[t] = <<SERIAL_ERR>>
    BY <1>1, <1>3, <1>5, <2>1, TableCall DEF Accepts, Normal
  <2>3. Len(due[t]) = 1 /\ due[t][1] = SERIAL_ERR BY <2>2
  <2>4. rx[1].ch = SERIAL_ERR BY <1>3, <2>1, <2>3
  <2>5. wire = <<>>
    <3>1. Len(due[t]) = Len(got[t]) + Len(rx) + Len(wire) BY <1>1, <1>3, <2>1, NextCode
    <3>2. Len(rx) \in Nat /\ Len(wire) \in Nat /\ Len(rx) > 0 BY <1>1, <2>1
    <3>3. Len(got[t]) = 0 BY <1>1
    <3>4. Len(due[t]) = 1 BY <2>3
    <3> DEFINE d == Len(due[t])   e == Len(got[t])
               r == Len(rx)       w == Len(wire)
    <3>5. d = e + r + w /\ r \in Nat /\ w \in Nat /\ r > 0 /\ e = 0 /\ d = 1
      BY <3>1, <3>2, <3>3, <3>4
    <3> HIDE DEF d, e, r, w
    <3>6. w = 0 BY <3>5
    <3> QED BY <1>1, <3>6 DEF w
  <2>6. rx' = <<>> /\ Finish(t, Refusal(rx[1].ch))
    BY <1>1, <1>5, <2>1, TimesOutEmpty DEF ReadCode
  <2>7. Refusal(rx[1].ch) = "error" BY <2>4 DEF Refusal, SERIAL_ERR, SERIAL_BAD
  <2>8. res'[t] = "error" /\ pc'[t] = "unlock"
    BY <1>1, <2>6, <2>7 DEF Finish, TypeOK
  <2>9. NothingOnLine' BY <1>1, <1>3, <2>1, <2>5, <2>6 DEF NothingOnLine, Replied
  <2>10. OnLine' \subseteq OnLine BY <1>1, <2>6, Shorter
  <2>11. Own(t)' BY <1>1, <2>10, OwnShrinks DEF Alone
  <2> QED BY <2>8, <2>9, <2>11 DEF Alone, Place
<1>6. CASE TimesOut(1) /\ Finish(t, "no_answer") /\ UNCHANGED <<rx, got>>
  <2>1. wire = <<>> /\ ~Complete /\ rx = <<>>
    BY <1>1, <1>6, SilentWhenLate, TimesOutEmpty
  <2>2. NothingOnLine
    <3>1. ~Sent(t) BY <1>1, <2>1, SentIsComplete
    <3>2. ASSUME Replied(t), due[t] = <<SERIAL_ERR>> \/ Normal(t) PROVE FALSE
      <4>1. Len(due[t]) = Len(got[t]) + Len(rx) + Len(wire) BY <1>1, <3>2, NextCode
      <4>2. Len(due[t]) = 0 BY <1>1, <2>1, <4>1
      <4>3. Len(<<SERIAL_ERR>>) = 1 BY DEF SERIAL_ERR
      <4>4. ~Normal(t)
        <5>1. call[t].rsize + 2 # 0 BY <1>1
        <5> QED BY <4>2, <5>1 DEF Normal
      <4> QED BY <3>2, <4>2, <4>3, <4>4
    <3> QED BY <1>2, <3>1, <3>2
  <2>3. pc'[t] = "unlock" /\ res'[t] = "no_answer" BY <1>1, <1>6 DEF Finish, TypeOK
  <2>4. NothingOnLine' BY <1>1, <1>6, <2>2 DEF NothingOnLine
  <2>5. OnLine' \subseteq OnLine BY <1>1, <1>6 DEF OnLine
  <2>6. Own(t)' BY <1>1, <2>5, OwnShrinks DEF Alone
  <2> QED BY <2>3, <2>4, <2>6 DEF Alone, Place
<1> QED BY <1>4, <1>5, <1>6 DEF ReadCode

\* ... all of the payload: it cannot time out, the end being on its way too
LEMMA ReadDataAlone ==
  ASSUME LineInv, NEW t \in Threads, ReadData(t), Alone(t), late' = 0
  PROVE  Alone(t)'
<1>1. /\ TypeOK /\ pc[t] = "data" /\ Tag(t)' = Tag(t)
      /\ UNCHANGED <<call, tx, wire, mem, due>> /\ pc'[t] = "end"
      /\ rx \in Seq(Char) /\ wire \in Seq(Char) /\ got[t] \in Seq(Char)
      /\ call[t].rsize \in Nat
  BY DEF LineInv, ReadData, Tag, TypeOK, CallType
<1>2. Len(got[t]) = 1 /\ Replied(t) /\ Normal(t) BY <1>1 DEF Alone, Place
<1>3. Len(rx) + Len(wire) = call[t].rsize + 1
  <2>1. Len(got[t]) + Len(rx) + Len(wire) = call[t].rsize + 2
    BY <1>1, <1>2, LeftToRead
  <2>2. Len(rx) \in Nat /\ Len(wire) \in Nat BY <1>1
  <2> DEFINE r == Len(rx)  w == Len(wire)  g == Len(got[t])  k == call[t].rsize
  <2>3. r \in Nat /\ w \in Nat /\ k \in Nat /\ g + r + w = k + 2 /\ g = 1
    BY <1>1, <1>2, <2>1, <2>2
  <2> HIDE DEF r, w, g, k
  <2>4. r + w = k + 1 BY <2>3
  <2> QED BY <2>4 DEF r, w, k
<1> DEFINE n == IF Len(rx) < call[t].rsize THEN Len(rx) ELSE call[t].rsize
<1>4. n = call[t].rsize
  <2>1. n = call[t].rsize \/ TimesOut(call[t].rsize) BY DEF ReadData
  <2>2. CASE TimesOut(call[t].rsize)
    <3>1. wire = <<>> /\ Len(rx) < call[t].rsize BY <1>1, <2>2, SilentWhenLate
    <3>2. Len(wire) = 0 BY <3>1
    <3> QED BY <1>1, <1>3, <3>1, <3>2
  <2> QED BY <2>1, <2>2
<1>5. n \in 0 .. Len(rx) BY <1>1
<1>6. got'[t] = got[t] \o Take(rx, n) /\ rx' = Drop(rx, n)
  BY <1>1 DEF ReadData, TypeOK, Take
<1> HIDE DEF n
<1>7. /\ ((got[t] \o Take(rx, n)) \o Drop(rx, n)) \o wire = (got[t] \o rx) \o wire
      /\ Len(got[t] \o Take(rx, n)) = Len(got[t]) + n
  BY <1>1, <1>5, StreamData
<1>8. Len(got'[t]) = call[t].rsize + 1 BY <1>1, <1>2, <1>4, <1>6, <1>7
<1>9. Stream(t)' = Stream(t) BY <1>1, <1>6, <1>7 DEF Stream
<1>10. Replied(t)' BY <1>1, <1>2, <1>9, RepliedStays
<1>11. Normal(t)' BY <1>1, <1>2, NormalStays
<1>12. OnLine' \subseteq OnLine
  <2>1. n \in Nat BY <1>5
  <2> QED BY <1>1, <1>6, <2>1, Shorter
<1>13. Own(t)' BY <1>1, <1>12, OwnShrinks DEF Alone
<1>14. call'[t].rsize = call[t].rsize BY <1>1
<1> QED BY <1>1, <1>8, <1>10, <1>11, <1>13, <1>14 DEF Alone, Place


\* ... the end, after which nothing is left
LEMMA ReadEndAlone ==
  ASSUME LineInv, NEW t \in Threads, ReadEnd(t), Alone(t), late' = 0
  PROVE  Alone(t)'
<1>1. /\ TypeOK /\ pc[t] = "end" /\ Tag(t)' = Tag(t)
      /\ UNCHANGED <<call, tx, wire, mem, due>>
      /\ rx \in Seq(Char) /\ wire \in Seq(Char) /\ got[t] \in Seq(Char)
      /\ call[t].rsize \in Nat
  BY DEF LineInv, ReadEnd, Tag, TypeOK, CallType
<1>2. Len(got[t]) = call[t].rsize + 1 /\ Replied(t) /\ Normal(t)
  BY <1>1 DEF Alone, Place
<1>3. Len(rx) + Len(wire) = 1
  <2>1. Len(got[t]) + Len(rx) + Len(wire) = call[t].rsize + 2
    BY <1>1, <1>2, LeftToRead
  <2>2. Len(rx) \in Nat /\ Len(wire) \in Nat BY <1>1
  <2> DEFINE r == Len(rx)  w == Len(wire)  g == Len(got[t])  k == call[t].rsize
  <2>3. r \in Nat /\ w \in Nat /\ k \in Nat /\ g + r + w = k + 2 /\ g = k + 1
    BY <1>1, <1>2, <2>1, <2>2
  <2> HIDE DEF r, w, g, k
  <2>4. r + w = 1 BY <2>3
  <2> QED BY <2>4 DEF r, w, k
<1>4. CASE rx # <<>>
  <2>1. Len(wire) = 0 /\ wire = <<>> /\ Tail(rx) = <<>> BY <1>1, <1>3, <1>4
  <2>2. rx[1].ch = SERIAL_END
    <3>1. due[t][Len(got[t]) + 1] = rx[1].ch BY <1>1, <1>2, <1>4, NextCode
    <3>2. Len(got[t]) + 1 = call[t].rsize + 2 BY <1>1, <1>2
    <3>3. due[t][call[t].rsize + 2] = SERIAL_END BY <1>2 DEF Normal
    <3> QED BY <3>1, <3>2, <3>3
  <2>3. rx' = Tail(rx) /\ got'[t] = Append(got[t], rx[1]) /\ Finish(t, "ok")
    BY <1>1, <1>2, <1>4, <2>2, TimesOutEmpty DEF ReadEnd, TypeOK
  <2>4. pc'[t] = "unlock" /\ res'[t] = "ok" BY <1>1, <2>3 DEF Finish, TypeOK
  <2>5. NothingOnLine' BY <1>1, <1>2, <2>1, <2>3 DEF NothingOnLine, Replied
  <2>6. Codes(got'[t]) = due[t]
    <3>1. (Append(got[t], rx[1]) \o Tail(rx)) \o wire = (got[t] \o rx) \o wire
      <4> DEFINE g == got[t]
      <4>1. g \in Seq(Char) /\ rx \in Seq(Char) /\ wire \in Seq(Char) /\ rx # <<>>
        BY <1>1, <1>4
      <4> HIDE DEF g
      <4>2. (Append(g, rx[1]) \o Tail(rx)) \o wire = (g \o rx) \o wire
        BY <4>1, StreamRead
      <4> QED BY <4>2 DEF g
    <3>2. Append(got[t], rx[1]) \in Seq(Char) BY <1>1, <1>4
    <3>3. (Append(got[t], rx[1]) \o Tail(rx)) \o wire = Append(got[t], rx[1])
      <4> DEFINE a == Append(got[t], rx[1])
      <4>1. a \in Seq(Char) BY <3>2
      <4> HIDE DEF a
      <4>2. a \o <<>> = a /\ (a \o <<>>) \o <<>> = a BY <4>1
      <4> QED BY <2>1, <4>2 DEF a
    <3> QED BY <1>2, <2>3, <3>1, <3>3 DEF Replied, Stream
  <2>7. Normal(t)' BY <1>1, <1>2, NormalStays
  <2>8. OnLine' \subseteq OnLine BY <1>1, <1>4, <2>3, Shorter
  <2>9. Own(t)' BY <1>1, <2>8, OwnShrinks DEF Alone
  <2> QED BY <1>1, <2>4, <2>5, <2>6, <2>7, <2>9 DEF Alone, Place
<1>5. CASE rx = <<>>
  <2>1. TimesOut(1) BY <1>5 DEF ReadEnd
  <2>2. wire = <<>> BY <1>1, <2>1, SilentWhenLate
  <2>3. Len(rx) = 0 /\ Len(wire) = 0 BY <1>5, <2>2
  <2> QED BY <1>3, <2>3
<1> QED BY <1>4, <1>5

\* The line delivers a character of the answer.
LEMMA ReceiveAlone ==
  ASSUME LineInv, NEW t \in Threads, Receive, Alone(t)
  PROVE  Alone(t)'
<1>1. /\ TypeOK /\ wire # <<>> /\ Tag(t)' = Tag(t)
      /\ UNCHANGED <<call, tx, mem, due, pc, got, res>>
      /\ rx' = Append(rx, wire[1]) /\ wire' = Tail(wire)
      /\ rx \in Seq(Char) /\ wire \in Seq(Char) /\ got[t] \in Seq(Char)
  BY DEF LineInv, Receive, Tag, TypeOK, thread
<1>2. /\ Replied(t)
      /\ \/ pc[t] = "answer" /\ got[t] = <<>> /\ (due[t] = <<SERIAL_ERR>> \/ Normal(t))
         \/ pc[t] = "data" /\ Len(got[t]) = 1 /\ Normal(t)
         \/ pc[t] = "end" /\ Len(got[t]) = call[t].rsize + 1 /\ Normal(t)
  BY <1>1 DEF Alone, Place, NothingOnLine, Sent
<1>3. (got[t] \o rx') \o wire' = (got[t] \o rx) \o wire
  <2> DEFINE g == got[t]
  <2>1. g \in Seq(Char) BY <1>1
  <2> HIDE DEF g
  <2>2. (g \o Append(rx, wire[1])) \o Tail(wire) = (g \o rx) \o wire
    BY <1>1, <2>1, StreamReceived
  <2> QED BY <1>1, <2>2 DEF g
<1>4. Stream(t)' = Stream(t) BY <1>1, <1>3 DEF Stream
<1>5. Replied(t)' BY <1>1, <1>2, <1>4, RepliedStays
<1>6. Normal(t) => Normal(t)' BY <1>1, NormalStays
<1>7. Place(t)' BY <1>1, <1>2, <1>5, <1>6 DEF Place
<1>8. OnLine' \subseteq OnLine
  <2>1. {wire'[i] : i \in DOMAIN wire'} \subseteq {wire[i] : i \in DOMAIN wire}
    BY <1>1
  <2>2. {rx'[i] : i \in DOMAIN rx'} \subseteq
          {rx[i] : i \in DOMAIN rx} \cup {wire[i] : i \in DOMAIN wire}
    BY <1>1
  <2> QED BY <1>1, <2>1, <2>2 DEF OnLine
<1>9. Own(t)' BY <1>1, <1>8, OwnShrinks DEF Alone
<1> QED BY <1>7, <1>9 DEF Alone


-----------------------------------------------------------------------------
(***************************************************************************)
(* The board: what it takes is the holder's command, what it says is the   *)
(* answer to it.                                                           *)
(***************************************************************************)
\* The characters after the first, as the board takes them.
LEMMA ArgsTaken ==
  ASSUME NEW s \in Seq(Char), NEW n \in Nat, Len(s) > n
  PROVE  /\ Codes(SubSeq(s, 2, n + 1)) \in Seq(Nat)
         /\ Len(Codes(SubSeq(s, 2, n + 1))) = n
         /\ \A i \in 1 .. n : Codes(SubSeq(s, 2, n + 1))[i] = s[i + 1].ch
<1> DEFINE a == SubSeq(s, 2, n + 1)
<1>1. a \in Seq(Char) /\ Len(a) = n /\ \A i \in 1 .. n : a[i] = s[i + 1] OBVIOUS
<1> HIDE DEF a
<1>2. Codes(a) \in Seq(Nat) /\ Len(Codes(a)) = n /\ \A i \in 1 .. n : Codes(a)[i] = a[i].ch
  BY <1>1, CodesType, CodesShape
<1> QED BY <1>1, <1>2 DEF a

\* Nothing is left after a whole command.
LEMMA DropAll ==
  ASSUME NEW s \in Seq(Char), NEW n \in Nat, Len(s) = n
  PROVE  Drop(s, n) = <<>>
BY DEF Drop

\* The board may change a register only to as many characters as it holds.
LEMMA CellsKept ==
  ASSUME TypeOK, CellsFit, Matched, BoardAnswers
  PROVE  CellsFit'
<1> DEFINE code == tx[1].ch
           n    == NbArgs(code)
           args == Codes(SubSeq(tx, 2, n + 1))
<1>1. \/ mem' = mem
      \/ /\ Known(code) /\ Model(code).rsize = 0
         /\ mem' = [mem EXCEPT ![Cell(code)] = args]
  BY DEF BoardAnswers
<1>2. CASE mem' = mem BY <1>2 DEF CellsFit
<1>3. CASE Known(code) /\ Model(code).rsize = 0 /\ mem' = [mem EXCEPT ![Cell(code)] = args]
  <2>1. tx \in Seq(Char) /\ Len(tx) > n /\ tx[1] \in Char
    <3>1. tx # <<>> /\ tx \in Seq(Char) BY DEF BoardAnswers, Complete, TypeOK
    <3>2. Len(tx) > n BY DEF BoardAnswers, Complete
    <3> QED BY <3>1, <3>2
  <2>2. code \in Nat /\ n \in Nat BY <2>1, BoardKnows DEF Char
  <2>3. Len(args) = n BY <2>1, <2>2, ArgsTaken
  <2>4. Model(code) \in ValidCalls /\ Model(code).code = code
    BY <1>3 DEF Known, Model, ValidCalls, Commands
  <2>5. n = Len(Model(code).args) BY <1>3 DEF NbArgs
  <2> SUFFICES ASSUME NEW d \in ValidCalls, d.rsize > 0
               PROVE  Len(mem'[Cell(d.code)]) = d.rsize
    BY DEF CellsFit
  <2> HIDE DEF code, n, args
  <2>6. Cell(d.code) \in Cells /\ mem \in [Cells -> Seq(Nat)]
    BY DEF Cells, ValidCalls, TypeOK
  <2>7. CASE Cell(d.code) = Cell(code)
    <3>1. Len(Model(code).args) = d.rsize BY <1>3, <2>4, <2>7 DEF Matched
    <3>2. mem'[Cell(d.code)] = args BY <1>3, <2>6, <2>7
    <3> QED BY <2>3, <2>5, <3>1, <3>2
  <2>8. CASE Cell(d.code) # Cell(code)
    <3>1. mem'[Cell(d.code)] = mem[Cell(d.code)] BY <1>3, <2>6, <2>8
    <3> QED BY <3>1 DEF CellsFit
  <2> QED BY <2>7, <2>8
<1> QED BY <1>1, <1>2, <1>3

\* What the board says is the answer to the call.
LEMMA SaidIsReplied ==
  ASSUME TypeOK, NEW t \in Threads, NEW chs \in Seq(Nat), got[t] = <<>>, rx = <<>>,
         wire = <<>>, UNCHANGED <<got, rx>>, tx' = <<>>, due'[t] = chs,
         wire' = wire \o Chars(chs, Tag(t))
  PROVE  Replied(t)' /\ OwnIn(wire', Tag(t))
<1> DEFINE w == Chars(chs, Tag(t))
<1>1. w \in Seq(Char) BY CharsType, TagType
<1>2. Len(w) = Len(chs) /\ \A i \in 1 .. Len(chs) : w[i].ch = chs[i] /\ w[i].by = Tag(t)
  BY CharsShape
<1>3. wire' = wire \o w OBVIOUS
<1> HIDE DEF w
<1>4. wire' = w BY <1>1, <1>3
<1>5. OwnIn(wire', Tag(t)) BY <1>2, <1>4 DEF OwnIn
<1>6. Stream(t)' = w
  <2>1. (<<>> \o <<>>) \o w = w BY <1>1
  <2>2. got'[t] = <<>> /\ rx' = <<>> OBVIOUS
  <2> QED BY <1>4, <2>1, <2>2 DEF Stream
<1>7. Codes(w) = chs
  <2>1. Codes(w) \in Seq(Nat) BY <1>1, CodesType
  <2>2. Len(Codes(w)) = Len(chs) /\ \A i \in 1 .. Len(chs) : Codes(w)[i] = chs[i]
    BY <1>1, <1>2, CodesShape
  <2> QED BY <2>1, <2>2, SeqEqual
<1>8. Codes(Stream(t))' = chs BY <1>6, <1>7 DEF Codes
<1> QED BY <1>5, <1>8 DEF Replied

\* The shape of a normal answer: the code, the payload and the end.
LEMMA AnswerShape ==
  ASSUME NEW code \in Nat, NEW m \in Seq(Nat)
  PROVE  /\ <<code>> \o m \o <<SERIAL_END>> \in Seq(Nat)
         /\ Len(<<code>> \o m \o <<SERIAL_END>>) = Len(m) + 2
         /\ (<<code>> \o m \o <<SERIAL_END>>)[1] = code
         /\ (<<code>> \o m \o <<SERIAL_END>>)[Len(m) + 2] = SERIAL_END
<1>1. SERIAL_END \in Nat BY DEF SERIAL_END
<1> DEFINE a == <<code>> \o m
<1>2. a \in Seq(Nat) /\ Len(a) = Len(m) + 1 /\ a[1] = code OBVIOUS
<1> HIDE DEF a
<1>3. /\ a \o <<SERIAL_END>> \in Seq(Nat) /\ Len(a \o <<SERIAL_END>>) = Len(m) + 2
      /\ (a \o <<SERIAL_END>>)[1] = code
      /\ (a \o <<SERIAL_END>>)[Len(m) + 2] = SERIAL_END
  BY <1>1, <1>2
<1> QED BY <1>3 DEF a


\* What the board takes is the holder's whole command, and the last thing sent.
LEMMA BoardTakes ==
  ASSUME LineInv, Matched, NEW t \in Threads, BoardAnswers, Alone(t),
         call[t] \in ValidCalls
  PROVE  /\ pc[t] = "answer" /\ got[t] = <<>> /\ wire = <<>> /\ rx = <<>>
         /\ tx # <<>> /\ tx[1].ch = call[t].code /\ tx[1].by = Tag(t)
         /\ Known(call[t].code) /\ Model(call[t].code).rsize = call[t].rsize
         /\ NbArgs(tx[1].ch) \in Nat
         /\ Codes(SubSeq(tx, 2, NbArgs(tx[1].ch) + 1)) = call[t].args
         /\ tx' = <<>>
<1> DEFINE n    == NbArgs(tx[1].ch)
           args == Codes(SubSeq(tx, 2, n + 1))
<1>1. TypeOK /\ tx # <<>> /\ tx \in Seq(Char)
  BY DEF LineInv, BoardAnswers, Complete, TypeOK
<1>2. Len(tx) > n BY DEF BoardAnswers, Complete
<1>3. call[t].args \in Seq(Nat) BY <1>1 DEF TypeOK, CallType
<1>4. /\ Known(call[t].code) /\ NbArgs(call[t].code) = Len(call[t].args)
      /\ Model(call[t].code).rsize = call[t].rsize
  BY BoardKnowsCall
<1>5. pc[t] = "answer" /\ got[t] = <<>> /\ Sent(t)
  <2>1. \/ pc[t] = "answer" /\ got[t] = <<>> /\ Sent(t)
        \/ call[t].args # <<>> /\ Len(tx) = 1 /\ tx[1].ch = call[t].code
    BY <1>1 DEF Alone, Place, NothingOnLine, Replied
  <2>2. ASSUME call[t].args # <<>>, Len(tx) = 1, tx[1].ch = call[t].code PROVE FALSE
    <3>1. n = Len(call[t].args) BY <1>4, <2>2
    <3>2. Len(call[t].args) \in Nat /\ Len(call[t].args) # 0 BY <1>3, <2>2
    <3> QED BY <1>2, <2>2, <3>1, <3>2
  <2> QED BY <2>1, <2>2
<1>6. /\ tx[1].ch = call[t].code /\ n = Len(call[t].args) /\ n \in Nat
      /\ wire = <<>> /\ rx = <<>> /\ Len(tx) = n + 1
  BY <1>3, <1>4, <1>5 DEF Sent
<1>7. tx[1].by = Tag(t)
  <2>1. OwnIn(tx, Tag(t)) BY <1>1, OwnIs DEF Alone, TypeOK
  <2>2. 1 \in 1 .. Len(tx) BY <1>6
  <2> QED BY <2>1, <2>2 DEF OwnIn
<1>8. args = call[t].args
  <2>1. /\ args \in Seq(Nat) /\ Len(args) = n
        /\ \A i \in 1 .. n : args[i] = tx[i + 1].ch
    BY <1>1, <1>2, <1>6, ArgsTaken
  <2>2. \A i \in 1 .. n : args[i] = call[t].args[i]
    BY <1>5, <1>6, <2>1 DEF Sent
  <2> HIDE DEF args, n
  <2> QED BY <1>3, <1>6, <2>1, <2>2, SeqEqual
<1>9. tx' = <<>>
  <2>1. tx' = Drop(tx, n + 1) BY DEF BoardAnswers
  <2>2. n + 1 \in Nat /\ Len(tx) = n + 1 BY <1>6
  <2> HIDE DEF n
  <2> QED BY <1>1, <2>1, <2>2, DropAll
<1> QED BY <1>1, <1>4, <1>5, <1>6, <1>7, <1>8, <1>9

\* The board takes the holder's whole command; it answers, refuses it, stays
\* silent, or does it and loses the answer.
LEMMA BoardAlone ==
  ASSUME LineInv, Matched, NEW t \in Threads, BoardAnswers, Alone(t),
         call[t] \in ValidCalls
  PROVE  Alone(t)'
<1> DEFINE code == tx[1].ch
           n    == NbArgs(code)
           tag  == tx[1].by
           args == Codes(SubSeq(tx, 2, n + 1))
           lost(chs) == /\ wire' = wire
                        /\ due'  = IF tag = Tag(tag[1])
                                     THEN [due EXCEPT ![tag[1]] = chs] ELSE due
           said(chs) == /\ wire' = wire \o Chars(chs, tag)
                        /\ due'  = IF tag = Tag(tag[1])
                                     THEN [due EXCEPT ![tag[1]] = chs] ELSE due
<1>1. /\ TypeOK /\ TypeOK' /\ CellsFit /\ UNCHANGED <<pc, call, seq, got, res, rx>>
      /\ Tag(t)' = Tag(t)
  BY BoardType DEF LineInv, BoardAnswers, TypeOK, thread, Tag
<1>3. /\ call[t].code \in Nat /\ call[t].args \in Seq(Nat) /\ call[t].rsize \in Nat
      /\ call[t] \in Calls /\ Cell(call[t].code) \in Cells
  BY <1>1 DEF TypeOK, CallType, ValidCalls, Cells
<1>5. pc[t] = "answer" /\ got[t] = <<>> BY BoardTakes
<1>4. Model(call[t].code).rsize = call[t].rsize BY BoardTakes
<1>6. code = call[t].code /\ Known(code) /\ wire = <<>> /\ rx = <<>> BY BoardTakes
<1>7. tag = Tag(t) /\ tag[1] = t BY BoardTakes DEF Tag
<1>8. args = call[t].args BY BoardTakes
<1>9. tx' = <<>> BY BoardTakes
<1>10. ASSUME NEW chs \in Seq(Nat), said(chs) PROVE Replied(t)' /\ Own(t)' /\ due'[t] = chs
  <2>1. due'[t] = chs BY <1>1, <1>7, <1>10 DEF TypeOK
  <2>2. wire' = wire \o Chars(chs, Tag(t)) BY <1>7, <1>10
  <2>3. Replied(t)' /\ OwnIn(wire', Tag(t))
    BY <1>1, <1>5, <1>6, <1>9, <2>1, <2>2, SaidIsReplied
  <2>4. Own(t)'
    <3>1. tx' = <<>> /\ rx' = <<>> /\ wire' \in Seq(Char)
      BY <1>1, <1>6, <1>9 DEF TypeOK
    <3>2. OnLine' = {wire'[i] : i \in 1 .. Len(wire')} BY <3>1 DEF OnLine
    <3>3. \A x \in OnLine' : x.by = Tag(t) BY <2>3, <3>2 DEF OwnIn
    <3> QED BY <1>1, <3>3 DEF Own
  <2> QED BY <2>1, <2>3, <2>4
<1>11. ASSUME wire' = wire PROVE NothingOnLine' /\ Own(t)'
  <2>1. NothingOnLine' BY <1>1, <1>6, <1>9, <1>11 DEF NothingOnLine
  <2>2. OnLine' = {} BY <2>1 DEF OnLine, NothingOnLine
  <2> QED BY <2>1, <2>2 DEF Own
<1>12. ASSUME NothingOnLine', Own(t)' PROVE Alone(t)'
  BY <1>1, <1>5, <1>12 DEF Alone, Place
<1>13. ASSUME Replied(t)', Own(t)', due'[t] = <<SERIAL_ERR>> \/ Normal(t)'
       PROVE  Alone(t)'
  BY <1>1, <1>5, <1>13 DEF Alone, Place
<1>14. CASE Known(code) /\ Model(code).rsize = 0 /\ mem' = [mem EXCEPT ![Cell(code)] = args]
            /\ (said(<<code, SERIAL_END>>) \/ lost(<<code, SERIAL_END>>))
  <2>1. CASE said(<<code, SERIAL_END>>)
    <3>1. <<code, SERIAL_END>> \in Seq(Nat) BY <1>3, <1>6 DEF SERIAL_END
    <3>2. Replied(t)' /\ Own(t)' /\ due'[t] = <<code, SERIAL_END>>
      BY <1>10, <2>1, <3>1
    <3>3. Normal(t)'
      <4>1. call'[t].rsize = 0 /\ call'[t].code = code /\ call'[t].args = args
        BY <1>1, <1>4, <1>6, <1>8, <1>14
      <4>2. mem'[Cell(code)] = args BY <1>1, <1>3, <1>6, <1>14 DEF TypeOK
      <4> HIDE DEF code, args
      <4>3. Len(due'[t]) = 0 + 2 /\ due'[t][1] = code /\ due'[t][0 + 2] = SERIAL_END
        BY <3>2
      <4> QED BY <4>1, <4>2, <4>3 DEF Normal
    <3> QED BY <1>13, <3>2, <3>3
  <2>2. CASE lost(<<code, SERIAL_END>>) BY <1>11, <1>12, <2>2
  <2> QED BY <1>14, <2>1, <2>2
<1>15. CASE Model(code).rsize # 0 /\ mem' = mem
            /\ said(<<code>> \o mem[Cell(code)] \o <<SERIAL_END>>)
  <2> DEFINE m == mem[Cell(code)]
             chs == <<code>> \o m \o <<SERIAL_END>>
  <2>1. m \in Seq(Nat) /\ code \in Nat BY <1>1, <1>3, <1>6 DEF TypeOK
  <2>2. Len(m) = call[t].rsize /\ call[t].rsize # 0
    BY <1>1, <1>3, <1>4, <1>6, <1>15 DEF CellsFit
  <2> HIDE DEF m
  <2>3. /\ chs \in Seq(Nat) /\ Len(chs) = Len(m) + 2 /\ chs[1] = code
        /\ chs[Len(m) + 2] = SERIAL_END
    BY <2>1, AnswerShape
  <2>4. said(chs) BY <1>15 DEF m
  <2> HIDE DEF chs
  <2>5. Replied(t)' /\ Own(t)' /\ due'[t] = chs BY <1>10, <2>3, <2>4
  <2>6. Normal(t)'
    <3>1. call' = call BY <1>1
    <3> QED BY <1>6, <2>2, <2>3, <2>5, <3>1 DEF Normal
  <2> QED BY <1>13, <2>5, <2>6
<1>16. CASE said(<<SERIAL_ERR>>)
  <2>1. <<SERIAL_ERR>> \in Seq(Nat) BY DEF SERIAL_ERR
  <2>2. Replied(t)' /\ Own(t)' /\ due'[t] = <<SERIAL_ERR>> BY <1>10, <1>16, <2>1
  <2> QED BY <1>13, <2>2
<1>17. CASE UNCHANGED <<wire, due, mem>> BY <1>11, <1>12, <1>17
<1> QED BY <1>6, <1>14, <1>15, <1>16, <1>17 DEF BoardAnswers


-----------------------------------------------------------------------------
(***************************************************************************)
(* LineInv is inductive.                                                   *)
(***************************************************************************)
\* A call begins with nothing read: its end forgets what it has read.
LEMMA BegunKept ==
  ASSUME TypeOK, Begun, [Next]_vars
  PROVE  Begun'
<1>1. ASSUME NEW t \in Threads, NEW c \in Calls, Enter(t, c) PROVE Begun'
  BY <1>1 DEF TypeOK, Begun, Enter, ValidCalls
<1>2. ASSUME NEW t \in Threads, Lock(t) PROVE Begun'
  BY <1>2 DEF TypeOK, Begun, Lock
<1>3. ASSUME NEW t \in Threads, WriteCode(t) \/ WriteArgs(t) PROVE Begun'
  <2>1. UNCHANGED <<got, call>> /\ got[t] = <<>> /\ pc[t] # "idle"
    BY <1>3 DEF Begun, WriteCode, WriteArgs
  <2>2. \E to \in PCs : pc' = [pc EXCEPT ![t] = to]
    BY <1>3 DEF WriteCode, WriteArgs, PCs
  <2> QED BY <2>1, <2>2 DEF TypeOK, Begun
<1>4. ASSUME NEW t \in Threads, ReadCode(t) \/ ReadData(t) \/ ReadEnd(t) PROVE Begun'
  <2>1. call' = call /\ pc[t] # "idle" /\ \A u \in Threads \ {t} : got'[u] = got[u]
    BY <1>4 DEF TypeOK, ReadCode, ReadData, ReadEnd, FirstChar
  <2>2. \E to \in {"data", "end", "unlock"} : pc' = [pc EXCEPT ![t] = to]
    BY <1>4 DEF ReadCode, ReadData, ReadEnd, Finish
  <2>3. PICK to \in {"data", "end", "unlock"} : pc' = [pc EXCEPT ![t] = to] BY <2>2
  <2> SUFFICES ASSUME NEW u \in Threads
               PROVE  /\ pc'[u] \in {"idle", "lock", "code", "args"} => got'[u] = <<>>
                      /\ pc'[u] # "idle" => call'[u] \in ValidCalls
    BY DEF Begun
  <2> QED BY <2>1, <2>3 DEF TypeOK, Begun
<1>5. ASSUME NEW t \in Threads, Unlock(t) PROVE Begun'
  BY <1>5 DEF TypeOK, Begun, Unlock
<1>6. CASE BoardAnswers \/ Receive \/ Finished \/ UNCHANGED vars
  <2>1. UNCHANGED <<got, pc, call>>
    BY <1>6 DEF BoardAnswers, Receive, Finished, vars, thread
  <2> QED BY <2>1 DEF Begun
<1> QED BY <1>1, <1>2, <1>3, <1>4, <1>5, <1>6 DEF Next, Step

\* Only the board changes a register.
LEMMA CellsStep ==
  ASSUME TypeOK, CellsFit, Matched, [Next]_vars
  PROVE  CellsFit'
<1>1. BoardAnswers \/ mem' = mem
  BY DEF Next, Step, Enter, Lock, WriteCode, WriteArgs, ReadCode, ReadData, ReadEnd,
         Unlock, Receive, Finished, vars
<1>2. CASE mem' = mem BY <1>2 DEF CellsFit
<1> QED BY <1>1, <1>2, CellsKept

\* Late time-outs are never forgotten.
LEMMA LateStays ==
  ASSUME TypeOK, [Next]_vars, late' = 0
  PROVE  late = 0
<1>1. ASSUME NEW n, TimesOut(n) PROVE late = 0
  BY <1>1, BoundAssumption DEF TypeOK, TimesOut
<1>2. ASSUME NEW t \in Threads, ReadCode(t) \/ ReadData(t) \/ ReadEnd(t) PROVE late = 0
  <2>1. late' = late \/ \E n : TimesOut(n)
    BY <1>2 DEF ReadCode, ReadData, ReadEnd
  <2> QED BY <1>1, <2>1
<1>3. ASSUME NEW t \in Threads, Lock(t) \/ WriteCode(t) \/ WriteArgs(t) \/ Unlock(t)
      PROVE  late = 0
  BY <1>3 DEF Lock, WriteCode, WriteArgs, Unlock
<1>4. ASSUME NEW t \in Threads, NEW c \in Calls, Enter(t, c) PROVE late = 0
  BY <1>4 DEF Enter
<1>5. CASE BoardAnswers \/ Receive \/ Finished \/ UNCHANGED vars
  <2>1. late' = late BY <1>5 DEF BoardAnswers, Receive, Finished, vars
  <2> QED BY <2>1
<1> QED BY <1>2, <1>3, <1>4, <1>5 DEF Next, Step

\* The steps of the mutex holder, and those of the line, keep it in its place.
LEMMA InStepKept ==
  ASSUME LineInv, Matched, [Next]_vars
  PROVE  InStep'
<1> SUFFICES ASSUME late' = 0 PROVE InPlace'
  BY DEF InStep
<1>1. late = 0 BY LateStays DEF LineInv
<1>2. /\ mutex = NoThread => NothingOnLine
      /\ \A t \in Threads : mutex = t => Alone(t)
      /\ mutex \in Threads \cup {NoThread}
  BY <1>1 DEF LineInv, InStep, InPlace, TypeOK
<1>3. ASSUME NEW t \in Threads, NEW c \in Calls, Enter(t, c) PROVE InPlace'
  <2>1. mutex' = mutex /\ UNCHANGED <<line, mem>> BY <1>3 DEF Enter
  <2>2. mutex' = NoThread => NothingOnLine' BY <1>2, <2>1 DEF NothingOnLine, line
  <2>3. ASSUME NEW u \in Threads, mutex = u PROVE Alone(u)'
    <3>1. u # t BY <1>3, <2>3 DEF LineInv, MutexInv, MutualExclusion, Enter, InTransfer
    <3>2. /\ pc'[u] = pc[u] /\ call'[u] = call[u] /\ seq'[u] = seq[u]
          /\ UNCHANGED <<got, res, due>>
      BY <1>3, <3>1 DEF LineInv, TypeOK, Enter
    <3> QED BY <1>2, <2>1, <2>3, <3>2, PlaceSame
  <2> QED BY <2>1, <2>2, <2>3 DEF InPlace
<1>4. ASSUME NEW t \in Threads, Lock(t) PROVE InPlace'
  <2>1. mutex' = t /\ NothingOnLine /\ UNCHANGED line /\ pc'[t] = "code"
    BY <1>2, <1>4 DEF Lock, LineInv, TypeOK
  <2>2. NothingOnLine' BY <2>1 DEF NothingOnLine, line
  <2>3. Place(t)' BY <2>1, <2>2 DEF Place
  <2>4. Own(t)' BY <2>2 DEF Own, OnLine, NothingOnLine
  <2> QED BY <2>1, <2>2, <2>3, <2>4 DEF InPlace, Alone
<1>5. ASSUME NEW t \in Threads, Step(t), InTransfer(t) PROVE InPlace'
  <2>1. mutex = t /\ t # NoThread /\ call[t] \in ValidCalls BY <1>5, Holder
  <2>2. Alone(t) BY <1>2, <2>1
  <2>3. /\ mutex' = mutex
        /\ WriteCode(t) \/ WriteArgs(t) \/ ReadCode(t) \/ ReadData(t) \/ ReadEnd(t)
    BY <1>5 DEF Step, InTransfer, Lock, Unlock, WriteCode, WriteArgs, ReadCode,
                ReadData, ReadEnd
  <2>4. Alone(t)'
    BY <2>1, <2>2, <2>3, WriteCodeAlone, WriteArgsAlone, ReadCodeAlone, ReadDataAlone,
       ReadEndAlone
  <2> QED BY <2>1, <2>3, <2>4 DEF InPlace
<1>6. ASSUME NEW t \in Threads, Unlock(t) PROVE InPlace'
  <2>1. mutex = t /\ t # NoThread /\ call[t] \in ValidCalls
    BY <1>6, Holder DEF Unlock
  <2>2. mutex' = NoThread BY <1>6, <2>1 DEF Unlock, Matched, ValidCalls
  <2>3. Alone(t) /\ pc[t] = "unlock" /\ UNCHANGED line BY <1>2, <1>6, <2>1 DEF Unlock
  <2>4. NothingOnLine' BY <2>3 DEF Alone, Place, NothingOnLine, line
  <2> QED BY <2>2, <2>4, ThreadAssumption DEF InPlace
<1>7. ASSUME BoardAnswers \/ Receive PROVE InPlace'
  <2>1. mutex' = mutex BY <1>7 DEF BoardAnswers, Receive, thread
  <2>2. mutex # NoThread
    BY <1>2, <1>7 DEF BoardAnswers, Receive, Complete, NothingOnLine
  <2>3. ASSUME NEW u \in Threads, mutex = u PROVE Alone(u)'
    <3>1. Alone(u) /\ pc[u] # "idle" BY <1>2, <2>3 DEF Alone, Place
    <3>2. call[u] \in ValidCalls BY <3>1 DEF LineInv, Begun
    <3> QED BY <1>7, <3>1, <3>2, BoardAlone, ReceiveAlone
  <2> QED BY <2>1, <2>2, <2>3 DEF InPlace
<1>8. CASE Finished \/ UNCHANGED vars
  <2>1. UNCHANGED <<thread, line, mem, due>> BY <1>8 DEF Finished, vars
  <2>2. UNCHANGED <<mutex, pc, call, seq, got, res>> BY <2>1 DEF thread
  <2>3. ASSUME NEW u \in Threads, mutex = u PROVE Alone(u)'
    BY <1>2, <2>1, <2>2, <2>3, PlaceSame
  <2>4. mutex = NoThread => NothingOnLine' BY <1>2, <2>1 DEF NothingOnLine, line
  <2> QED BY <2>2, <2>3, <2>4 DEF InPlace
<1>9. ASSUME NEW t \in Threads, Step(t) PROVE Lock(t) \/ InTransfer(t) \/ Unlock(t)
  BY <1>9 DEF Step, WriteCode, WriteArgs, ReadCode, ReadData, ReadEnd, InTransfer
<1> QED BY <1>3, <1>4, <1>5, <1>6, <1>7, <1>8, <1>9 DEF Next

\* At power-up the line is empty and the registers fit.
LEMMA LineInit ==
  ASSUME Matched, Init
  PROVE  LineInv
<1>1. TypeOK /\ MutexInv BY InitType, MutexInit
<1>2. Begun BY DEF Init, Begun
<1>3. CellsFit BY DEF Init, CellsFit, Matched
<1>4. InStep BY ThreadAssumption DEF Init, InStep, InPlace, NothingOnLine
<1> QED BY <1>1, <1>2, <1>3, <1>4 DEF LineInv

\* LineInv holds in every state.
LEMMA LineInvariant ==
  ASSUME Matched
  PROVE  Spec => []LineInv
<1>1. Init => LineInv BY LineInit
<1>2. LineInv /\ TypeOK' /\ MutexInv' /\ [Next]_vars => LineInv'
  BY BegunKept, CellsStep, InStepKept DEF LineInv
<1>3. TypeOK /\ MutexInv /\ [Next]_vars => MutexInv' BY MutexStep
<1> QED BY <1>1, <1>2, TypeCorrect, MutexInvariant, PTL DEF Spec

\* Unless an answer came too late, nothing a call leaves on the line, whatever
\* exception it threw and although three of the throwing paths do not flush,
\* is there when the next call begins: of any calls that take the mutex.
THEOREM LineStaysInStep ==
  ASSUME Matched
  PROVE  Spec => []LineInStep
<1>1. LineInv => LineInStep
  <2> SUFFICES ASSUME LineInv, late = 0, NEW x \in OnLine
               PROVE  mutex # NoThread /\ x.by = Tag(mutex)
    BY DEF LineInStep
  <2>1. ~NothingOnLine BY DEF OnLine, NothingOnLine
  <2>2. mutex # NoThread /\ mutex \in Threads
    BY <2>1 DEF LineInv, InStep, InPlace, TypeOK
  <2>3. PICK t \in Threads : mutex = t BY <2>2
  <2>4. Own(t) BY <2>3 DEF LineInv, InStep, InPlace, Alone
  <2> QED BY <2>2, <2>3, <2>4 DEF Own
<1> QED BY <1>1, LineInvariant, PTL

\* ... and a call that returns has read the answer the board gave to it, its
\* write is in the register, and an exception means silence or a refusal.
THEOREM AnswersAreOwn ==
  ASSUME Matched
  PROVE  Spec => []AnswerIsOwn
<1>1. LineInv => AnswerIsOwn
  <2> SUFFICES ASSUME LineInv, NEW t \in Threads, late = 0, pc[t] = "unlock"
               PROVE  /\ res[t] \in {"ok", "no_answer", "error"}
                      /\ res[t] = "ok" =>
                           /\ Codes(got[t]) = due[t]
                           /\ call[t].rsize = 0 => mem[Cell(call[t].code)] = call[t].args
    BY DEF AnswerIsOwn
  <2>1. mutex = t /\ t # NoThread BY Holder
  <2>2. Place(t) BY <2>1 DEF LineInv, InStep, InPlace, Alone
  <2> QED BY <2>2 DEF Place, Normal
<1> QED BY <1>1, LineInvariant, PTL

-----------------------------------------------------------------------------
(***************************************************************************)
(* What is sent stays whole commands, in step or not: they are one behind  *)
(* the other, because every call takes the mutex and none gives it back    *)
(* between its code and its arguments.                                     *)
(***************************************************************************)
\* At k of s is the whole command of call c.
CommandAt(s, k, c) ==
  /\ s[k + 1].ch = c.code /\ s[k + 1].by[3] = c.code
  /\ \A i \in 1 .. Len(c.args) : s[(k + 1) + i].ch = c.args[i]

\* The first m characters of s are whole commands, beginning at each of cuts.
Framing(s, m, cuts) ==
  /\ cuts \subseteq 0 .. m /\ 0 \in cuts /\ m \in cuts
  /\ \A k \in cuts \ {m} : \E c \in ValidCalls :
       CommandAt(s, k, c) /\ (k + 1) + Len(c.args) \in cuts
Framed(s, m) == \E cuts \in SUBSET (0 .. m) : Framing(s, m, cuts)

\* Thread t has sent its code and not yet its arguments.
HalfSent(t) ==
  /\ tx # <<>> /\ call[t].args # <<>>
  /\ tx[Len(tx)].ch = call[t].code /\ tx[Len(tx)].by[3] = call[t].code
  /\ Framed(tx, Len(tx) - 1)

SentWhole ==
  /\ \A t \in Threads : pc[t] = "args" => HalfSent(t)
  /\ (\A t \in Threads : pc[t] # "args") => Framed(tx, Len(tx))

\* The arguments of a call are a sequence.
LEMMA ValidType ==
  ASSUME NEW c \in ValidCalls
  PROVE  c \in Calls /\ c.code \in Nat /\ c.args \in Seq(Nat) /\ Len(c.args) \in Nat
BY CallAssumption DEF ValidCalls, CallType

\* Nothing sent is no command.
LEMMA FramedEmpty == Framed(<<>>, 0)
<1>1. 0 .. 0 = {0} /\ \A k \in {0} \ {0} : FALSE OBVIOUS
<1>2. Framing(<<>>, 0, {0}) BY <1>1 DEF Framing
<1> QED BY <1>1, <1>2 DEF Framed

\* Whole commands stay so when characters follow them.
LEMMA FramedLonger ==
  ASSUME NEW s \in Seq(Char), NEW u \in Seq(Char), NEW m \in 0 .. Len(s), Framed(s, m)
  PROVE  Framed(s \o u, m)
<1>1. PICK cuts \in SUBSET (0 .. m) : Framing(s, m, cuts) BY DEF Framed
<1>2. \A j \in 1 .. m : (s \o u)[j] = s[j] OBVIOUS
<1> DEFINE v == s \o u
<1> HIDE DEF v
<1>3. ASSUME NEW k \in cuts \ {m}, NEW c \in ValidCalls,
             CommandAt(s, k, c), (k + 1) + Len(c.args) \in cuts
      PROVE  CommandAt(v, k, c)
  <2> DEFINE q == Len(c.args)
  <2>1. q \in Nat BY ValidType
  <2>2. k \in 0 .. m /\ (k + 1) + q \in 0 .. m BY <1>3
  <2> HIDE DEF q
  <2>3. k + 1 \in 1 .. m /\ \A i \in 1 .. q : (k + 1) + i \in 1 .. m BY <2>1, <2>2
  <2> QED BY <1>2, <1>3, <2>3 DEF CommandAt, v, q
<1>4. Framing(v, m, cuts) BY <1>1, <1>3 DEF Framing
<1> QED BY <1>4 DEF Framed, v

\* ... and the command that follows them is one more.
LEMMA FramedMore ==
  ASSUME NEW s \in Seq(Char), NEW m \in Nat, Framed(s, m),
         NEW c \in ValidCalls, CommandAt(s, m, c)
  PROVE  Framed(s, (m + 1) + Len(c.args))
<1>1. PICK cuts \in SUBSET (0 .. m) : Framing(s, m, cuts) BY DEF Framed
<1> DEFINE n == (m + 1) + Len(c.args)
           more == cuts \cup {n}
<1>2. n \in Nat /\ m < n
  <2> DEFINE q == Len(c.args)
  <2>1. q \in Nat BY ValidType
  <2> HIDE DEF q
  <2>2. (m + 1) + q \in Nat /\ m < (m + 1) + q BY <2>1
  <2> QED BY <2>2 DEF q
<1> HIDE DEF n
<1>3. more \in SUBSET (0 .. n) /\ 0 \in more /\ n \in more BY <1>1, <1>2 DEF Framing
<1>4. ASSUME NEW k \in more \ {n}
      PROVE  \E d \in ValidCalls : CommandAt(s, k, d) /\ (k + 1) + Len(d.args) \in more
  <2>1. CASE k = m BY <2>1 DEF n
  <2>2. CASE k # m
    <3>1. k \in cuts \ {m} BY <1>4, <2>2
    <3> QED BY <1>1, <3>1 DEF Framing
  <2> QED BY <2>1, <2>2
<1>5. Framing(s, n, more) BY <1>3, <1>4 DEF Framing
<1> HIDE DEF more
<1>6. Framed(s, n) BY <1>3, <1>5 DEF Framed
<1> QED BY <1>6 DEF n

\* The first of them taken away, the others are whole commands.
LEMMA FramedFirst ==
  ASSUME NEW s \in Seq(Char), NEW m \in 1 .. Len(s), Framed(s, m)
  PROVE  \E c \in ValidCalls :
           /\ CommandAt(s, 0, c) /\ 1 + Len(c.args) <= m
           /\ Framed(Drop(s, 1 + Len(c.args)), m - (1 + Len(c.args)))
<1>1. PICK cuts \in SUBSET (0 .. m) : Framing(s, m, cuts) BY DEF Framed
<1>2. PICK c \in ValidCalls : CommandAt(s, 0, c) /\ (0 + 1) + Len(c.args) \in cuts
  <2>1. 0 \in cuts \ {m} BY <1>1 DEF Framing
  <2> QED BY <1>1, <2>1 DEF Framing
<1> DEFINE n == 1 + Len(c.args)
           r == Drop(s, n)
           left == {k \in 0 .. m - n : k + n \in cuts}
<1>3. /\ n \in cuts /\ n \in 1 .. m /\ Len(c.args) = n - 1
      /\ n \in Nat /\ m \in Nat /\ Len(s) \in Nat /\ m <= Len(s)
  BY <1>1, <1>2, ValidType
<1> HIDE DEF n
<1>4. r \in Seq(Char) /\ Len(r) = Len(s) - n /\ \A j \in 1 .. Len(s) - n : r[j] = s[j + n]
  BY <1>3 DEF Drop
<1> HIDE DEF r
<1>5. left \subseteq 0 .. m - n /\ 0 \in left /\ m - n \in left
  BY <1>1, <1>3 DEF Framing
<1>6. ASSUME NEW k \in left \ {m - n}
      PROVE  \E d \in ValidCalls : CommandAt(r, k, d) /\ (k + 1) + Len(d.args) \in left
  <2>1. k + n \in cuts \ {m} /\ k \in Nat BY <1>3, <1>6
  <2>2. PICK d \in ValidCalls :
          CommandAt(s, k + n, d) /\ ((k + n) + 1) + Len(d.args) \in cuts
    BY <1>1, <2>1 DEF Framing
  <2>3. Len(d.args) \in Nat BY ValidType
  <2>4. (k + 1) + Len(d.args) \in 0 .. m - n
        /\ ((k + 1) + Len(d.args)) + n = ((k + n) + 1) + Len(d.args)
    <3> DEFINE q == Len(d.args)
    <3>1. ((k + n) + 1) + q \in 0 .. m BY <2>2
    <3>2. q \in Nat /\ k \in Nat /\ n \in Nat /\ m \in Nat BY <1>3, <2>1, <2>3
    <3> HIDE DEF q, left
    <3>3. (k + 1) + q \in 0 .. m - n /\ ((k + 1) + q) + n = ((k + n) + 1) + q
      BY <3>1, <3>2
    <3> QED BY <3>3 DEF q
  <2>5. (k + 1) + Len(d.args) \in left BY <2>2, <2>4
  <2>6. ASSUME NEW i \in 0 .. Len(d.args)
        PROVE  r[(k + 1) + i] = s[((k + n) + 1) + i]
    <3> DEFINE q == Len(d.args)  z == Len(s)
    <3>1. q \in Nat /\ z \in Nat /\ m <= z /\ n \in Nat /\ m \in Nat /\ k \in Nat
      BY <1>3, <2>1, <2>3
    <3>3. i \in Nat /\ i <= q BY <2>3
    <3> HIDE DEF q, z, left
    <3>4. (k + 1) + q \in 0 .. m - n BY <2>4 DEF q
    <3>2. (k + 1) + i \in 1 .. z - n /\ ((k + 1) + i) + n = ((k + n) + 1) + i
      BY <3>1, <3>3, <3>4
    <3> QED BY <1>4, <3>2 DEF z
  <2>7. r[k + 1] = s[(k + n) + 1]
    <3> HIDE DEF left
    <3>1. 0 \in 0 .. Len(d.args) BY <2>3
    <3>2. r[(k + 1) + 0] = s[((k + n) + 1) + 0] BY <2>6, <3>1
    <3>3. (k + 1) + 0 = k + 1 /\ ((k + n) + 1) + 0 = (k + n) + 1 BY <1>3, <2>1
    <3> QED BY <3>2, <3>3
  <2>8. \A i \in 1 .. Len(d.args) : i \in 0 .. Len(d.args) BY <2>3
  <2>9. CommandAt(r, k, d) BY <2>2, <2>6, <2>7, <2>8 DEF CommandAt
  <2> QED BY <2>5, <2>9
<1>7. Framing(r, m - n, left) BY <1>5, <1>6 DEF Framing
<1>8. Framed(r, m - n) BY <1>5, <1>7 DEF Framed
<1>9. CommandAt(s, 0, c) /\ n <= m /\ Framed(Drop(s, n), m - n) BY <1>2, <1>3, <1>8 DEF r
<1> QED BY <1>9 DEF n


\* The board takes the first of the whole commands.
LEMMA FirstTaken ==
  ASSUME Matched, NEW s \in Seq(Char), NEW m \in 1 .. Len(s), Framed(s, m),
         NEW n, n = NbArgs(s[1].ch)
  PROVE  /\ n \in Nat /\ n + 1 <= m
         /\ Framed(Drop(s, n + 1), m - (n + 1))
         /\ \E c \in ValidCalls : CommandAt(s, 0, c) /\ Len(c.args) = n
<1>1. PICK c \in ValidCalls :
        /\ CommandAt(s, 0, c) /\ 1 + Len(c.args) <= m
        /\ Framed(Drop(s, 1 + Len(c.args)), m - (1 + Len(c.args)))
  BY FramedFirst
<1>2. s[1].ch = c.code BY <1>1 DEF CommandAt
<1>3. n = Len(c.args) BY <1>2, BoardKnowsCall
<1>4. n \in Nat /\ 1 + n = n + 1 BY <1>3, ValidType
<1> HIDE DEF NbArgs
<1>5. n + 1 <= m /\ Framed(Drop(s, n + 1), m - (n + 1)) BY <1>1, <1>3, <1>4
<1> QED BY <1>1, <1>3, <1>4, <1>5

\* Of calls that all take the mutex, one at most is in its transfer.
LEMMA OneTransfer ==
  ASSUME MutexInv, Begun, Matched, NEW t \in Threads, NEW u \in Threads,
         InTransfer(t), InTransfer(u)
  PROVE  t = u
<1>1. call[t].lock /\ call[u].lock BY DEF Begun, Matched, ValidCalls, InTransfer
<1> QED BY <1>1 DEF MutexInv, MutualExclusion

\* A whole command is there when the board can take one.
LEMMA SentCount ==
  ASSUME TypeOK, Begun, Matched, SentWhole, Complete
  PROVE  \/ (\A t \in Threads : pc[t] # "args") /\ Framed(tx, Len(tx)) /\ Len(tx) \in 1 .. Len(tx)
         \/ \E t \in Threads : pc[t] = "args" /\ HalfSent(t) /\ Len(tx) - 1 \in 1 .. Len(tx)
<1>1. tx \in Seq(Char) /\ tx # <<>> /\ Len(tx) \in 1 .. Len(tx) BY DEF TypeOK, Complete
<1>2. CASE \A t \in Threads : pc[t] # "args" BY <1>1, <1>2 DEF SentWhole
<1>3. ASSUME NEW t \in Threads, pc[t] = "args" PROVE Len(tx) - 1 \in 1 .. Len(tx)
  <2>1. HalfSent(t) /\ call[t] \in ValidCalls BY <1>3 DEF SentWhole, Begun
  <2>2. CASE Len(tx) = 1
    <3>1. NbArgs(tx[1].ch) = Len(call[t].args) BY <2>1, <2>2, BoardKnowsCall DEF HalfSent
    <3>2. Len(call[t].args) \in Nat /\ Len(call[t].args) # 0
      BY <2>1, ValidType DEF HalfSent
    <3> QED BY <2>2, <3>1, <3>2 DEF Complete
  <2>3. CASE Len(tx) # 1
    <3> DEFINE n == Len(tx)
    <3>1. n \in 1 .. n /\ n # 1 /\ n \in Nat BY <1>1, <2>3
    <3> HIDE DEF n
    <3>2. n - 1 \in 1 .. n BY <3>1
    <3> QED BY <3>2 DEF n
  <2> QED BY <2>2, <2>3
<1> QED BY <1>2, <1>3 DEF SentWhole

\* A step that sends nothing, and lets no thread begin or end its sending.
LEMMA SentSame ==
  ASSUME SentWhole, tx' = tx, \A u \in Threads : pc'[u] = "args" <=> pc[u] = "args",
         \A u \in Threads : pc[u] = "args" => call'[u] = call[u]
  PROVE  SentWhole'
BY DEF SentWhole, HalfSent

\* Characters joined: those of one behind those of the other.
LEMMA JoinShape ==
  ASSUME NEW s \in Seq(Char), NEW u \in Seq(Char)
  PROVE  /\ s \o u \in Seq(Char) /\ Len(s \o u) = Len(s) + Len(u)
         /\ \A i \in 1 .. Len(s) : (s \o u)[i] = s[i]
         /\ \A i \in 1 .. Len(u) : (s \o u)[Len(s) + i] = u[i]
OBVIOUS

\* Joining is associative.
LEMMA JoinTwice ==
  ASSUME NEW s \in Seq(Char), NEW u \in Seq(Char), NEW v \in Seq(Char)
  PROVE  (s \o u) \o v = s \o (u \o v)
OBVIOUS

\* A command is sent behind whole commands.
LEMMA SentCode ==
  ASSUME TypeOK, MutexInv, Begun, Matched, SentWhole, NEW t \in Threads, WriteCode(t)
  PROVE  SentWhole'
<1> DEFINE code == <<call[t].code>>
           u    == Chars(code, Tag(t))
           n    == Len(tx)
<1>1. /\ InTransfer(t) /\ call[t] \in ValidCalls /\ call' = call
      /\ tx \in Seq(Char) /\ tx' = tx \o u
  BY TableCall DEF WriteCode, InTransfer, Begun, TypeOK
<1>2. \A v \in Threads : pc[v] # "args" BY <1>1, OneTransfer DEF InTransfer, WriteCode
<1>3. Framed(tx, n) /\ n \in 0 .. Len(tx) /\ n \in Nat BY <1>1, <1>2 DEF SentWhole
<1>4. code \in Seq(Nat) /\ Len(code) = 1 /\ code[1] = call[t].code BY <1>1, ValidType
<1> HIDE DEF code
<1>5. /\ u \in Seq(Char) /\ Len(u) = 1
      /\ u[1].ch = call[t].code /\ u[1].by[3] = call[t].code
  <2>1. Tag(t)[3] = call[t].code BY DEF Tag
  <2>2. Tag(t) \in Threads \X Nat \X Nat BY TagType
  <2>3. u \in Seq(Char) /\ Len(u) = 1 /\ u[1].ch = code[1] /\ u[1].by = Tag(t)
    BY <1>4, <2>2, CharsType, CharsShape
  <2> QED BY <1>4, <2>1, <2>3
<1> HIDE DEF u
<1>6. Len(tx') = n + 1 /\ tx'[n + 1] = u[1] /\ tx' \in Seq(Char)
  <2>1. tx \in Seq(Char) /\ u \in Seq(Char) /\ tx' = tx \o u BY <1>1, <1>5
  <2>2. /\ tx' \in Seq(Char) /\ Len(tx') = Len(tx) + Len(u)
        /\ \A i \in 1 .. Len(u) : tx'[Len(tx) + i] = u[i]
    BY <2>1, JoinShape
  <2>3. Len(u) = 1 /\ 1 \in 1 .. Len(u) BY <1>5
  <2> QED BY <2>2, <2>3 DEF n
<1>7. Framed(tx', n) BY <1>1, <1>3, <1>5, FramedLonger
<1> HIDE DEF n
<1>8. CASE call[t].args = <<>>
  <2>1. \A v \in Threads : pc'[v] # "args" BY <1>1, <1>2, <1>8, TableCall DEF WriteCode, TypeOK
  <2>2. Len(call[t].args) = 0 BY <1>8
  <2>3. CommandAt(tx', n, call[t]) BY <1>5, <1>6, <2>2 DEF CommandAt
  <2>4. Framed(tx', (n + 1) + Len(call[t].args)) BY <1>1, <1>3, <1>6, <1>7, <2>3, FramedMore
  <2>5. (n + 1) + Len(call[t].args) = Len(tx') BY <1>3, <1>6, <2>2
  <2> QED BY <2>1, <2>4, <2>5 DEF SentWhole
<1>9. CASE call[t].args # <<>>
  <2>1. pc'[t] = "args" /\ \A v \in Threads : pc'[v] = "args" => v = t
    BY <1>1, <1>2, <1>9, TableCall DEF WriteCode, TypeOK
  <2>2. /\ tx' # <<>> /\ Len(tx') - 1 = n /\ tx'[Len(tx')].ch = call'[t].code
        /\ tx'[Len(tx')].by[3] = call'[t].code
    <3>1. Len(tx') = n + 1 /\ (n + 1) - 1 = n /\ n + 1 # 0 BY <1>3, <1>6
    <3>2. tx' # <<>> BY <3>1
    <3>3. tx'[n + 1] = u[1] /\ call'[t] = call[t] BY <1>1, <1>6
    <3> QED BY <1>5, <3>1, <3>2, <3>3
  <2>3. HalfSent(t)' BY <1>1, <1>7, <1>9, <2>2 DEF HalfSent
  <2> QED BY <2>1, <2>3 DEF SentWhole
<1> QED BY <1>8, <1>9

\* ... and its arguments make it whole.
LEMMA SentArgs ==
  ASSUME TypeOK, MutexInv, Begun, Matched, SentWhole, NEW t \in Threads, WriteArgs(t)
  PROVE  SentWhole'
<1> DEFINE a == call[t].args
           u == Chars(a, Tag(t))
           n == Len(tx) - 1
<1>1. /\ InTransfer(t) /\ call[t] \in ValidCalls /\ HalfSent(t)
      /\ tx \in Seq(Char) /\ tx' = tx \o u
  BY TableCall DEF WriteArgs, InTransfer, Begun, TypeOK, SentWhole
<1>2. \A v \in Threads : pc'[v] # "args"
  <2>1. \A v \in Threads : pc[v] = "args" => v = t BY <1>1, OneTransfer DEF InTransfer
  <2> QED BY <2>1 DEF WriteArgs, TypeOK
<1>3. n \in 0 .. Len(tx) /\ n \in Nat /\ n + 1 = Len(tx) /\ Framed(tx, n)
      /\ tx[n + 1].ch = call[t].code /\ tx[n + 1].by[3] = call[t].code
  BY <1>1 DEF HalfSent
<1>4. a \in Seq(Nat) /\ Len(a) \in Nat BY <1>1, ValidType
<1> HIDE DEF n
<1>5. /\ u \in Seq(Char) /\ Len(u) = Len(a)
      /\ \A i \in 1 .. Len(a) : u[i].ch = a[i]
  BY <1>4, TagType, CharsType, CharsShape
<1> HIDE DEF u
<1>6. Framed(tx', n) BY <1>1, <1>3, <1>5, FramedLonger
<1>7. /\ Len(tx') = (n + 1) + Len(a) /\ tx'[n + 1] = tx[n + 1] /\ tx' \in Seq(Char)
      /\ \A i \in 1 .. Len(a) : tx'[(n + 1) + i] = u[i]
  <2> HIDE DEF a
  <2>1. tx \in Seq(Char) /\ u \in Seq(Char) /\ tx' = tx \o u BY <1>1, <1>5
  <2>2. /\ tx' \in Seq(Char) /\ Len(tx') = Len(tx) + Len(u)
        /\ \A i \in 1 .. Len(tx) : tx'[i] = tx[i]
        /\ \A i \in 1 .. Len(u) : tx'[Len(tx) + i] = u[i]
    BY <2>1, JoinShape
  <2>3. n + 1 \in 1 .. Len(tx) BY <1>1, <1>3
  <2> QED BY <1>3, <1>5, <2>2, <2>3
<1>8. CommandAt(tx', n, call[t]) BY <1>3, <1>5, <1>7 DEF CommandAt
<1>9. Framed(tx', (n + 1) + Len(a)) BY <1>1, <1>3, <1>6, <1>7, <1>8, FramedMore
<1> QED BY <1>2, <1>7, <1>9 DEF SentWhole

\* The board leaves the commands behind the one it takes.
LEMMA SentTaken ==
  ASSUME TypeOK, MutexInv, Begun, Matched, SentWhole, BoardAnswers
  PROVE  SentWhole'
<1> DEFINE n == NbArgs(tx[1].ch)
<1>1. /\ UNCHANGED <<pc, call>> /\ Complete /\ tx' = Drop(tx, n + 1)
      /\ tx \in Seq(Char)
  BY DEF BoardAnswers, thread, TypeOK
<1> HIDE DEF n
<1>2. ASSUME NEW m \in 1 .. Len(tx), Framed(tx, m)
      PROVE  /\ n \in Nat /\ n + 1 <= m /\ Framed(tx', m - (n + 1))
             /\ Len(tx') = Len(tx) - (n + 1)
             /\ m < Len(tx) => tx' # <<>> /\ tx'[Len(tx')] = tx[Len(tx)]
  <2>1. n \in Nat /\ n + 1 <= m /\ Framed(tx', m - (n + 1))
    BY <1>1, <1>2, FirstTaken DEF n
  <2>2. n + 1 \in 0 .. Len(tx) /\ n + 1 <= m BY <2>1
  <2> DEFINE k == n + 1
  <2> HIDE DEF k
  <2>3. k \in 0 .. Len(tx) /\ k <= m /\ tx' = SubSeq(tx, k + 1, Len(tx))
    BY <1>1, <2>2 DEF k, Drop
  <2>4. Len(tx') = Len(tx) - k /\ \A i \in 1 .. Len(tx) - k : tx'[i] = tx[i + k]
    BY <1>1, <2>3
  <2>5. ASSUME m < Len(tx) PROVE tx' # <<>> /\ tx'[Len(tx')] = tx[Len(tx)]
    <3>1. Len(tx) - k \in 1 .. Len(tx) - k /\ (Len(tx) - k) + k = Len(tx)
      BY <1>1, <2>3, <2>5
    <3>2. tx'[Len(tx')] = tx[Len(tx)] BY <2>4, <3>1
    <3> QED BY <2>4, <3>1, <3>2
  <2> QED BY <2>1, <2>4, <2>5 DEF k
<1>3. CASE /\ \A t \in Threads : pc[t] # "args"
           /\ Framed(tx, Len(tx)) /\ Len(tx) \in 1 .. Len(tx)
  <2>1. Framed(tx', Len(tx')) BY <1>2, <1>3
  <2> QED BY <1>1, <1>3, <2>1 DEF SentWhole
<1>4. ASSUME NEW t \in Threads, pc[t] = "args", HalfSent(t), Len(tx) - 1 \in 1 .. Len(tx)
      PROVE  SentWhole'
  <2>1. \A v \in Threads : pc[v] = "args" => v = t BY <1>4, OneTransfer DEF InTransfer
  <2>2. Framed(tx, Len(tx) - 1) BY <1>4 DEF HalfSent
  <2>3. /\ n \in Nat /\ Framed(tx', (Len(tx) - 1) - (n + 1))
        /\ Len(tx') = Len(tx) - (n + 1)
        /\ Len(tx) - 1 < Len(tx) => tx' # <<>> /\ tx'[Len(tx')] = tx[Len(tx)]
    BY <1>2, <1>4, <2>2
  <2>4. Len(tx') - 1 = (Len(tx) - 1) - (n + 1) /\ Len(tx) - 1 < Len(tx) BY <1>1, <2>3
  <2>5. HalfSent(t)' BY <1>1, <1>4, <2>3, <2>4 DEF HalfSent
  <2> QED BY <1>1, <1>4, <2>1, <2>5 DEF SentWhole
<1> QED BY <1>1, <1>3, <1>4, SentCount


\* SentWhole is inductive.
LEMMA SentKept ==
  ASSUME TypeOK, MutexInv, Begun, Matched, SentWhole, [Next]_vars
  PROVE  SentWhole'
<1>1. ASSUME NEW t \in Threads, NEW c \in Calls, Enter(t, c) PROVE SentWhole'
  <2>1. c.lock /\ pc[t] = "idle" BY <1>1 DEF Enter, Matched
  <2>2. /\ tx' = tx /\ \A u \in Threads : pc'[u] = "args" <=> pc[u] = "args"
        /\ \A u \in Threads : pc[u] = "args" => call'[u] = call[u]
    BY <1>1, <2>1 DEF Enter, TypeOK, line
  <2> QED BY <2>2, SentSame
<1>2. ASSUME NEW t \in Threads, Lock(t) PROVE SentWhole'
  <2>1. /\ UNCHANGED <<tx, call>> /\ \A u \in Threads : pc'[u] = "args" <=> pc[u] = "args"
    BY <1>2 DEF Lock, TypeOK, line
  <2> QED BY <2>1, SentSame
<1>3. ASSUME NEW t \in Threads, ReadCode(t) \/ ReadData(t) \/ ReadEnd(t) PROVE SentWhole'
  <2>1. UNCHANGED <<tx, call>> /\ pc[t] # "args"
    BY <1>3 DEF ReadCode, ReadData, ReadEnd
  <2>2. \E to \in {"data", "end", "unlock"} : pc' = [pc EXCEPT ![t] = to]
    BY <1>3 DEF ReadCode, ReadData, ReadEnd, Finish
  <2>3. \A u \in Threads : pc'[u] = "args" <=> pc[u] = "args" BY <2>1, <2>2 DEF TypeOK
  <2> QED BY <2>1, <2>3, SentSame
<1>4. ASSUME NEW t \in Threads, Unlock(t) PROVE SentWhole'
  <2>1. /\ tx' = tx /\ \A u \in Threads : pc'[u] = "args" <=> pc[u] = "args"
        /\ \A u \in Threads : pc[u] = "args" => call'[u] = call[u]
    BY <1>4 DEF Unlock, TypeOK, line
  <2> QED BY <2>1, SentSame
<1>5. CASE Receive \/ Finished \/ UNCHANGED vars
  <2>1. UNCHANGED <<tx, call, pc>>
    BY <1>5 DEF Receive, Finished, vars, thread, line
  <2> QED BY <2>1, SentSame
<1> QED BY <1>1, <1>2, <1>3, <1>4, <1>5, SentCode, SentArgs, SentTaken DEF Next, Step

-----------------------------------------------------------------------------
(***************************************************************************)
(* The refinement: PriamSerial implements PriamService.                    *)
(***************************************************************************)
\* Nothing was answered to a call before its command was taken.
Unserved ==
  late = 0 => \A t \in Threads :
    pc[t] \in {"idle", "lock", "code", "args"} \/ tx # <<>> => due[t] = <<>>

Idle == \A t \in Threads : pc[t] = "idle" => call[t] = NoCall

ServiceInv == LineInv /\ SentWhole /\ Unserved /\ Idle

\* While a call is at work, the others wait or have not begun.
LEMMA OthersWait ==
  ASSUME TypeOK, MutexInv, Begun, Matched, NEW t \in Threads, NEW u \in Threads, u # t,
         InTransfer(t) \/ pc[t] = "unlock"
  PROVE  pc[u] \in {"idle", "lock"}
<1>1. pc[t] # "idle" /\ (pc[u] # "idle" => call[u].lock) /\ call[t].lock
  BY DEF Begun, Matched, ValidCalls, InTransfer
<1>2. pc[u] \in PCs BY DEF TypeOK
<1> QED BY <1>1, <1>2 DEF MutexInv, MutualExclusion, InTransfer, PCs

LEMMA UnservedKept ==
  ASSUME LineInv, Matched, Unserved, [Next]_vars
  PROVE  Unserved'
<1> SUFFICES ASSUME late' = 0, NEW u \in Threads,
                    pc'[u] \in {"idle", "lock", "code", "args"} \/ tx' # <<>>
             PROVE  due'[u] = <<>>
  BY DEF Unserved
<1>1. TypeOK /\ MutexInv /\ Begun /\ late = 0 BY LateStays DEF LineInv
<1>2. pc[u] \in {"idle", "lock", "code", "args"} \/ tx # <<>> => due[u] = <<>>
  BY <1>1 DEF Unserved
<1>3. ASSUME NEW t \in Threads, NEW c \in Calls, Enter(t, c) PROVE due'[u] = <<>>
  BY <1>1, <1>2, <1>3 DEF Enter, TypeOK, line
<1>4. ASSUME NEW t \in Threads, Lock(t) PROVE due'[u] = <<>>
  BY <1>1, <1>2, <1>4 DEF Lock, TypeOK, line
<1>5. ASSUME NEW t \in Threads, WriteCode(t) \/ WriteArgs(t) PROVE due'[u] = <<>>
  <2>1. due' = due /\ pc[t] \in {"code", "args"} BY <1>5 DEF WriteCode, WriteArgs
  <2>2. u # t => pc[u] \in {"idle", "lock"} BY <1>1, <2>1, OthersWait DEF InTransfer
  <2> QED BY <1>2, <2>1, <2>2
<1>6. ASSUME NEW t \in Threads, ReadCode(t) \/ ReadData(t) \/ ReadEnd(t)
      PROVE  due'[u] = <<>>
  <2>1. UNCHANGED <<tx, due>> BY <1>6 DEF ReadCode, ReadData, ReadEnd
  <2>2. \E to \in {"data", "end", "unlock"} : pc' = [pc EXCEPT ![t] = to]
    BY <1>6 DEF ReadCode, ReadData, ReadEnd, Finish
  <2> QED BY <1>1, <1>2, <2>1, <2>2 DEF TypeOK
<1>7. ASSUME NEW t \in Threads, Unlock(t) PROVE due'[u] = <<>>
  BY <1>1, <1>2, <1>7 DEF Unlock, TypeOK, line
<1>8. CASE BoardAnswers
  <2>1. mutex # NoThread
    BY <1>1, <1>8 DEF LineInv, InStep, InPlace, BoardAnswers, Complete, NothingOnLine
  <2>2. PICK t \in Threads : mutex = t BY <1>1, <2>1 DEF TypeOK
  <2>3. Alone(t) /\ call[t] \in ValidCalls
    BY <1>1, <2>2 DEF LineInv, InStep, InPlace, Alone, Place, Begun
  <2>4. /\ pc[t] = "answer" /\ tx' = <<>> /\ tx # <<>> /\ tx[1].by = Tag(t)
        /\ Tag(t)[1] = t
    BY <1>8, <2>3, BoardTakes DEF Tag
  <2>5. pc' = pc /\ u # t BY <1>8, <2>4 DEF BoardAnswers, thread
  <2>6. due'[u] = due[u] BY <1>1, <1>8, <2>4, <2>5 DEF BoardAnswers, TypeOK
  <2> QED BY <1>2, <2>4, <2>6
<1>9. CASE Receive \/ Finished \/ UNCHANGED vars
  <2>1. UNCHANGED <<tx, due, pc>> BY <1>9 DEF Receive, Finished, vars, thread, line
  <2> QED BY <1>2, <2>1
<1> QED BY <1>3, <1>4, <1>5, <1>6, <1>7, <1>8, <1>9 DEF Next, Step

LEMMA IdleKept ==
  ASSUME TypeOK, Idle, [Next]_vars
  PROVE  Idle'
<1>1. ASSUME NEW t \in Threads, NEW c \in Calls, Enter(t, c) PROVE Idle'
  BY <1>1 DEF Enter, TypeOK, Idle
<1>2. ASSUME NEW t \in Threads, Unlock(t) PROVE Idle'
  BY <1>2 DEF Unlock, TypeOK, Idle
<1>3. ASSUME NEW t \in Threads, Step(t), ~Unlock(t) PROVE Idle'
  <2>1. call' = call
    BY <1>3 DEF Step, Lock, WriteCode, WriteArgs, ReadCode, ReadData, ReadEnd
  <2>2. \E to \in PCs \ {"idle"} : pc' = [pc EXCEPT ![t] = to]
    BY <1>3 DEF Step, Lock, WriteCode, WriteArgs, ReadCode, ReadData, ReadEnd, Finish, PCs
  <2> QED BY <2>1, <2>2 DEF TypeOK, Idle
<1>4. CASE BoardAnswers \/ Receive \/ Finished \/ UNCHANGED vars
  BY <1>4 DEF BoardAnswers, Receive, Finished, vars, thread, Idle
<1> QED BY <1>1, <1>2, <1>3, <1>4 DEF Next

LEMMA ServiceInvariant ==
  ASSUME Matched
  PROVE  Spec => []ServiceInv
<1>1. Init => SentWhole /\ Unserved /\ Idle
  <2> SUFFICES ASSUME Init PROVE SentWhole /\ Unserved /\ Idle OBVIOUS
  <2>1. Len(<<>>) = 0 OBVIOUS
  <2>2. SentWhole BY <2>1, FramedEmpty DEF Init, SentWhole
  <2> QED BY <2>2 DEF Init, Unserved, Idle
<1>2. LineInv /\ SentWhole /\ Unserved /\ Idle /\ [Next]_vars
        => SentWhole' /\ Unserved' /\ Idle'
  BY SentKept, UnservedKept, IdleKept DEF LineInv
<1> QED BY <1>1, <1>2, LineInvariant, PTL DEF Spec, ServiceInv


\* What the abstract store sees of a call.
ServedOf(t) == IF Len(due[t]) < 2 THEN {} ELSE {Payload(due[t])}
ReplyOf(t)  == [how   |-> IF pc[t] # "unlock" THEN "none"
                          ELSE IF res[t] = "ok" THEN "value" ELSE "exception",
                value |-> IF pc[t] = "unlock" /\ res[t] = "ok"
                          THEN Payload(Codes(got[t])) ELSE <<>>]
Served == [t \in Threads |-> ServedOf(t)]
Reply  == [t \in Threads |-> ReplyOf(t)]

\* A call has a reply when it is about to end, and only then.
LEMMA ReplyIs ==
  ASSUME NEW t \in Threads
  PROVE  /\ pc[t] # "unlock" => ReplyOf(t) = Service!NotYet
         /\ pc[t] = "unlock" /\ res[t] # "ok" => ReplyOf(t) = Service!Exception
         /\ pc[t] = "unlock" /\ res[t] = "ok" =>
              ReplyOf(t) = Service!Value(Payload(Codes(got[t])))
         /\ pc[t] = "unlock" => ReplyOf(t) # Service!NotYet
BY DEF ReplyOf, Service!NotYet, Service!Exception, Service!Value

\* A thread changes what the store sees of its own call.
LEMMA OthersSame ==
  ASSUME TypeOK, NEW t \in Threads, Step(t) \/ \E c \in Calls : Enter(t, c),
         NEW u \in Threads, u # t
  PROVE  call'[u] = call[u] /\ ReplyOf(u)' = ReplyOf(u) /\ ServedOf(u)' = ServedOf(u)
<1>1. CASE \E c \in Calls : Enter(t, c)
  BY <1>1 DEF Enter, TypeOK, ReplyOf, ServedOf
<1>2. CASE Lock(t) BY <1>2 DEF Lock, TypeOK, ReplyOf, ServedOf
<1>3. CASE WriteCode(t) \/ WriteArgs(t)
  BY <1>3 DEF WriteCode, WriteArgs, TypeOK, ReplyOf, ServedOf
<1>4. CASE ReadCode(t) \/ ReadData(t) \/ ReadEnd(t)
  <2>1. UNCHANGED <<call, due>> BY <1>4 DEF ReadCode, ReadData, ReadEnd
  <2>2. pc'[u] = pc[u] /\ res'[u] = res[u] /\ got'[u] = got[u]
    BY <1>4 DEF ReadCode, ReadData, ReadEnd, FirstChar, Finish, TypeOK
  <2> QED BY <2>1, <2>2 DEF ReplyOf, ServedOf
<1>5. CASE Unlock(t) BY <1>5 DEF Unlock, TypeOK, ReplyOf, ServedOf
<1> QED BY <1>1, <1>2, <1>3, <1>4, <1>5 DEF Step

\* A step the store does not see.
Unseen == /\ UNCHANGED <<call, mem>> /\ (late > 0)' = (late > 0)
          /\ \A t \in Threads : ReplyOf(t)' = ReplyOf(t) /\ ServedOf(t)' = ServedOf(t)

LEMMA UnseenStutters ==
  ASSUME Unseen
  PROVE  UNCHANGED Service!vars
<1>1. Served' = Served /\ Reply' = Reply BY DEF Unseen, Served, Reply
<1> QED BY <1>1 DEF Unseen, Service!vars, Served, Reply, ServedOf, ReplyOf

\* A method that is entered begins a call.
LEMMA EnterBegins ==
  ASSUME ServiceInv, Matched, NEW t \in Threads, NEW c \in Calls, Enter(t, c)
  PROVE  Service!Begin(t, c)
<1>1. TypeOK /\ call[t] = NoCall /\ call' = [call EXCEPT ![t] = c] /\ UNCHANGED <<mem, due>>
  BY DEF ServiceInv, LineInv, Idle, Enter
<1>2. pc[t] = "idle" /\ pc'[t] = "lock" BY <1>1 DEF Enter, Matched, TypeOK
<1>3. ReplyOf(t)' = ReplyOf(t) BY <1>2 DEF ReplyOf
<1>4. \A u \in Threads : ReplyOf(u)' = ReplyOf(u)
  <2>1. \A u \in Threads \ {t} : ReplyOf(u)' = ReplyOf(u) BY <1>1, OthersSame
  <2> QED BY <1>3, <2>1
<1>5. Reply' = Reply /\ Served' = Served BY <1>1, <1>4 DEF Reply, Served, ServedOf
<1> QED BY <1>1, <1>5 DEF Service!Begin, Reply, Served, ReplyOf, ServedOf


\* The end of the reading of an answer is a return, or an exception.
LEMMA ReadEnds ==
  ASSUME ServiceInv, ServiceInv', Matched, NEW t \in Threads, late' = 0,
         ReadCode(t) \/ ReadEnd(t), pc'[t] = "unlock"
  PROVE  Service!Return(t) \/ Service!Throw(t)
<1>1. /\ TypeOK /\ TypeOK' /\ UNCHANGED <<call, mem, due>>
      /\ pc[t] \in {"answer", "end"} /\ pc[t] # "unlock" /\ pc[t] # "idle"
  BY DEF ServiceInv, LineInv, ReadCode, ReadEnd
<1>2. ReplyOf(t) = Service!NotYet BY <1>1, ReplyIs
<1>3. \A u \in Threads \ {t} : ReplyOf(u)' = ReplyOf(u) BY <1>1, OthersSame DEF Step
<1>4. call[t] # NoCall
  BY <1>1 DEF ServiceInv, LineInv, Begun, ValidCalls, Matched, NoCall, Call
<1>5. Served' = Served BY <1>1 DEF Served, ServedOf
<1>6. Reply' = [Reply EXCEPT ![t] = ReplyOf(t)'] BY <1>3 DEF Reply
<1>7. CASE res'[t] = "ok"
  <2>1. mutex' = t /\ t # NoThread
    <3>1. mutex = t /\ t # NoThread
      BY <1>1, Holder DEF ServiceInv, InTransfer
    <3> QED BY <3>1 DEF ReadCode, ReadEnd
  <2>2. Place(t)' BY <2>1 DEF ServiceInv, LineInv, InStep, InPlace, Alone
  <2>3. Codes(got'[t]) = due'[t] /\ Len(due'[t]) = call'[t].rsize + 2
    BY <1>7, <2>2 DEF Place, Normal
  <2>4. call[t].rsize \in Nat /\ due' = due /\ call' = call BY <1>1 DEF TypeOK, CallType
  <2>5. ServedOf(t) = {Payload(due[t])} BY <2>3, <2>4 DEF ServedOf
  <2>6. ReplyOf(t)' = Service!Value(Payload(due[t]))
    BY <1>7, <2>3, <2>4 DEF ReplyOf, Service!Value
  <2>7. Reply[t] = Service!NotYet /\ Payload(due[t]) \in Served[t]
    BY <1>2, <2>5 DEF Reply, Served
  <2>8. Reply' = [Reply EXCEPT ![t] = Service!Value(Payload(due[t]))] BY <1>6, <2>6
  <2>9. Service!Return(t)
    BY <1>1, <1>5, <2>7, <2>8 DEF Service!Return, Reply, Served, ReplyOf, ServedOf
  <2> QED BY <2>9
<1>8. CASE res'[t] # "ok"
  <2>1. ReplyOf(t)' = Service!Exception BY <1>8 DEF ReplyOf, Service!Exception
  <2>2. Reply[t] = Service!NotYet BY <1>2 DEF Reply
  <2>3. Reply' = [Reply EXCEPT ![t] = Service!Exception] BY <1>6, <2>1
  <2>4. Service!Throw(t)
    BY <1>1, <1>4, <1>5, <2>2, <2>3 DEF Service!Throw, Reply, Served, ReplyOf, ServedOf
  <2> QED BY <2>4
<1> QED BY <1>7, <1>8

\* The end of a call forgets what it was served and what it said.
LEMMA UnlockEnds ==
  ASSUME ServiceInv, NEW t \in Threads, Unlock(t)
  PROVE  Service!End(t)
<1>1. /\ TypeOK /\ pc[t] = "unlock" /\ call' = [call EXCEPT ![t] = NoCall] /\ mem' = mem
      /\ pc'[t] = "idle" /\ due'[t] = <<>>
  BY DEF ServiceInv, LineInv, TypeOK, Unlock
<1>2. Reply[t] # Service!NotYet BY <1>1, ReplyIs DEF Reply
<1>3. \A u \in Threads \ {t} : ReplyOf(u)' = ReplyOf(u) /\ ServedOf(u)' = ServedOf(u)
  BY <1>1, OthersSame DEF Step
<1>4. ReplyOf(t)' = Service!NotYet BY <1>1 DEF ReplyOf, Service!NotYet
<1>5. ServedOf(t)' = {}
  <2>1. Len(due'[t]) = 0 BY <1>1
  <2> QED BY <2>1 DEF ServedOf
<1>6. Reply' = [Reply EXCEPT ![t] = Service!NotYet] BY <1>3, <1>4 DEF Reply
<1>7. Served' = [Served EXCEPT ![t] = {}] BY <1>3, <1>5 DEF Served
<1> QED BY <1>1, <1>2, <1>6, <1>7 DEF Service!End, Reply, Served, ReplyOf, ServedOf

\* The payload of an answer is what is between its code and its end.
LEMMA PayloadIs ==
  ASSUME NEW code \in Nat, NEW m \in Seq(Nat)
  PROVE  /\ Payload(<<code>> \o m \o <<SERIAL_END>>) = m
         /\ Payload(<<code, SERIAL_END>>) = <<>>
<1> DEFINE a == <<code>> \o m
           b == a \o <<SERIAL_END>>
<1>1. SERIAL_END \in Nat BY DEF SERIAL_END
<1>2. a \in Seq(Nat) /\ Len(a) = Len(m) + 1 /\ \A i \in 1 .. Len(m) : a[i + 1] = m[i]
  OBVIOUS
<1> HIDE DEF a
<1>3. /\ b \in Seq(Nat) /\ Len(b) = Len(m) + 2
      /\ \A i \in 1 .. Len(m) : b[i + 1] = m[i]
  BY <1>1, <1>2
<1> HIDE DEF b
<1>4. Payload(b) \in Seq(Nat) /\ Len(Payload(b)) = Len(m)
      /\ \A i \in 1 .. Len(m) : Payload(b)[i] = m[i]
  <2> DEFINE k == Len(m)
  <2>1. k \in Nat /\ Len(b) - 1 = k + 1 /\ Len(b) = k + 2 BY <1>3
  <2>2. Payload(b) = SubSeq(b, 2, k + 1) BY <2>1 DEF Payload
  <2> HIDE DEF k
  <2>3. /\ SubSeq(b, 2, k + 1) \in Seq(Nat) /\ Len(SubSeq(b, 2, k + 1)) = k
        /\ \A i \in 1 .. k : SubSeq(b, 2, k + 1)[i] = b[i + 1]
    BY <1>3, <2>1
  <2> QED BY <1>3, <2>2, <2>3 DEF k
<1>5. Payload(b) = m BY <1>4, SeqEqual
<1>6. Payload(<<code, SERIAL_END>>) = <<>> BY <1>1 DEF Payload
<1> QED BY <1>5, <1>6 DEF a, b


\* The board's taking of a command is the instant the call is served; a
\* refusal, or silence, serves nothing.
LEMMA BoardServes ==
  ASSUME ServiceInv, Matched, late = 0, BoardAnswers
  PROVE  Unseen \/ \E t \in Threads : Service!Read(t) \/ Service!Write(t)
<1>1. TypeOK /\ TypeOK' /\ UNCHANGED <<pc, call, res, got, late>>
  BY BoardType DEF ServiceInv, LineInv, BoardAnswers, thread
<1>2. mutex # NoThread
  BY DEF ServiceInv, LineInv, InStep, InPlace, BoardAnswers, Complete, NothingOnLine
<1>3. PICK t \in Threads : mutex = t BY <1>1, <1>2 DEF TypeOK
<1>4. Alone(t) /\ call[t] \in ValidCalls
  BY <1>3 DEF ServiceInv, LineInv, InStep, InPlace, Alone, Place, Begun
<1> DEFINE code == tx[1].ch
           n    == NbArgs(code)
           tag  == tx[1].by
           args == Codes(SubSeq(tx, 2, n + 1))
           lost(chs) == /\ wire' = wire
                        /\ due'  = IF tag = Tag(tag[1])
                                     THEN [due EXCEPT ![tag[1]] = chs] ELSE due
           said(chs) == /\ wire' = wire \o Chars(chs, tag)
                        /\ due'  = IF tag = Tag(tag[1])
                                     THEN [due EXCEPT ![tag[1]] = chs] ELSE due
<1>5. /\ pc[t] = "answer" /\ tx # <<>> /\ code = call[t].code
      /\ Known(code) /\ Model(code).rsize = call[t].rsize
      /\ args = call[t].args /\ tag = Tag(t) /\ tag[1] = t
  <2>1. Tag(t)[1] = t BY DEF Tag
  <2> QED BY <1>4, <2>1, BoardTakes DEF ServiceInv
<1>6. call[t].rsize \in Nat /\ code \in Nat /\ Cell(code) \in Cells
  BY <1>1, <1>4, <1>5 DEF TypeOK, CallType, ValidCalls, Cells
<1>7. due[t] = <<>> BY <1>5 DEF ServiceInv, Unserved
<1>8. call[t] # NoCall /\ ReplyOf(t) = Service!NotYet /\ ServedOf(t) = {}
  <2>1. Len(due[t]) = 0 BY <1>7
  <2> QED BY <1>4, <1>5, <2>1, ReplyIs DEF ServedOf, ValidCalls, Matched, NoCall, Call
<1>9. Service!Pending(t) BY <1>8 DEF Service!Pending, ServedOf, ReplyOf
<1>10. \A u \in Threads : ReplyOf(u)' = ReplyOf(u) BY <1>1 DEF ReplyOf
<1>11. ASSUME NEW chs, said(chs) \/ lost(chs)
       PROVE  due' = [due EXCEPT ![t] = chs] /\ due'[t] = chs
  BY <1>1, <1>5, <1>11 DEF TypeOK
<1>12. ASSUME NEW chs \in Seq(Nat), due' = [due EXCEPT ![t] = chs]
       PROVE  Served' = [Served EXCEPT ![t] =
                           IF Len(chs) < 2 THEN {} ELSE {Payload(chs)}]
  BY <1>1, <1>12 DEF Served, ServedOf, TypeOK
<1>13. Reply' = Reply BY <1>10 DEF Reply
<1>14. CASE Known(code) /\ Model(code).rsize = 0 /\ mem' = [mem EXCEPT ![Cell(code)] = args]
            /\ (said(<<code, SERIAL_END>>) \/ lost(<<code, SERIAL_END>>))
  <2> DEFINE chs == <<code, SERIAL_END>>
  <2>1. /\ chs \in Seq(Nat) /\ Len(chs) = 2 /\ Payload(chs) = <<>>
    <3>1. Payload(<<code, SERIAL_END>>) = <<>>
      <4>1. <<>> \in Seq(Nat) OBVIOUS
      <4> QED BY <1>6, <4>1, PayloadIs
    <3> QED BY <1>6, <3>1 DEF SERIAL_END
  <2>2. due' = [due EXCEPT ![t] = chs] BY <1>11, <1>14
  <2> HIDE DEF chs
  <2>3. Served' = [Served EXCEPT ![t] = {<<>>}]
    <3>1. ~(Len(chs) < 2) BY <2>1
    <3>2. Served' = [Served EXCEPT ![t] = {Payload(chs)}] BY <1>12, <2>1, <2>2, <3>1
    <3> QED BY <2>1, <3>2
  <2>4. mem' = [mem EXCEPT ![Cell(call[t].code)] = call[t].args] BY <1>5, <1>14
  <2>5. Service!Write(t)
    BY <1>1, <1>5, <1>9, <1>13, <1>14, <2>3, <2>4
    DEF Service!Write, Service!Cell, Cell, Served, Reply, ServedOf, ReplyOf
  <2> QED BY <2>5
<1>15. CASE Model(code).rsize # 0 /\ mem' = mem
            /\ said(<<code>> \o mem[Cell(code)] \o <<SERIAL_END>>)
  <2> DEFINE m == mem[Cell(code)]
             chs == <<code>> \o m \o <<SERIAL_END>>
  <2>1. m \in Seq(Nat) BY <1>1, <1>6 DEF TypeOK
  <2>2. due' = [due EXCEPT ![t] = chs] BY <1>11, <1>15
  <2> HIDE DEF m
  <2>3. chs \in Seq(Nat) /\ Len(chs) = Len(m) + 2 /\ Payload(chs) = m
    BY <1>6, <2>1, AnswerShape, PayloadIs
  <2>4. ~(Len(chs) < 2) BY <2>1, <2>3
  <2> HIDE DEF chs
  <2>5. Served' = [Served EXCEPT ![t] = {m}] BY <1>12, <2>2, <2>3, <2>4
  <2>6. call[t].rsize > 0 /\ m = mem[Cell(call[t].code)] BY <1>5, <1>6, <1>15 DEF m
  <2>7. Service!Read(t)
    BY <1>1, <1>9, <1>13, <1>15, <2>5, <2>6
    DEF Service!Read, Service!Cell, Cell, Served, Reply, ServedOf, ReplyOf
  <2> QED BY <2>7
<1>16. CASE said(<<SERIAL_ERR>>) /\ mem' = mem
  <2>1. <<SERIAL_ERR>> \in Seq(Nat) /\ Len(<<SERIAL_ERR>>) = 1 BY DEF SERIAL_ERR
  <2>2. due' = [due EXCEPT ![t] = <<SERIAL_ERR>>] BY <1>11, <1>16
  <2>3. ServedOf(t)' = {} BY <1>1, <2>1, <2>2 DEF ServedOf, TypeOK
  <2>4. \A u \in Threads : ServedOf(u)' = ServedOf(u)
    BY <1>1, <1>8, <2>2, <2>3 DEF ServedOf, TypeOK
  <2> QED BY <1>1, <1>10, <1>16, <2>4 DEF Unseen
<1>17. CASE UNCHANGED <<wire, due, mem>>
  BY <1>1, <1>10, <1>17 DEF Unseen, ServedOf
<1> QED BY <1>5, <1>14, <1>15, <1>16, <1>17 DEF BoardAnswers


\* In step, every step is a step of one call of the store, or not seen.
LEMMA InTimeSteps ==
  ASSUME ServiceInv, ServiceInv', Matched, [Next]_vars, late' = 0
  PROVE  UNCHANGED Service!vars \/ Service!InTime
<1>1. TypeOK /\ late = 0 BY LateStays DEF ServiceInv, LineInv
<1>2. (late > 0) = FALSE /\ (late > 0)' = FALSE BY <1>1
<1>3. ASSUME NEW t \in Threads, NEW c \in Calls, Enter(t, c) PROVE Service!InTime
  BY <1>2, <1>3, EnterBegins DEF Service!InTime
<1>4. ASSUME NEW t \in Threads, Lock(t) \/ WriteCode(t) \/ WriteArgs(t) \/ ReadData(t)
      PROVE  Unseen
  <2>1. UNCHANGED <<call, mem, due>> /\ pc[t] # "unlock" /\ pc'[t] # "unlock"
    BY <1>1, <1>4 DEF Lock, WriteCode, WriteArgs, ReadData, TypeOK
  <2>2. ReplyOf(t)' = ReplyOf(t) /\ ServedOf(t)' = ServedOf(t)
    BY <2>1 DEF ReplyOf, ServedOf
  <2>3. \A u \in Threads \ {t} : ReplyOf(u)' = ReplyOf(u) /\ ServedOf(u)' = ServedOf(u)
    BY <1>1, <1>4, OthersSame DEF Step
  <2> QED BY <1>2, <2>1, <2>2, <2>3 DEF Unseen
<1>5. ASSUME NEW t \in Threads, ReadCode(t) \/ ReadEnd(t), pc'[t] # "unlock" PROVE Unseen
  <2>1. UNCHANGED <<call, mem, due>> /\ pc[t] # "unlock"
    BY <1>5 DEF ReadCode, ReadEnd
  <2>2. ReplyOf(t)' = ReplyOf(t) /\ ServedOf(t)' = ServedOf(t)
    BY <1>5, <2>1 DEF ReplyOf, ServedOf
  <2>3. \A u \in Threads \ {t} : ReplyOf(u)' = ReplyOf(u) /\ ServedOf(u)' = ServedOf(u)
    BY <1>1, <1>5, OthersSame DEF Step
  <2> QED BY <1>2, <2>1, <2>2, <2>3 DEF Unseen
<1>6. ASSUME NEW t \in Threads, ReadCode(t) \/ ReadEnd(t), pc'[t] = "unlock"
      PROVE  Service!InTime
  BY <1>2, <1>6, ReadEnds DEF Service!InTime
<1>7. ASSUME NEW t \in Threads, Unlock(t) PROVE Service!InTime
  BY <1>2, <1>7, UnlockEnds DEF Service!InTime
<1>8. CASE BoardAnswers
  <2>1. Unseen \/ \E t \in Threads : Service!Read(t) \/ Service!Write(t)
    BY <1>1, <1>8, BoardServes
  <2> QED BY <1>2, <2>1, UnseenStutters DEF Service!InTime
<1>9. CASE Receive \/ Finished \/ UNCHANGED vars
  <2>1. UNCHANGED <<call, mem, due, pc, res, got>>
    BY <1>9 DEF Receive, Finished, vars, thread
  <2> QED BY <1>2, <2>1, UnseenStutters DEF Unseen, ReplyOf, ServedOf
<1> QED BY <1>3, <1>4, <1>5, <1>6, <1>7, <1>8, <1>9, UnseenStutters DEF Next, Step

\* Out of step, what the board takes is still a whole command of some call.
LEMMA BoardWrites ==
  ASSUME ServiceInv, Matched, BoardAnswers
  PROVE  \/ mem' = mem
         \/ \E c \in Calls : c.rsize = 0 /\ mem' = [mem EXCEPT ![Cell(c.code)] = c.args]
<1> DEFINE n    == NbArgs(tx[1].ch)
           args == Codes(SubSeq(tx, 2, n + 1))
<1>1. TypeOK /\ Begun /\ SentWhole /\ Complete /\ tx \in Seq(Char)
  BY DEF ServiceInv, LineInv, TypeOK, BoardAnswers
<1>2. PICK m \in 1 .. Len(tx) : Framed(tx, m)
  <2>1. CASE Framed(tx, Len(tx)) /\ Len(tx) \in 1 .. Len(tx) BY <2>1
  <2>2. CASE \E t \in Threads : HalfSent(t) /\ Len(tx) - 1 \in 1 .. Len(tx)
    BY <2>2 DEF HalfSent
  <2> QED BY <1>1, <2>1, <2>2, SentCount
<1>3. n \in Nat /\ \E c \in ValidCalls : CommandAt(tx, 0, c) /\ Len(c.args) = n
  BY <1>1, <1>2, FirstTaken
<1>4. PICK c \in ValidCalls : CommandAt(tx, 0, c) /\ Len(c.args) = n BY <1>3
<1>5. /\ c \in Calls /\ c.args \in Seq(Nat) /\ c.code = tx[1].ch
      /\ \A i \in 1 .. n : tx[i + 1].ch = c.args[i]
  <2>1. c \in Calls /\ c.args \in Seq(Nat) BY ValidType
  <2> HIDE DEF n
  <2>2. tx[0 + 1].ch = c.code /\ \A i \in 1 .. n : tx[(0 + 1) + i].ch = c.args[i]
    BY <1>4 DEF CommandAt
  <2>3. 0 + 1 = 1 /\ \A i \in 1 .. n : (0 + 1) + i = i + 1 OBVIOUS
  <2> QED BY <2>1, <2>2, <2>3
<1>6. Model(c.code).rsize = c.rsize BY BoardKnowsCall
<1>7. args = c.args
  <2>1. Len(tx) > n BY <1>1 DEF Complete
  <2>2. args \in Seq(Nat) /\ Len(args) = n /\ \A i \in 1 .. n : args[i] = tx[i + 1].ch
    BY <1>1, <1>3, <2>1, ArgsTaken
  <2> DEFINE b == c.args
  <2> HIDE DEF n, args
  <2>3. b \in Seq(Nat) /\ Len(b) = n /\ \A i \in 1 .. n : tx[i + 1].ch = b[i]
    BY <1>4, <1>5
  <2> HIDE DEF b
  <2>4. args = b BY <2>2, <2>3, SeqEqual
  <2> QED BY <2>4 DEF b
<1>8. \/ mem' = mem
      \/ Model(tx[1].ch).rsize = 0 /\ mem' = [mem EXCEPT ![Cell(tx[1].ch)] = args]
  BY DEF BoardAnswers
<1> QED BY <1>5, <1>6, <1>7, <1>8

\* Out of step, a step is one of one call, and writes what a call writes.
LEMMA TooLateSteps ==
  ASSUME ServiceInv, Matched, Next, late' # 0, TypeOK'
  PROVE  UNCHANGED Service!vars \/ Service!TooLate
<1>1. TypeOK /\ late' > 0
  <2>1. late' \in 0 .. MaxLate BY DEF TypeOK
  <2>2. late' > 0 BY <2>1, BoundAssumption
  <2> QED BY <2>2 DEF ServiceInv, LineInv
<1>2. ASSUME NEW t \in Threads, Step(t) \/ \E c \in Calls : Enter(t, c)
      PROVE  Service!TooLate
  <2>1. \A u \in Threads \ {t} : call'[u] = call[u] /\ Reply'[u] = Reply[u]
    BY <1>1, <1>2, OthersSame DEF Reply
  <2>2. mem' = mem
    BY <1>2 DEF Step, Enter, Lock, WriteCode, WriteArgs, ReadCode, ReadData, ReadEnd, Unlock
  <2> QED BY <1>1, <2>1, <2>2 DEF Service!TooLate, Reply, ReplyOf
<1>3. CASE BoardAnswers
  <2>1. UNCHANGED <<call, pc, res, got>> BY <1>3 DEF BoardAnswers, thread
  <2>2. Reply' = Reply BY <2>1 DEF Reply, ReplyOf
  <2>3. tx \in Seq(Char) /\ tx # <<>> BY <1>1, <1>3 DEF TypeOK, BoardAnswers, Complete
  <2>4. tx[1] \in Char BY <2>3
  <2>5. tx[1].by[1] \in Threads BY <2>4 DEF Char
  <2>6. \/ mem' = mem
        \/ \E c \in Calls : c.rsize = 0 /\ mem' = [mem EXCEPT ![Cell(c.code)] = c.args]
    BY <1>3, BoardWrites
  <2> QED BY <1>1, <2>1, <2>2, <2>5, <2>6
          DEF Service!TooLate, Service!Cell, Cell, Reply, ReplyOf
<1>4. CASE Receive \/ Finished
  <2>1. UNCHANGED <<call, mem, due, pc, res, got, late>>
    BY <1>4 DEF Receive, Finished, vars, thread
  <2> QED BY <1>1, <2>1, UnseenStutters DEF Unseen, ReplyOf, ServedOf
<1> QED BY <1>2, <1>3, <1>4 DEF Next

\* The calls of PriamSerial, of any threads, all of which take the mutex, are
\* served by the board one at a time as those of PriamService: one that
\* returns was served once, with what it returns, one that throws at most
\* once, until an answer comes too late; and from then on too, a register
\* holds only what some call writes to it.
THEOREM SerialIsService ==
  ASSUME Matched
  PROVE  Spec => ServiceImplemented
<1>1. Init => Service!Init
  <2> SUFFICES ASSUME Init PROVE Service!Init OBVIOUS
  <2>1. Len(<<>>) = 0 OBVIOUS
  <2>2. Served = [t \in Threads |-> {}] BY <2>1 DEF Init, Served, ServedOf
  <2>3. Reply = [t \in Threads |-> Service!NotYet] BY ReplyIs DEF Init, Reply
  <2> QED BY <2>2, <2>3 DEF Init, Service!Init, Served, ServedOf, Reply, ReplyOf
<1>2. ServiceInv /\ ServiceInv' /\ [Next]_vars => [Service!Next]_(Service!vars)
  <2> SUFFICES ASSUME ServiceInv, ServiceInv', [Next]_vars
               PROVE  UNCHANGED Service!vars \/ Service!InTime \/ Service!TooLate
    BY DEF Service!Next
  <2>1. CASE late' = 0 BY <2>1, InTimeSteps
  <2>2. CASE late' # 0 /\ Next BY <2>2, TooLateSteps DEF ServiceInv, LineInv
  <2>3. CASE UNCHANGED vars
    <3>1. UNCHANGED <<call, mem, due, pc, res, got, late>> BY <2>3 DEF vars, thread
    <3> QED BY <3>1, UnseenStutters DEF Unseen, ReplyOf, ServedOf
  <2> QED BY <2>1, <2>2, <2>3
<1> QED BY <1>1, <1>2, ServiceInvariant, PTL DEF Spec, ServiceImplemented, Service!Spec


-----------------------------------------------------------------------------
(***************************************************************************)
(* Out of step, what is on its way to the computer, behind what the call   *)
(* has read of it, is still one answer behind the other, of which the      *)
(* first may have lost its beginning.                                      *)
(***************************************************************************)
Status == {SERIAL_END, SERIAL_ERR, SERIAL_BAD}

\* A character of an answer to c, with n of its characters behind it.
PartOf(x, n, c) ==
  /\ x.by[3] = c.code /\ n <= c.rsize + 1
  /\ n = c.rsize + 1 => x.ch = c.code
  /\ n = 0 => x.ch \in Status

\* How many characters of its answer there are behind each character of s.
Behind(s, left) ==
  /\ \A i \in 1 .. Len(s) : \E c \in ValidCalls : PartOf(s[i], left[i], c)
  /\ \A i \in 1 .. Len(s) - 1 :
       IF left[i] = 0 THEN s[i + 1].ch # SERIAL_END
       ELSE left[i + 1] = left[i] - 1 /\ s[i + 1].by = s[i].by
  /\ s # <<>> => left[Len(s)] = 0
Answers(s) == \E left \in [1 .. Len(s) -> Nat] : Behind(s, left)

\* The call of a thread that reads has read the code it sent first.
CodeRead(t) == got[t] # <<>> /\ got[t][1].ch = call[t].code

Reading ==
  /\ Answers(rx \o wire)
  /\ \A t \in Threads :
       /\ InTransfer(t) => Answers(Stream(t))
       /\ pc[t] = "answer" => got[t] = <<>>
       /\ pc[t] = "data" => Len(got[t]) = 1 /\ CodeRead(t)
       /\ pc[t] = "end" => CodeRead(t)

Ended == \A t \in Threads : res[t] = "ok" => pc[t] = "unlock"

ForeignInv == Reading /\ Ended /\ NoForeignData

\* Nothing answered is no answer.
LEMMA AnswersNone == Answers(<<>>)
<1> DEFINE left == [i \in 1 .. 0 |-> 0]
<1>1. Len(<<>>) = 0 /\ 1 .. 0 = {} /\ 1 .. 0 - 1 = {} OBVIOUS
<1>2. left \in [1 .. Len(<<>>) -> Nat] BY <1>1
<1> HIDE DEF left
<1>3. Behind(<<>>, left) BY <1>1 DEF Behind
<1> QED BY <1>2, <1>3 DEF Answers

\* What is left of answers when the first characters are gone.
LEMMA AnswersDrop ==
  ASSUME NEW s \in Seq(Char), Answers(s), NEW n \in 0 .. Len(s)
  PROVE  Answers(Drop(s, n))
<1>1. PICK left \in [1 .. Len(s) -> Nat] : Behind(s, left) BY DEF Answers
<1> DEFINE r == Drop(s, n)
           k == Len(s) - n
           rest == [i \in 1 .. k |-> left[i + n]]
<1>2. r \in Seq(Char) /\ Len(r) = k /\ k \in Nat /\ \A i \in 1 .. k : r[i] = s[i + n]
  BY DEF Drop
<1>3. \A i \in 1 .. k : i + n \in 1 .. Len(s) OBVIOUS
<1>4. rest \in [1 .. Len(r) -> Nat] BY <1>2, <1>3
<1>5. \A i \in 1 .. k : rest[i] = left[i + n] OBVIOUS
<1>6. \A i \in 1 .. k - 1 : /\ i + n \in 1 .. Len(s) - 1 /\ (i + n) + 1 = (i + 1) + n
                            /\ i \in 1 .. k /\ i + 1 \in 1 .. k
  OBVIOUS
<1>7. k # 0 => k \in 1 .. k /\ k + n = Len(s) /\ s # <<>> OBVIOUS
<1> HIDE DEF r, k, rest
<1>8. \A i \in 1 .. k : \E c \in ValidCalls : PartOf(r[i], rest[i], c)
  BY <1>1, <1>2, <1>3, <1>5 DEF Behind
<1>9. ASSUME NEW i \in 1 .. k - 1
      PROVE  IF rest[i] = 0 THEN r[i + 1].ch # SERIAL_END
             ELSE rest[i + 1] = rest[i] - 1 /\ r[i + 1].by = r[i].by
  <2>1. IF left[i + n] = 0 THEN s[(i + n) + 1].ch # SERIAL_END
        ELSE left[(i + n) + 1] = left[i + n] - 1 /\ s[(i + n) + 1].by = s[i + n].by
    BY <1>1, <1>6 DEF Behind
  <2>2. /\ rest[i] = left[i + n] /\ rest[i + 1] = left[(i + n) + 1]
        /\ r[i] = s[i + n] /\ r[i + 1] = s[(i + n) + 1]
    <3>1. i \in 1 .. k /\ i + 1 \in 1 .. k /\ (i + n) + 1 = (i + 1) + n BY <1>6
    <3>2. rest[i + 1] = left[(i + 1) + n] /\ r[i + 1] = s[(i + 1) + n]
      BY <1>2, <1>5, <3>1
    <3> QED BY <1>2, <1>5, <3>1, <3>2
  <2> QED BY <2>1, <2>2
<1>10. r # <<>> => rest[Len(r)] = 0
  <2>1. r # <<>> => k # 0 BY <1>2
  <2> QED BY <1>1, <1>2, <1>5, <1>7, <2>1 DEF Behind
<1>11. Behind(r, rest) BY <1>2, <1>8, <1>9, <1>10 DEF Behind
<1>12. Answers(r) BY <1>4, <1>11 DEF Answers
<1> QED BY <1>12 DEF r

\* An answer behind answers.
LEMMA AnswersMore ==
  ASSUME NEW s \in Seq(Char), NEW u \in Seq(Char), Answers(s), Answers(u),
         u # <<>>, u[1].ch # SERIAL_END
  PROVE  Answers(s \o u)
<1>1. PICK a \in [1 .. Len(s) -> Nat] : Behind(s, a) BY DEF Answers
<1>2. PICK b \in [1 .. Len(u) -> Nat] : Behind(u, b) BY DEF Answers
<1> DEFINE v == s \o u
           m == Len(s)
           n == Len(u)
           left == [i \in 1 .. m + n |-> IF i <= m THEN a[i] ELSE b[i - m]]
<1>3. /\ v \in Seq(Char) /\ Len(v) = m + n
      /\ \A i \in 1 .. m : v[i] = s[i]
      /\ \A i \in 1 .. n : v[m + i] = u[i]
  BY JoinShape
<1>4. m \in Nat /\ n \in Nat /\ n > 0 /\ (m = 0 \/ s # <<>>) OBVIOUS
<1> HIDE DEF v, m, n
<1>5. /\ a \in [1 .. m -> Nat] /\ b \in [1 .. n -> Nat]
      /\ \A i \in 1 .. m : \E c \in ValidCalls : PartOf(s[i], a[i], c)
      /\ \A i \in 1 .. n : \E c \in ValidCalls : PartOf(u[i], b[i], c)
      /\ \A i \in 1 .. m - 1 : IF a[i] = 0 THEN s[i + 1].ch # SERIAL_END
                               ELSE a[i + 1] = a[i] - 1 /\ s[i + 1].by = s[i].by
      /\ \A i \in 1 .. n - 1 : IF b[i] = 0 THEN u[i + 1].ch # SERIAL_END
                               ELSE b[i + 1] = b[i] - 1 /\ u[i + 1].by = u[i].by
      /\ m # 0 => a[m] = 0
      /\ b[n] = 0
  BY <1>1, <1>2, <1>4 DEF Behind, m, n
<1>6. /\ left \in [1 .. m + n -> Nat]
      /\ \A i \in 1 .. m : left[i] = a[i]
      /\ \A i \in 1 .. n : left[m + i] = b[i]
  BY <1>4, <1>5
<1>7. \A i \in 1 .. m + n : i \in 1 .. m \/ \E j \in 1 .. n : i = m + j
  <2>1. \A i \in 1 .. m + n : i \in 1 .. m \/ (i - m \in 1 .. n /\ i = m + (i - m))
    BY <1>4
  <2> QED BY <2>1
<1> HIDE DEF left
<1>8. \A i \in 1 .. m + n : \E c \in ValidCalls : PartOf(v[i], left[i], c)
  <2>1. \A i \in 1 .. m : \E c \in ValidCalls : PartOf(v[i], left[i], c)
    BY <1>3, <1>5, <1>6
  <2>2. \A j \in 1 .. n : \E c \in ValidCalls : PartOf(v[m + j], left[m + j], c)
    BY <1>3, <1>5, <1>6
  <2> QED BY <1>7, <2>1, <2>2
<1>9. ASSUME NEW i \in 1 .. (m + n) - 1
      PROVE  IF left[i] = 0 THEN v[i + 1].ch # SERIAL_END
             ELSE left[i + 1] = left[i] - 1 /\ v[i + 1].by = v[i].by
  <2>1. CASE i \in 1 .. m - 1
    <3>1. i \in 1 .. m /\ i + 1 \in 1 .. m BY <1>4, <2>1
    <3>2. left[i] = a[i] /\ left[i + 1] = a[i + 1] /\ v[i] = s[i] /\ v[i + 1] = s[i + 1]
      BY <1>3, <1>6, <3>1
    <3> QED BY <1>5, <2>1, <3>2
  <2>2. CASE i = m
    <3>1. m # 0 /\ i \in 1 .. m /\ 1 \in 1 .. n BY <1>4, <2>2
    <3>2. left[i] = 0 /\ v[m + 1] = u[1] BY <1>3, <1>5, <1>6, <2>2, <3>1
    <3> QED BY <2>2, <3>2
  <2>3. CASE \E j \in 1 .. n - 1 : i = m + j
    <3>1. PICK j \in 1 .. n - 1 : i = m + j BY <2>3
    <3>2. j \in 1 .. n /\ j + 1 \in 1 .. n /\ i + 1 = m + (j + 1) BY <1>4, <3>1
    <3>3. left[i] = b[j] /\ left[i + 1] = b[j + 1] /\ v[i] = u[j] /\ v[i + 1] = u[j + 1]
      BY <1>3, <1>6, <3>1, <3>2
    <3> QED BY <1>5, <3>3
  <2>4. i \in 1 .. m - 1 \/ i = m \/ (i - m \in 1 .. n - 1 /\ i = m + (i - m)) BY <1>4
  <2> QED BY <2>1, <2>2, <2>3, <2>4
<1>10. left[m + n] = 0
  <2>1. n \in 1 .. n BY <1>4
  <2> QED BY <1>5, <1>6, <2>1
<1>11. Behind(v, left) BY <1>3, <1>8, <1>9, <1>10 DEF Behind
<1>12. Answers(v) BY <1>3, <1>6, <1>11 DEF Answers
<1> QED BY <1>12 DEF v


\* A refusal is an answer, and so are the code, the payload and the end.
LEMMA AnswersSaid ==
  ASSUME Matched, NEW c \in ValidCalls, NEW tag \in Threads \X Nat \X Nat, tag[3] = c.code,
         NEW chs \in Seq(Nat),
         \/ chs = <<SERIAL_ERR>>
         \/ /\ Len(chs) = c.rsize + 2 /\ chs[1] = c.code
            /\ chs[c.rsize + 2] = SERIAL_END
  PROVE  /\ Chars(chs, tag) \in Seq(Char) /\ Answers(Chars(chs, tag))
         /\ Chars(chs, tag) # <<>> /\ Chars(chs, tag)[1].ch # SERIAL_END
<1> DEFINE u == Chars(chs, tag)
           n == Len(chs)
           left == [i \in 1 .. n |-> n - i]
<1>1. /\ u \in Seq(Char) /\ Len(u) = n
      /\ \A i \in 1 .. n : u[i].ch = chs[i] /\ u[i].by = tag
  BY CharsType, CharsShape
<1>2. /\ c.rsize \in Nat /\ c.code \notin {SERIAL_ERR, SERIAL_BAD, SERIAL_END}
  BY CallAssumption DEF ValidCalls, CallType, Matched
<1>3. \/ n = 1 /\ chs[1] = SERIAL_ERR
      \/ n = c.rsize + 2 /\ chs[1] = c.code /\ chs[n] = SERIAL_END
  <2>1. CASE chs = <<SERIAL_ERR>> BY <2>1
  <2>2. CASE Len(chs) = c.rsize + 2 /\ chs[1] = c.code /\ chs[c.rsize + 2] = SERIAL_END
    BY <2>2
  <2> QED BY <2>1, <2>2
<1> HIDE DEF u, n
<1>4. n \in Nat /\ n > 0 /\ n <= c.rsize + 2 BY <1>2, <1>3
<1>5. left \in [1 .. n -> Nat] /\ \A i \in 1 .. n : left[i] = n - i BY <1>4
<1> HIDE DEF left
<1>6. ASSUME NEW i \in 1 .. n PROVE PartOf(u[i], left[i], c)
  <2>1. u[i].by[3] = c.code /\ u[i].ch = chs[i] /\ left[i] = n - i BY <1>1, <1>5
  <2>2. left[i] <= c.rsize + 1 BY <1>2, <1>4, <2>1
  <2>3. ASSUME left[i] = c.rsize + 1 PROVE u[i].ch = c.code
    <3>1. n = c.rsize + 2 /\ i = 1 BY <1>2, <1>4, <2>1, <2>3
    <3>2. n # 1 BY <1>2, <3>1
    <3> QED BY <1>3, <2>1, <3>1, <3>2
  <2>4. ASSUME left[i] = 0 PROVE u[i].ch \in Status
    <3>1. i = n BY <1>4, <2>1, <2>4
    <3> QED BY <1>3, <2>1, <3>1 DEF Status
  <2> QED BY <2>1, <2>2, <2>3, <2>4 DEF PartOf
<1>7. ASSUME NEW i \in 1 .. n - 1
      PROVE  left[i] # 0 /\ left[i + 1] = left[i] - 1 /\ u[i + 1].by = u[i].by
  <2>1. i \in 1 .. n /\ i + 1 \in 1 .. n BY <1>4
  <2>2. left[i] = n - i /\ left[i + 1] = n - (i + 1) BY <1>5, <2>1
  <2>3. u[i + 1].by = tag /\ u[i].by = tag BY <1>1, <2>1
  <2> QED BY <1>4, <2>1, <2>2, <2>3
<1>8. left[n] = 0
  <2>1. n \in 1 .. n BY <1>4
  <2> QED BY <1>4, <1>5, <2>1
<1>9. Behind(u, left) BY <1>1, <1>6, <1>7, <1>8 DEF Behind
<1>10. Answers(u) BY <1>1, <1>5, <1>9 DEF Answers
<1>11. u # <<>> /\ u[1].ch # SERIAL_END
  <2>1. 1 \in 1 .. n BY <1>4
  <2>2. u[1].ch = chs[1] BY <1>1, <2>1
  <2>3. chs[1] # SERIAL_END BY <1>2, <1>3 DEF SERIAL_ERR, SERIAL_END
  <2>4. Len(u) # 0 BY <1>1, <1>4
  <2>5. u # <<>> BY <2>4
  <2> QED BY <2>2, <2>3, <2>5
<1> QED BY <1>1, <1>10, <1>11 DEF u

\* A code, a character and an end in a row are of the answer to that code,
\* or inside a longer one.
LEMMA ThreeInARow ==
  ASSUME Matched, NEW s \in Seq(Char), Answers(s), Len(s) >= 3,
         NEW a \in ValidCalls, s[1].ch = a.code, s[3].ch = SERIAL_END
  PROVE  s[2].by[3] = a.code \/ \E c \in ValidCalls : c.code = s[2].by[3] /\ c.rsize > 1
<1>1. PICK left \in [1 .. Len(s) -> Nat] : Behind(s, left) BY DEF Answers
<1>2. /\ 1 \in 1 .. Len(s) /\ 1 \in 1 .. Len(s) - 1 /\ 2 \in 1 .. Len(s) - 1
      /\ 1 + 1 = 2 /\ 2 + 1 = 3
  OBVIOUS
<1>3. PICK c \in ValidCalls : PartOf(s[1], left[1], c) BY <1>1, <1>2 DEF Behind
<1>4. left[1] \in Nat /\ c.rsize \in Nat
  BY <1>2, CallAssumption DEF ValidCalls, CallType
<1>5. left[1] # 0 BY <1>3 DEF PartOf, Matched, Status
<1>6. left[2] = left[1] - 1 /\ s[2].by = s[1].by
  <2>1. left[1 + 1] = left[1] - 1 /\ s[1 + 1].by = s[1].by BY <1>1, <1>2, <1>5 DEF Behind
  <2> QED BY <1>2, <2>1
<1>7. left[2] # 0
  <2>1. left[2] = 0 => s[2 + 1].ch # SERIAL_END BY <1>1, <1>2 DEF Behind
  <2> QED BY <1>2, <2>1
<1>8. left[1] > 1 BY <1>4, <1>5, <1>6, <1>7
<1>9. c.code = s[2].by[3] BY <1>3, <1>6 DEF PartOf
<1>10. CASE left[1] = c.rsize + 1 BY <1>3, <1>9, <1>10 DEF PartOf
<1>11. CASE left[1] # c.rsize + 1
  <2>1. left[1] <= c.rsize + 1 BY <1>3 DEF PartOf
  <2>2. c.rsize > 1 BY <1>4, <1>8, <1>11, <2>1
  <2> QED BY <1>9, <2>2
<1> QED BY <1>10, <1>11


\* Taking characters away in front, from what was received.
LEMMA AnswersFlush ==
  ASSUME NEW r \in Seq(Char), NEW w \in Seq(Char), Answers(r \o w), NEW n \in 0 .. Len(r)
  PROVE  Answers(Drop(r, n) \o w)
<1> DEFINE v == r \o w
           d == Drop(r, n)
           k == Len(r)
           m == Len(w)
<1>1. /\ v \in Seq(Char) /\ Len(v) = k + m
      /\ \A i \in 1 .. k : v[i] = r[i]
      /\ \A i \in 1 .. m : v[k + i] = w[i]
  BY JoinShape
<1>2. d \in Seq(Char) /\ Len(d) = k - n /\ \A i \in 1 .. k - n : d[i] = r[i + n]
  BY DEF Drop
<1>3. k \in Nat /\ m \in Nat /\ n \in 0 .. k OBVIOUS
<1>4. n \in 0 .. Len(v) BY <1>1, <1>3
<1>5. Answers(Drop(v, n)) BY <1>1, <1>4, AnswersDrop DEF v
<1>6. /\ Drop(v, n) \in Seq(Char) /\ Len(Drop(v, n)) = (k + m) - n
      /\ \A i \in 1 .. (k + m) - n : Drop(v, n)[i] = v[i + n]
  BY <1>1, <1>4 DEF Drop
<1> DEFINE e == d \o w
<1>7. /\ e \in Seq(Char) /\ Len(e) = (k - n) + m
      /\ \A i \in 1 .. k - n : e[i] = d[i]
      /\ \A i \in 1 .. m : e[(k - n) + i] = w[i]
  <2>1. d \in Seq(Char) /\ Len(d) = k - n BY <1>2
  <2> HIDE DEF d, k
  <2>2. /\ e \in Seq(Char) /\ Len(e) = Len(d) + Len(w)
        /\ \A i \in 1 .. Len(d) : e[i] = d[i]
        /\ \A i \in 1 .. Len(w) : e[Len(d) + i] = w[i]
    BY <2>1, JoinShape
  <2> QED BY <2>1, <2>2
<1> HIDE DEF v, d, k, m, e
<1>8. ASSUME NEW i \in 1 .. (k + m) - n PROVE e[i] = v[i + n]
  <2>1. CASE i \in 1 .. k - n
    <3>1. i + n \in 1 .. k BY <1>3, <2>1
    <3> QED BY <1>1, <1>2, <1>7, <2>1, <3>1
  <2>2. CASE i \notin 1 .. k - n
    <3> DEFINE j == i - (k - n)
    <3>1. j \in 1 .. m /\ (k - n) + j = i /\ k + j = i + n BY <1>3, <2>2
    <3> HIDE DEF j
    <3> QED BY <1>1, <1>7, <3>1
  <2> QED BY <2>1, <2>2
<1>9. (k - n) + m = (k + m) - n BY <1>3
<1>10. e = Drop(v, n) BY <1>6, <1>7, <1>8, <1>9, SeqEqual
<1> QED BY <1>5, <1>10 DEF d, e

\* ... one of them, or all
LEMMA AnswersRead ==
  ASSUME TypeOK, Reading
  PROVE  Answers(<<>> \o wire) /\ (rx # <<>> => Answers(Tail(rx) \o wire))
<1>1. rx \in Seq(Char) /\ wire \in Seq(Char) /\ Answers(rx \o wire) BY DEF TypeOK, Reading
<1>2. Drop(rx, Len(rx)) = <<>> /\ (rx # <<>> => Drop(rx, 1) = Tail(rx)) BY <1>1 DEF Drop
<1>3. Len(rx) \in 0 .. Len(rx) /\ (rx # <<>> => 1 \in 0 .. Len(rx)) BY <1>1
<1> QED BY <1>1, <1>2, <1>3, AnswersFlush

\* Nothing moves, and a call that is let in has read nothing.
LEMMA ReadingSame ==
  ASSUME TypeOK, ForeignInv, UNCHANGED <<rx, wire, got, res>>,
         \A u \in Threads :
           \/ pc'[u] = pc[u] /\ call'[u] = call[u]
           \/ got[u] = <<>> /\ pc[u] # "unlock" /\ pc'[u] \notin {"data", "end"}
  PROVE  ForeignInv'
<1>1. rx \in Seq(Char) /\ <<>> \o rx = rx BY DEF TypeOK
<1>2. ASSUME NEW u \in Threads, InTransfer(u)' PROVE Answers(Stream(u))'
  <2>1. CASE pc'[u] = pc[u]
    <3>1. InTransfer(u) BY <1>2, <2>1 DEF InTransfer
    <3> QED BY <3>1 DEF ForeignInv, Reading, Stream
  <2>2. CASE got[u] = <<>>
    <3>1. Stream(u)' = rx \o wire BY <1>1, <2>2 DEF Stream
    <3> QED BY <3>1 DEF ForeignInv, Reading
  <2> QED BY <2>1, <2>2
<1>3. Reading' BY <1>2 DEF ForeignInv, Reading, CodeRead
<1>4. Ended' /\ NoForeignData' BY DEF ForeignInv, Ended, NoForeignData
<1> QED BY <1>3, <1>4 DEF ForeignInv

\* The call of t leaves the line, and what it did not read stays.
LEMMA ReadingEnds ==
  ASSUME TypeOK, MutexInv, Begun, Matched, ForeignInv, NEW t \in Threads, InTransfer(t),
         UNCHANGED <<call, wire>>, Answers(rx' \o wire), NEW r, Finish(t, r),
         \A u \in Threads \ {t} : got'[u] = got[u],
         r = "ok" /\ call[t].sized /\ call[t].rsize = 1 =>
           \A i \in 2 .. Len(got'[t]) - 1 :
             \/ got'[t][i].by[3] = call[t].code
             \/ \E c \in ValidCalls : c.code = got'[t][i].by[3] /\ c.rsize > 1
  PROVE  ForeignInv'
<1>1. \A u \in Threads \ {t} : pc'[u] = pc[u] /\ res'[u] = res[u] /\ ~InTransfer(u)
  BY OneTransfer DEF Finish, TypeOK
<1>2. pc'[t] = "unlock" /\ res'[t] = r BY DEF Finish, TypeOK
<1>3. \A u \in Threads : pc'[u] \notin {"code", "args", "answer", "data", "end"}
  BY <1>1, <1>2 DEF InTransfer
<1>4. Reading' BY <1>3 DEF Reading, InTransfer
<1>5. Ended' BY <1>1, <1>2 DEF ForeignInv, Ended
<1>6. NoForeignData' BY <1>1, <1>2 DEF ForeignInv, NoForeignData
<1> QED BY <1>4, <1>5, <1>6 DEF ForeignInv


\* _readAnswer takes the code, or empties what was received and throws.
LEMMA ReadCodeForeign ==
  ASSUME TypeOK, MutexInv, Begun, Matched, ForeignInv, NEW t \in Threads, ReadCode(t)
  PROVE  ForeignInv'
<1>1. /\ InTransfer(t) /\ pc[t] = "answer" /\ got[t] = <<>> /\ res[t] # "ok"
      /\ UNCHANGED <<call, tx, wire>> /\ rx \in Seq(Char) /\ wire \in Seq(Char)
      /\ \A u \in Threads \ {t} : got'[u] = got[u]
  BY DEF ReadCode, InTransfer, ForeignInv, Reading, Ended, TypeOK, FirstChar
<1>2. CASE FirstChar(t) /\ Accepts(t, rx[1].ch)
  <2>1. rx # <<>> /\ rx' = Tail(rx) /\ got'[t] = <<rx[1]>> /\ res' = res
    BY <1>1, <1>2, TimesOutEmpty DEF ReadCode, FirstChar, TypeOK
  <2>2. pc' = [pc EXCEPT ![t] = IF call[t].rsize > 0 THEN "data" ELSE "end"]
    BY <1>1, <1>2, <2>1, TimesOutEmpty DEF ReadCode
  <2>3. Stream(t)' = Stream(t)
    <3> DEFINE g == <<>>
    <3>1. g \in Seq(Char) /\ Append(g, rx[1]) = <<rx[1]>> OBVIOUS
    <3>2. (Append(g, rx[1]) \o Tail(rx)) \o wire = (g \o rx) \o wire
      BY <1>1, <2>1, <3>1, StreamRead
    <3> QED BY <1>1, <2>1, <3>1, <3>2 DEF Stream
  <2>4. Answers(Stream(t))' BY <1>1, <2>3 DEF ForeignInv, Reading
  <2>5. Answers(rx' \o wire') BY <1>1, <2>1, AnswersRead DEF ForeignInv
  <2>6. Len(got'[t]) = 1 /\ CodeRead(t)' BY <1>1, <1>2, <2>1, TableCall DEF CodeRead, Accepts, Begun, InTransfer
  <2>7. \A u \in Threads \ {t} : pc'[u] = pc[u] /\ ~InTransfer(u) /\ ~InTransfer(u)'
    BY <1>1, <2>2, OneTransfer DEF TypeOK, InTransfer
  <2>8. pc'[t] \in {"data", "end"} BY <2>2 DEF TypeOK
  <2>9. Reading' BY <2>4, <2>5, <2>6, <2>7, <2>8 DEF Reading, InTransfer
  <2>10. Ended' BY <1>1, <2>1, <2>7 DEF ForeignInv, Ended
  <2>11. NoForeignData'
    <3> SUFFICES ASSUME NEW u \in Threads,
                        (res[u] = "ok" /\ call[u].sized /\ call[u].rsize = 1)',
                        NEW i \in 2 .. Len(got'[u]) - 1
                 PROVE  (\/ got[u][i].by[3] = call[u].code
                         \/ \E c \in ValidCalls : c.code = got[u][i].by[3] /\ c.rsize > 1)'
      BY Zenon DEF NoForeignData
    <3>1. u # t /\ res[u] = "ok" /\ got'[u] = got[u] /\ call' = call BY <1>1, <2>1
    <3>2. NoForeignData BY DEF ForeignInv
    <3> QED BY <3>1, <3>2 DEF NoForeignData
  <2> QED BY <2>9, <2>10, <2>11 DEF ForeignInv
<1>3. CASE FirstChar(t) /\ ~Accepts(t, rx[1].ch)
  <2>1. rx # <<>> /\ rx' = <<>> /\ Finish(t, Refusal(rx[1].ch))
    BY <1>1, <1>3, TimesOutEmpty DEF ReadCode, FirstChar
  <2>2. Refusal(rx[1].ch) # "ok" BY DEF Refusal
  <2>3. Answers(rx' \o wire) BY <2>1, AnswersRead DEF ForeignInv
  <2> QED BY <1>1, <2>1, <2>2, <2>3, ReadingEnds
<1>4. CASE TimesOut(1) /\ Finish(t, "no_answer") /\ UNCHANGED <<rx, got>>
  <2>1. Answers(rx' \o wire) BY <1>4 DEF ForeignInv, Reading
  <2> QED BY <1>1, <1>4, <2>1, ReadingEnds
<1> QED BY <1>2, <1>3, <1>4 DEF ReadCode

\* The payload, or what came of it, is read behind the code.
LEMMA ReadDataForeign ==
  ASSUME TypeOK, MutexInv, Begun, Matched, ForeignInv, NEW t \in Threads, ReadData(t)
  PROVE  ForeignInv'
<1> DEFINE n == IF Len(rx) < call[t].rsize THEN Len(rx) ELSE call[t].rsize
           g == got[t]
<1>1. /\ InTransfer(t) /\ res[t] # "ok" /\ UNCHANGED <<call, tx, wire, res>>
      /\ rx \in Seq(Char) /\ wire \in Seq(Char) /\ g \in Seq(Char)
      /\ pc' = [pc EXCEPT ![t] = "end"] /\ pc'[t] = "end"
      /\ Len(g) = 1 /\ g[1].ch = call[t].code /\ call[t].rsize \in Nat
      /\ \A u \in Threads \ {t} : got'[u] = got[u] /\ pc'[u] = pc[u]
  BY DEF ReadData, InTransfer, ForeignInv, Reading, Ended, TypeOK, CodeRead, CallType
<1>2. n \in 0 .. Len(rx) BY <1>1
<1>3. got'[t] = g \o Take(rx, n) /\ rx' = Drop(rx, n) BY DEF ReadData, TypeOK, Take
<1> HIDE DEF n, g
<1>4. ((g \o Take(rx, n)) \o Drop(rx, n)) \o wire = (g \o rx) \o wire
  <2>1. g \in Seq(Char) /\ rx \in Seq(Char) /\ wire \in Seq(Char) BY <1>1
  <2>2. /\ ((g \o Take(rx, n)) \o Drop(rx, n)) \o wire = (g \o rx) \o wire
        /\ Len(g \o Take(rx, n)) = Len(g) + n
    BY <1>2, <2>1, StreamData
  <2> QED BY <2>2
<1>5. Stream(t)' = Stream(t) BY <1>1, <1>3, <1>4 DEF Stream, g
<1>6. Answers(Stream(t))' BY <1>1, <1>5 DEF ForeignInv, Reading
<1>7. Answers(rx' \o wire') BY <1>1, <1>2, <1>3, AnswersFlush DEF ForeignInv, Reading
<1>8. CodeRead(t)'
  <2>1. Take(rx, n) \in Seq(Char) BY <1>1, <1>2 DEF Take
  <2> DEFINE a == Take(rx, n)
  <2> HIDE DEF a
  <2>2. a \in Seq(Char) BY <2>1 DEF a
  <2>3. 1 \in 1 .. Len(g) BY <1>1
  <2>4. (g \o a)[1] = g[1] BY <1>1, <2>2, <2>3, JoinShape
  <2>5. Len(g \o a) = Len(g) + Len(a) /\ Len(a) \in Nat
    <3>1. g \in Seq(Char) BY <1>1
    <3> QED BY <2>2, <3>1, JoinShape
  <2>6. g \o a # <<>>
    <3>1. Len(g \o a) # 0 BY <1>1, <2>5
    <3> QED BY <3>1
  <2> QED BY <1>1, <1>3, <2>4, <2>6 DEF CodeRead, a
<1>9. \A u \in Threads \ {t} : ~InTransfer(u) /\ ~InTransfer(u)'
  BY <1>1, OneTransfer DEF InTransfer
<1>10. Reading' BY <1>1, <1>6, <1>7, <1>8, <1>9 DEF Reading, InTransfer
<1>11. Ended' BY <1>1 DEF ForeignInv, Ended
<1>12. NoForeignData' BY <1>1 DEF ForeignInv, NoForeignData
<1> QED BY <1>10, <1>11, <1>12 DEF ForeignInv


\* A character more.
LEMMA AppendShape ==
  ASSUME NEW s \in Seq(Char), NEW x \in Char
  PROVE  /\ Len(Append(s, x)) = Len(s) + 1
         /\ \A i \in 1 .. Len(s) : Append(s, x)[i] = s[i]
BY AppendProperties

\* The first characters of a stream, two of them read.
LEMMA ThreeFirst ==
  ASSUME NEW g \in Seq(Char), NEW r \in Seq(Char), NEW w \in Seq(Char),
         Len(g) = 2, r # <<>>
  PROVE  /\ (g \o r) \o w \in Seq(Char) /\ Len((g \o r) \o w) >= 3
         /\ ((g \o r) \o w)[1] = g[1] /\ ((g \o r) \o w)[2] = g[2]
         /\ ((g \o r) \o w)[3] = r[1]
         /\ Len(Append(g, r[1])) = 3 /\ Append(g, r[1])[2] = g[2]
<1> DEFINE a == g \o r
<1>1. Len(r) \in Nat /\ Len(r) > 0 /\ 1 \in 1 .. Len(g) /\ 2 \in 1 .. Len(g) OBVIOUS
<1>2. /\ a \in Seq(Char) /\ Len(a) = 2 + Len(r) /\ a[1] = g[1] /\ a[2] = g[2]
      /\ a[2 + 1] = r[1]
  <2>1. /\ a \in Seq(Char) /\ Len(a) = Len(g) + Len(r)
        /\ \A i \in 1 .. Len(g) : a[i] = g[i]
        /\ \A i \in 1 .. Len(r) : a[Len(g) + i] = r[i]
    BY JoinShape
  <2>2. 1 \in 1 .. Len(r) BY <1>1
  <2> HIDE DEF a
  <2>3. a[Len(g) + 1] = r[1] BY <2>1, <2>2
  <2> QED BY <1>1, <2>1, <2>3
<1>3. /\ Len(a) >= 3 /\ Len(w) \in Nat /\ 1 \in 1 .. Len(a) /\ 2 \in 1 .. Len(a)
      /\ 3 \in 1 .. Len(a)
  BY <1>1, <1>2
<1> HIDE DEF a
<1>4. /\ a \o w \in Seq(Char) /\ Len(a \o w) = Len(a) + Len(w)
      /\ \A i \in 1 .. Len(a) : (a \o w)[i] = a[i]
  BY <1>2, JoinShape
<1>5. /\ a \o w \in Seq(Char) /\ Len(a \o w) >= 3 /\ (a \o w)[1] = g[1]
      /\ (a \o w)[2] = g[2] /\ (a \o w)[3] = r[1]
  BY <1>2, <1>3, <1>4
<1>6. Len(Append(g, r[1])) = 3 /\ Append(g, r[1])[2] = g[2]
  <2>1. r[1] \in Char BY <1>1
  <2>2. /\ Len(Append(g, r[1])) = Len(g) + 1
        /\ \A i \in 1 .. Len(g) : Append(g, r[1])[i] = g[i]
    BY <2>1, AppendShape
  <2> QED BY <1>1, <2>2
<1> QED BY <1>5, <1>6 DEF a

\* The end, at its distance from the code, makes the answer the caller's own
\* or the inside of a longer one.
LEMMA ReadEndForeign ==
  ASSUME TypeOK, MutexInv, Begun, Matched, ForeignInv, NEW t \in Threads, ReadEnd(t)
  PROVE  ForeignInv'
<1> DEFINE g == got[t]
<1>1. /\ InTransfer(t) /\ UNCHANGED <<call, tx, wire>> /\ call[t] \in ValidCalls
      /\ rx \in Seq(Char) /\ wire \in Seq(Char) /\ g \in Seq(Char)
      /\ Answers((g \o rx) \o wire) /\ g # <<>> /\ g[1].ch = call[t].code
      /\ \A u \in Threads \ {t} : got'[u] = got[u]
  BY DEF ReadEnd, InTransfer, Begun, ForeignInv, Reading, Stream, TypeOK, CodeRead
<1>2. CASE rx # <<>> /\ rx[1].ch = SERIAL_END
  <2> DEFINE r == IF call[t].sized /\ Len(got[t]) # call[t].rsize + 1
                    THEN "wrong_size" ELSE "ok"
  <2>1. rx' = Tail(rx) /\ got'[t] = Append(g, rx[1]) /\ Finish(t, r)
    BY <1>1, <1>2, TimesOutEmpty DEF ReadEnd, TypeOK
  <2>2. Answers(rx' \o wire) BY <1>2, <2>1, AnswersRead DEF ForeignInv
  <2>3. ASSUME r = "ok", call[t].sized, call[t].rsize = 1,
               NEW i \in 2 .. Len(got'[t]) - 1
        PROVE  \/ got'[t][i].by[3] = call[t].code
               \/ \E c \in ValidCalls : c.code = got'[t][i].by[3] /\ c.rsize > 1
    <3>1. Len(g) = 2 BY <2>3
    <3> DEFINE s == (g \o rx) \o wire
    <3> HIDE DEF g
    <3>3. /\ s \in Seq(Char) /\ Len(s) >= 3 /\ s[1] = g[1] /\ s[2] = g[2] /\ s[3] = rx[1]
          /\ Len(Append(g, rx[1])) = 3 /\ Append(g, rx[1])[2] = g[2]
      BY <1>1, <1>2, <3>1, ThreeFirst
    <3>2. i = 2 /\ got'[t][2] = g[2]
      <4>1. Len(got'[t]) = 3 BY <2>1, <3>3
      <4>2. i = 2 BY <2>3, <4>1
      <4> QED BY <2>1, <3>3, <4>2
    <3> HIDE DEF s
    <3>4. s[1].ch = call[t].code /\ s[3].ch = SERIAL_END BY <1>1, <1>2, <3>3
    <3>5. Answers(s) BY <1>1 DEF s
    <3>6. \/ s[2].by[3] = call[t].code
          \/ \E c \in ValidCalls : c.code = s[2].by[3] /\ c.rsize > 1
      BY <1>1, <3>3, <3>4, <3>5, ThreeInARow
    <3> QED BY <3>2, <3>3, <3>6
  <2> HIDE DEF r
  <2> QED BY <1>1, <2>1, <2>2, <2>3, ReadingEnds
<1>3. CASE rx # <<>> /\ rx[1].ch # SERIAL_END
  <2>1. rx' = <<>> /\ Finish(t, "no_end")
    BY <1>1, <1>3, TimesOutEmpty DEF ReadEnd
  <2>2. Answers(rx' \o wire) BY <2>1, AnswersRead DEF ForeignInv
  <2> QED BY <1>1, <2>1, <2>2, ReadingEnds
<1>4. CASE TimesOut(1) /\ Finish(t, "out_of_range") /\ UNCHANGED <<rx, got>>
  <2>1. Answers(rx' \o wire) BY <1>4 DEF ForeignInv, Reading
  <2> QED BY <1>1, <1>4, <2>1, ReadingEnds
<1> QED BY <1>2, <1>3, <1>4 DEF ReadEnd

\* The line moves characters, and the order of them stays.
LEMMA ReceiveForeign ==
  ASSUME TypeOK, ForeignInv, Receive
  PROVE  ForeignInv'
<1>1. /\ UNCHANGED <<got, pc, call, res>> /\ wire # <<>>
      /\ rx' = Append(rx, wire[1]) /\ wire' = Tail(wire)
      /\ rx \in Seq(Char) /\ wire \in Seq(Char)
  BY DEF Receive, thread, TypeOK
<1>2. ASSUME NEW g \in Seq(Char) PROVE (g \o rx') \o wire' = (g \o rx) \o wire
  BY <1>1, <1>2, StreamReceived
<1>3. rx' \o wire' = rx \o wire
  <2>1. <<>> \in Seq(Char) /\ <<>> \o rx = rx /\ <<>> \o rx' = rx' BY <1>1
  <2> QED BY <1>2, <2>1
<1>4. \A u \in Threads : Stream(u)' = Stream(u)
  <2>1. \A u \in Threads : got[u] \in Seq(Char) BY DEF TypeOK
  <2> QED BY <1>1, <1>2, <2>1 DEF Stream
<1>5. Reading' BY <1>1, <1>3, <1>4 DEF ForeignInv, Reading, InTransfer, CodeRead
<1>6. Ended' /\ NoForeignData' BY <1>1 DEF ForeignInv, Ended, NoForeignData
<1> QED BY <1>5, <1>6 DEF ForeignInv


\* What the board says is an answer to the command it took.
LEMMA BoardForeign ==
  ASSUME ServiceInv, Matched, ForeignInv, BoardAnswers
  PROVE  ForeignInv'
<1> DEFINE code == tx[1].ch
           n    == NbArgs(code)
           tag  == tx[1].by
<1>1. /\ TypeOK /\ TypeOK' /\ UNCHANGED <<got, pc, call, res, rx>> /\ CellsFit
      /\ Begun /\ SentWhole /\ Complete /\ tx \in Seq(Char) /\ tx # <<>>
      /\ rx \in Seq(Char) /\ wire \in Seq(Char)
  BY BoardType DEF ServiceInv, LineInv, BoardAnswers, Complete, thread, TypeOK
<1>2. PICK m \in 1 .. Len(tx) : Framed(tx, m)
  <2>1. CASE Framed(tx, Len(tx)) /\ Len(tx) \in 1 .. Len(tx) BY <2>1
  <2>2. CASE \E t \in Threads : HalfSent(t) /\ Len(tx) - 1 \in 1 .. Len(tx)
    BY <2>2 DEF HalfSent
  <2> QED BY <1>1, <2>1, <2>2, SentCount
<1>3. PICK c \in ValidCalls : CommandAt(tx, 0, c) BY <1>1, <1>2, FirstTaken
<1>4. /\ code = c.code /\ tag[3] = c.code /\ tag \in Threads \X Nat \X Nat
      /\ Known(code) /\ Model(code).rsize = c.rsize
  <2>1. tx[1] \in Char BY <1>1
  <2>2. tx[0 + 1].ch = c.code /\ tx[0 + 1].by[3] = c.code BY <1>3 DEF CommandAt
  <2> QED BY <2>1, <2>2, BoardKnowsCall DEF Char
<1>5. c.rsize \in Nat /\ code \in Nat /\ Cell(code) \in Cells
  BY <1>4, CallAssumption DEF ValidCalls, CallType, Cells
<1>6. mem[Cell(code)] \in Seq(Nat) BY <1>1, <1>5 DEF TypeOK
<1>7. \/ wire' = wire
      \/ \E chs \in Seq(Nat) :
           /\ \/ chs = <<SERIAL_ERR>>
              \/ /\ Len(chs) = c.rsize + 2 /\ chs[1] = c.code
                 /\ chs[c.rsize + 2] = SERIAL_END
           /\ wire' = wire \o Chars(chs, tag)
  <2>1. \/ wire' = wire
        \/ Model(code).rsize = 0 /\ wire' = wire \o Chars(<<code, SERIAL_END>>, tag)
        \/ /\ Model(code).rsize # 0
           /\ wire' = wire \o Chars(<<code>> \o mem[Cell(code)] \o <<SERIAL_END>>, tag)
        \/ wire' = wire \o Chars(<<SERIAL_ERR>>, tag)
    BY <1>4 DEF BoardAnswers
  <2>2. CASE Model(code).rsize = 0 /\ wire' = wire \o Chars(<<code, SERIAL_END>>, tag)
    <3> DEFINE chs == <<code, SERIAL_END>>
    <3>1. chs \in Seq(Nat) /\ Len(chs) = 2 /\ chs[1] = code /\ chs[2] = SERIAL_END
      BY <1>5 DEF SERIAL_END
    <3>2. wire' = wire \o Chars(chs, tag) BY <2>2
    <3> HIDE DEF chs, code
    <3>3. c.rsize + 2 = 2 BY <1>4, <2>2
    <3> QED BY <1>4, <3>1, <3>2, <3>3
  <2>3. CASE /\ Model(code).rsize # 0
             /\ wire' = wire \o Chars(<<code>> \o mem[Cell(code)] \o <<SERIAL_END>>, tag)
    <3> DEFINE k == mem[Cell(code)]
               chs == <<code>> \o k \o <<SERIAL_END>>
    <3>1. Len(k) = c.rsize
      <4>1. c.rsize > 0 BY <1>4, <1>5, <2>3
      <4> QED BY <1>1, <1>4, <4>1 DEF CellsFit
    <3>2. wire' = wire \o Chars(chs, tag) BY <2>3
    <3>3. k \in Seq(Nat) BY <1>6
    <3> HIDE DEF k, code
    <3>4. /\ chs \in Seq(Nat) /\ Len(chs) = Len(k) + 2 /\ chs[1] = code
          /\ chs[Len(k) + 2] = SERIAL_END
      BY <1>5, <3>3, AnswerShape
    <3> HIDE DEF chs
    <3> QED BY <1>4, <3>1, <3>2, <3>4
  <2>4. CASE wire' = wire \o Chars(<<SERIAL_ERR>>, tag)
    <3>1. <<SERIAL_ERR>> \in Seq(Nat) BY DEF SERIAL_ERR
    <3> QED BY <2>4, <3>1
  <2> QED BY <2>1, <2>2, <2>3, <2>4
<1>8. CASE wire' = wire
  BY <1>1, <1>8, ReadingSame
<1>9. ASSUME NEW chs \in Seq(Nat),
             \/ chs = <<SERIAL_ERR>>
             \/ /\ Len(chs) = c.rsize + 2 /\ chs[1] = c.code
                /\ chs[c.rsize + 2] = SERIAL_END,
             wire' = wire \o Chars(chs, tag)
      PROVE  ForeignInv'
  <2> DEFINE u == Chars(chs, tag)
  <2>1. u \in Seq(Char) /\ Answers(u) /\ u # <<>> /\ u[1].ch # SERIAL_END
    BY <1>4, <1>9, AnswersSaid
  <2> HIDE DEF u
  <2>2. ASSUME NEW s \in Seq(Char), Answers(s \o wire) PROVE Answers(s \o wire')
    <3>1. s \o wire \in Seq(Char) BY <1>1
    <3>2. Answers((s \o wire) \o u) BY <2>1, <2>2, <3>1, AnswersMore
    <3>3. (s \o wire) \o u = s \o (wire \o u)
      <4>1. s \in Seq(Char) /\ wire \in Seq(Char) /\ u \in Seq(Char) BY <1>1, <2>1, <2>2
      <4> QED BY <4>1, JoinTwice
    <3> QED BY <1>9, <3>2, <3>3 DEF u
  <2>3. Answers(rx' \o wire') BY <1>1, <2>2 DEF ForeignInv, Reading
  <2>4. ASSUME NEW t \in Threads, InTransfer(t) PROVE Answers(Stream(t))'
    <3>1. got[t] \in Seq(Char) BY <1>1 DEF TypeOK
    <3>2. got[t] \o rx \in Seq(Char) BY <1>1, <3>1
    <3>3. Answers((got[t] \o rx) \o wire) BY <2>4 DEF ForeignInv, Reading, Stream
    <3> QED BY <1>1, <2>2, <3>2, <3>3 DEF Stream
  <2>5. Reading'
    BY <1>1, <2>3, <2>4 DEF ForeignInv, Reading, InTransfer, CodeRead
  <2>6. Ended' /\ NoForeignData' BY <1>1 DEF ForeignInv, Ended, NoForeignData
  <2> QED BY <2>5, <2>6 DEF ForeignInv
<1> QED BY <1>7, <1>8, <1>9

\* ForeignInv is inductive.
LEMMA ForeignKept ==
  ASSUME ServiceInv, Matched, ForeignInv, [Next]_vars
  PROVE  ForeignInv'
<1>1. TypeOK /\ MutexInv /\ Begun BY DEF ServiceInv, LineInv
<1>2. ASSUME NEW t \in Threads, NEW c \in Calls, Enter(t, c) PROVE ForeignInv'
  <2>1. /\ UNCHANGED <<rx, wire, got, res>> /\ pc[t] = "idle" /\ got[t] = <<>>
        /\ pc'[t] \notin {"data", "end"}
        /\ \A u \in Threads \ {t} : pc'[u] = pc[u] /\ call'[u] = call[u]
    BY <1>1, <1>2 DEF Enter, TypeOK, Begun, line
  <2> QED BY <1>1, <2>1, ReadingSame
<1>3. ASSUME NEW t \in Threads, Lock(t) \/ WriteCode(t) \/ WriteArgs(t) PROVE ForeignInv'
  <2>1. /\ UNCHANGED <<rx, wire, got, res, call>> /\ pc[t] \in {"lock", "code", "args"}
        /\ pc'[t] \notin {"data", "end"}
        /\ \A u \in Threads \ {t} : pc'[u] = pc[u]
    BY <1>1, <1>3 DEF Lock, WriteCode, WriteArgs, TypeOK, line
  <2>2. got[t] = <<>> BY <1>1, <2>1 DEF Begun
  <2> QED BY <1>1, <2>1, <2>2, ReadingSame
<1>4. ASSUME NEW t \in Threads, ReadCode(t) \/ ReadData(t) \/ ReadEnd(t) PROVE ForeignInv'
  BY <1>1, <1>4, ReadCodeForeign, ReadDataForeign, ReadEndForeign
<1>5. ASSUME NEW t \in Threads, Unlock(t) PROVE ForeignInv'
  <2>1. /\ UNCHANGED <<rx, wire>> /\ pc'[t] = "idle" /\ res'[t] = "none"
        /\ \A u \in Threads \ {t} :
             pc'[u] = pc[u] /\ call'[u] = call[u] /\ got'[u] = got[u] /\ res'[u] = res[u]
    BY <1>1, <1>5 DEF Unlock, TypeOK, line
  <2>2. \A u \in Threads \ {t} : Stream(u)' = Stream(u) BY <2>1 DEF Stream
  <2>3. Reading' BY <2>1, <2>2 DEF ForeignInv, Reading, InTransfer, CodeRead
  <2>4. Ended' /\ NoForeignData' BY <2>1 DEF ForeignInv, Ended, NoForeignData
  <2> QED BY <2>3, <2>4 DEF ForeignInv
<1>6. CASE BoardAnswers BY <1>6, BoardForeign
<1>7. CASE Receive BY <1>1, <1>7, ReceiveForeign
<1>8. CASE Finished \/ UNCHANGED vars
  <2>1. UNCHANGED <<rx, wire, got, res, pc, call>>
    BY <1>8 DEF Finished, vars, thread, line
  <2> QED BY <1>1, <2>1, ReadingSame
<1> QED BY <1>2, <1>3, <1>4, <1>5, <1>6, <1>7, <1>8 DEF Next, Step

\* However many answers come late, readRegister takes no other register's
\* character for the one it asked, unless out of the inside of a longer answer:
\* of any calls that take the mutex, and whatever the registers hold.
THEOREM NoOthersData ==
  ASSUME Matched
  PROVE  Spec => []NoForeignData
<1>1. Init => ForeignInv
  <2> SUFFICES ASSUME Init PROVE ForeignInv OBVIOUS
  <2>1. <<>> \o <<>> = <<>> OBVIOUS
  <2>2. Reading BY <2>1, AnswersNone DEF Init, Reading, InTransfer
  <2> QED BY <2>2 DEF Init, ForeignInv, Ended, NoForeignData
<1>2. ServiceInv /\ ForeignInv /\ [Next]_vars => ForeignInv' BY ForeignKept
<1>3. ForeignInv => NoForeignData BY DEF ForeignInv
<1> QED BY <1>1, <1>2, <1>3, ServiceInvariant, PTL DEF Spec
=============================================================================
