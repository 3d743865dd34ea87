---------------------------- MODULE PriamService ----------------------------
(***************************************************************************)
(* What PriamSerial promises the threads that use it, with no line, mutex  *)
(* or characters: a store of registers.  A call is served at one instant   *)
(* between its beginning and its end, or it throws.  A call that returns   *)
(* was served, once, and returns what it was served with; one that throws  *)
(* was served at most once.                                                *)
(*                                                                         *)
(* All this until an answer comes too late (late).  From then on a call    *)
(* may return with the answer to another and be served when it is over, but*)
(* a register still holds only what some call writes to it.                *)
(***************************************************************************)
EXTENDS Integers, Sequences

CONSTANTS Threads,
          Calls,    \* the calls, records as those of PriamCodes
          NoCall,
          PowerUp   \* what each register holds at power-up

VARIABLES call,   \* the call each thread is making, or NoCall
          served, \* what each call was served with: {}, or {characters}
          reply,  \* how each call is about to end, and with what
          mem,    \* register -> characters
          late    \* an answer came too late

vars == <<call, served, reply, mem, late>>

Cell(code) == code % 128

NotYet       == [how |-> "none", value |-> <<>>]
Exception    == [how |-> "exception", value |-> <<>>]
Value(chars) == [how |-> "value", value |-> chars]

Init ==
  /\ call   = [t \in Threads |-> NoCall]
  /\ served = [t \in Threads |-> {}]
  /\ reply  = [t \in Threads |-> NotYet]
  /\ mem    = PowerUp
  /\ late   = FALSE

Begin(t, c) ==
  /\ call[t] = NoCall
  /\ call' = [call EXCEPT ![t] = c]
  /\ UNCHANGED <<served, reply, mem>>

Pending(t) == call[t] # NoCall /\ served[t] = {} /\ reply[t] = NotYet

Read(t) ==
  /\ Pending(t) /\ call[t].rsize > 0
  /\ served' = [served EXCEPT ![t] = {mem[Cell(call[t].code)]}]
  /\ UNCHANGED <<call, reply, mem>>

Write(t) ==
  /\ Pending(t) /\ call[t].rsize = 0
  /\ served' = [served EXCEPT ![t] = {<<>>}]
  /\ mem' = [mem EXCEPT ![Cell(call[t].code)] = call[t].args]
  /\ UNCHANGED <<call, reply>>

Return(t) ==
  /\ reply[t] = NotYet
  /\ \E chars \in served[t] : reply' = [reply EXCEPT ![t] = Value(chars)]
  /\ UNCHANGED <<call, served, mem>>

Throw(t) ==
  /\ call[t] # NoCall /\ reply[t] = NotYet
  /\ reply' = [reply EXCEPT ![t] = Exception]
  /\ UNCHANGED <<call, served, mem>>

End(t) ==
  /\ reply[t] # NotYet
  /\ call'   = [call   EXCEPT ![t] = NoCall]
  /\ served' = [served EXCEPT ![t] = {}]
  /\ reply'  = [reply  EXCEPT ![t] = NotYet]
  /\ mem' = mem

InTime ==
  /\ ~late /\ ~late'
  /\ \E t \in Threads : \/ \E c \in Calls : Begin(t, c)
                        \/ Read(t) \/ Write(t) \/ Return(t) \/ Throw(t) \/ End(t)

\* One step of one call, and at most one register written.
TooLate ==
  /\ late'
  /\ \E t \in Threads : \A u \in Threads \ {t} :
       call'[u] = call[u] /\ reply'[u] = reply[u]
  /\ \/ mem' = mem
     \/ \E c \in Calls : c.rsize = 0 /\ mem' = [mem EXCEPT ![Cell(c.code)] = c.args]

Next == InTime \/ TooLate

Spec == Init /\ [][Next]_vars
=============================================================================
