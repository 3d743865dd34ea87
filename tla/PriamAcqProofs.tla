---------------------------- MODULE PriamAcqProofs ---------------------------
(***************************************************************************)
(* Proofs about PriamAcq, for any frequencies, times, ports and signals:   *)
(* its registers agree with its members wherever no access failed, and     *)
(* what a start sends is what the members ask for.  A time of exactly      *)
(* 1024 s, which _timeToReg accepts and cannot encode, is left out.        *)
(***************************************************************************)
EXTENDS PriamAcq, TimeRegsProofs, FiniteSetTheorems, SequenceTheorems,
        WellFoundedInduction

TooLong    == 1024000000   \* 1024 s, in microseconds
Minima     == {x \in Nat : x <= 920000000}   \* minimum intervals are no longer

LEMMA MinimaFit == \A x \in Minima : x \in Nat /\ x # TooLong
BY DEF Minima, TooLong

Encodable == TooLong \notin Times \cup ShutterTimes

-----------------------------------------------------------------------------
(***************************************************************************)
(* The steps of a method.                                                  *)
(***************************************************************************)
Said(steps)   == {steps[i] : i \in DOMAIN steps}
IsSteps(s)    == s \in Seq(Said(s))
Fields(steps) == {steps[i].f : i \in DOMAIN steps}

\* The values the steps give a field on their way.
Values(steps, m) == {steps[i].v : i \in {j \in DOMAIN steps : steps[j].f = m}}

\* The steps, all done, leave v in m.
Sets(steps, m, v) ==
  \E i \in DOMAIN steps :
    /\ steps[i].f = m /\ steps[i].v = v
    /\ \A j \in DOMAIN steps : j > i => steps[j].f # m

\* A set of positions has a last one.
LEMMA LastExists ==
  ASSUME NEW n \in Nat, NEW ws \in SUBSET (1 .. n), ws # {}
  PROVE  Max(ws) \in ws /\ \A i \in ws : Max(ws) >= i
<1> DEFINE down == {n - i : i \in ws}
<1>1. down \in SUBSET Nat /\ down # {}
  <2>1. \A i \in ws : n - i \in Nat OBVIOUS
  <2>2. PICK i \in ws : TRUE OBVIOUS
  <2>3. n - i \in down OBVIOUS
  <2> QED BY <2>1, <2>3
<1> HIDE DEF down
<1>2. PICK d \in down : \A e \in down : ~(e < d)
  <2>1. PICK d \in down : \A e \in down : <<e, d>> \notin OpToRel(<, Nat)
    BY <1>1, WFMin, NatLessThanWellFounded
  <2>2. \A e \in down : e < d => <<e, d>> \in OpToRel(<, Nat) BY <1>1 DEF OpToRel
  <2> QED BY <2>1, <2>2
<1>3. PICK i \in ws : d = n - i BY DEF down
<1>4. \A j \in ws : i >= j
  <2> TAKE j \in ws
  <2>1. n - j \in down BY DEF down
  <2>2. ~(n - j < d) BY <1>2, <2>1
  <2> QED BY <1>3, <2>2
<1> QED BY <1>4 DEF Max

LEMMA AfterSets ==
  ASSUME NEW S, NEW steps \in Seq(S), NEW st, NEW m \in DOMAIN st, NEW v,
         Sets(steps, m, v)
  PROVE  After(st, steps)[m] = v
<1> DEFINE ws == {i \in DOMAIN steps : steps[i].f = m}
<1>1. PICK i \in DOMAIN steps :
        /\ steps[i].f = m /\ steps[i].v = v
        /\ \A j \in DOMAIN steps : j > i => steps[j].f # m
  BY DEF Sets
<1>2. DOMAIN steps = 1 .. Len(steps) /\ Len(steps) \in Nat OBVIOUS
<1>3. ws \in SUBSET (1 .. Len(steps)) /\ ws # {} /\ i \in ws BY <1>1, <1>2
<1>4. Max(ws) \in ws /\ Max(ws) >= i BY <1>2, <1>3, LastExists
<1>5. ~(Max(ws) > i) BY <1>1, <1>4
<1>6. Max(ws) = i BY <1>2, <1>3, <1>4, <1>5
<1> QED BY <1>1, <1>6 DEF After, LastOf

\* Part of the steps leaves in a field what it held or what one of them gives.
LEMMA AfterSome ==
  ASSUME NEW S, NEW steps \in Seq(S), NEW k \in 0 .. Len(steps), NEW st, NEW m \in DOMAIN st
  PROVE  /\ After(st, SubSeq(steps, 1, k))[m] \in {st[m]} \cup Values(steps, m)
         /\ m \notin Fields(steps) => After(st, SubSeq(steps, 1, k))[m] = st[m]
<1> DEFINE part == SubSeq(steps, 1, k)
           ws   == {i \in DOMAIN part : part[i].f = m}
<1>1. DOMAIN part = 1 .. k /\ k \in Nat /\ \A i \in 1 .. k : part[i] = steps[i] /\ i \in DOMAIN steps
  OBVIOUS
<1> HIDE DEF part
<1>2. CASE ws = {}
  <2>1. After(st, part)[m] = st[m] BY <1>2 DEF After
  <2> QED BY <2>1 DEF part
<1>3. CASE ws # {}
  <2>1. ws \in SUBSET (1 .. k) BY <1>1
  <2>2. Max(ws) \in ws BY <1>1, <1>3, <2>1, LastExists
  <2>3. After(st, part)[m] = part[Max(ws)].v BY <1>3 DEF After, LastOf
  <2>4. steps[Max(ws)].f = m /\ Max(ws) \in DOMAIN steps /\ part[Max(ws)] = steps[Max(ws)]
    BY <1>1, <2>2
  <2> QED BY <2>3, <2>4 DEF Values, Fields, part
<1> QED BY <1>2, <1>3 DEF part


\* One step, and steps behind others.
LEMMA OneStep ==
  ASSUME NEW a
  PROVE  /\ IsSteps(<<a>>) /\ Fields(<<a>>) = {a.f} /\ Sets(<<a>>, a.f, a.v)
         /\ \A m : Values(<<a>>, m) = IF a.f = m THEN {a.v} ELSE {}
<1> DEFINE s == <<a>>
<1>1. DOMAIN s = {1} /\ s[1] = a /\ Len(s) = 1 OBVIOUS
<1> HIDE DEF s
<1>2. Said(s) = {a} BY <1>1 DEF Said
<1>3. s \in Seq({a}) BY DEF s
<1>4. Fields(s) = {a.f} BY <1>1 DEF Fields
<1>5. Sets(s, a.f, a.v) BY <1>1 DEF Sets
<1>6. ASSUME NEW m PROVE Values(s, m) = IF a.f = m THEN {a.v} ELSE {}
  BY <1>1 DEF Values
<1> QED BY <1>2, <1>3, <1>4, <1>5, <1>6 DEF IsSteps, s

LEMMA NoStep == IsSteps(<<>>) /\ Fields(<<>>) = {} /\ \A m : Values(<<>>, m) = {}
BY DEF IsSteps, Said, Fields, Values

LEMMA JoinSteps ==
  ASSUME NEW s, NEW u, IsSteps(s), IsSteps(u)
  PROVE  /\ IsSteps(s \o u) /\ Fields(s \o u) = Fields(s) \cup Fields(u)
         /\ \A m : Values(s \o u, m) = Values(s, m) \cup Values(u, m)
         /\ \A m, v : Sets(u, m, v) => Sets(s \o u, m, v)
         /\ \A m, v : Sets(s, m, v) /\ m \notin Fields(u) => Sets(s \o u, m, v)
<1> DEFINE S == Said(s) \cup Said(u)
           j == s \o u
           n == Len(s)
           k == Len(u)
<1>1. s \in Seq(S) /\ u \in Seq(S)
  <2>1. s \in Seq(Said(s)) /\ u \in Seq(Said(u)) BY DEF IsSteps
  <2> QED BY <2>1
<1> HIDE DEF S
<1>2. /\ n \in Nat /\ k \in Nat /\ DOMAIN s = 1 .. n /\ DOMAIN u = 1 .. k
      /\ j \in Seq(S) /\ DOMAIN j = 1 .. n + k /\ Len(j) = n + k
      /\ \A i \in 1 .. n : j[i] = s[i]
      /\ \A i \in 1 .. k : j[n + i] = u[i]
  BY <1>1
<1> HIDE DEF j, n, k
<1>3. \A i \in 1 .. n + k : i \in 1 .. n \/ \E p \in 1 .. k : i = n + p
  <2> TAKE i \in 1 .. n + k
  <2>1. i \in 1 .. n \/ (i - n \in 1 .. k /\ i = n + (i - n)) BY <1>2
  <2> QED BY <2>1
<1>4. \A i \in 1 .. k : n + i \in 1 .. n + k /\ n + i \notin 1 .. n BY <1>2
<1>5. \A i \in 1 .. n : i \in 1 .. n + k BY <1>2
<1>6. IsSteps(j)
  <2>1. \A i \in 1 .. n + k : j[i] \in Said(j) BY <1>2 DEF Said
  <2>2. j = [i \in 1 .. n + k |-> j[i]] BY <1>2
  <2>3. j \in [1 .. n + k -> Said(j)] BY <2>1, <2>2
  <2> QED BY <1>2, <2>3 DEF IsSteps
<1>7. Fields(j) = Fields(s) \cup Fields(u)
  <2>1. ASSUME NEW i \in 1 .. n + k PROVE j[i].f \in Fields(s) \cup Fields(u)
    <3>1. CASE i \in 1 .. n BY <1>2, <3>1 DEF Fields
    <3>2. CASE \E p \in 1 .. k : i = n + p BY <1>2, <3>2 DEF Fields
    <3> QED BY <1>3, <3>1, <3>2
  <2>2. \A i \in 1 .. n : s[i].f \in Fields(j) BY <1>2, <1>5 DEF Fields
  <2>3. \A i \in 1 .. k : u[i].f \in Fields(j) BY <1>2, <1>4 DEF Fields
  <2>4. Fields(j) \subseteq Fields(s) \cup Fields(u) BY <1>2, <2>1 DEF Fields
  <2>5. Fields(s) \subseteq Fields(j) BY <1>2, <2>2 DEF Fields
  <2>6. Fields(u) \subseteq Fields(j) BY <1>2, <2>3 DEF Fields
  <2> QED BY <2>4, <2>5, <2>6
<1>8. ASSUME NEW m PROVE Values(j, m) = Values(s, m) \cup Values(u, m)
  BY <1>2, <1>3, <1>4, <1>5 DEF Values
<1>9. ASSUME NEW m, NEW v, Sets(u, m, v) PROVE Sets(j, m, v)
  <2>1. PICK i \in 1 .. k : /\ u[i].f = m /\ u[i].v = v
                            /\ \A q \in 1 .. k : q > i => u[q].f # m
    BY <1>2, <1>9 DEF Sets
  <2>2. ASSUME NEW q \in 1 .. n + k, q > n + i PROVE j[q].f # m
    <3>1. q - n \in 1 .. k /\ q - n > i /\ n + (q - n) = q BY <1>2, <2>1, <2>2
    <3>2. j[n + (q - n)] = u[q - n] BY <1>2, <3>1
    <3> QED BY <2>1, <3>1, <3>2
  <2>3. j[n + i].f = m /\ j[n + i].v = v /\ n + i \in 1 .. n + k BY <1>2, <1>4, <2>1
  <2> QED BY <1>2, <2>2, <2>3 DEF Sets
<1>10. ASSUME NEW m, NEW v, Sets(s, m, v), m \notin Fields(u) PROVE Sets(j, m, v)
  <2>1. PICK i \in 1 .. n : /\ s[i].f = m /\ s[i].v = v
                            /\ \A q \in 1 .. n : q > i => s[q].f # m
    BY <1>2, <1>10 DEF Sets
  <2>2. ASSUME NEW q \in 1 .. n + k, q > i PROVE j[q].f # m
    <3>1. CASE q \in 1 .. n BY <1>2, <2>1, <2>2, <3>1
    <3>2. CASE \E p \in 1 .. k : q = n + p BY <1>2, <1>10, <3>2 DEF Fields
    <3> QED BY <1>3, <3>1, <3>2
  <2>3. j[i].f = m /\ j[i].v = v /\ i \in 1 .. n + k BY <1>2, <1>5, <2>1
  <2> QED BY <1>2, <2>2, <2>3 DEF Sets
<1> QED BY <1>6, <1>7, <1>8, <1>9, <1>10 DEF j


LEMMA TwoSteps ==
  ASSUME NEW a, NEW b
  PROVE  <<a, b>> = <<a>> \o <<b>>
<1> DEFINE S == {a, b}
<1>1. <<a>> \in Seq(S) /\ b \in S OBVIOUS
<1> HIDE DEF S
<1>2. Append(<<a>>, b) = <<a>> \o <<b>> BY <1>1, AppendIsConcat
<1> DEFINE x == Append(<<a>>, b)
           y == <<a, b>>
<1>3. /\ x \in Seq(S) /\ Len(x) = Len(<<a>>) + 1 /\ \A i \in 1 .. Len(<<a>>) : x[i] = <<a>>[i]
      /\ x[Len(<<a>>) + 1] = b
  BY <1>1, AppendProperties
<1>4. Len(<<a>>) = 1 /\ <<a>>[1] = a OBVIOUS
<1>5. y \in Seq(S) /\ Len(y) = 2 /\ y[1] = a /\ y[2] = b BY DEF S
<1> HIDE DEF x, y
<1>6. Len(x) = 2 /\ x[1] = a /\ x[2] = b BY <1>3, <1>4
<1>7. x = y BY <1>3, <1>5, <1>6, SeqEqual
<1> QED BY <1>2, <1>7 DEF x, y

LEMMA ThreeSteps ==
  ASSUME NEW a, NEW b, NEW c
  PROVE  <<a, b, c>> = <<a>> \o <<b, c>>
<1>1. <<a>> \in Seq({a, b, c}) /\ <<b, c>> \in Seq({a, b, c}) OBVIOUS
<1> QED BY <1>1

LEMMA FiveSteps ==
  ASSUME NEW a, NEW b, NEW c, NEW d, NEW e
  PROVE  <<a, b, c, d, e>> = <<a, b, c>> \o <<d, e>>
<1> DEFINE S == {a, b, c, d, e}
<1>1. <<a, b, c>> \in Seq(S) /\ <<d, e>> \in Seq(S) OBVIOUS
<1> QED BY <1>1

\* What two, and what three accesses or assignments do.
LEMMA PairDoes ==
  ASSUME NEW a, NEW b
  PROVE  /\ IsSteps(<<a, b>>) /\ Fields(<<a, b>>) = {a.f, b.f}
         /\ Sets(<<a, b>>, b.f, b.v) /\ (a.f # b.f => Sets(<<a, b>>, a.f, a.v))
         /\ \A m : Values(<<a, b>>, m)
                     = (IF a.f = m THEN {a.v} ELSE {}) \cup (IF b.f = m THEN {b.v} ELSE {})
<1>1. /\ IsSteps(<<a>>) /\ Fields(<<a>>) = {a.f} /\ Sets(<<a>>, a.f, a.v)
      /\ \A m : Values(<<a>>, m) = IF a.f = m THEN {a.v} ELSE {}
  BY OneStep
<1>2. /\ IsSteps(<<b>>) /\ Fields(<<b>>) = {b.f} /\ Sets(<<b>>, b.f, b.v)
      /\ \A m : Values(<<b>>, m) = IF b.f = m THEN {b.v} ELSE {}
  BY OneStep
<1> DEFINE s == <<a>>  u == <<b>>
<1> HIDE DEF s, u
<1>3. <<a, b>> = s \o u BY TwoSteps DEF s, u
<1>4. /\ IsSteps(s \o u) /\ Fields(s \o u) = Fields(s) \cup Fields(u)
      /\ \A m : Values(s \o u, m) = Values(s, m) \cup Values(u, m)
      /\ \A m, v : Sets(u, m, v) => Sets(s \o u, m, v)
      /\ \A m, v : Sets(s, m, v) /\ m \notin Fields(u) => Sets(s \o u, m, v)
  BY <1>1, <1>2, JoinSteps DEF s, u
<1>5. Fields(s \o u) = {a.f, b.f} BY <1>1, <1>2, <1>4 DEF s, u
<1>6. Sets(s \o u, b.f, b.v) /\ (a.f # b.f => Sets(s \o u, a.f, a.v))
  BY <1>1, <1>2, <1>4 DEF s, u
<1>7. \A m : Values(s \o u, m)
               = (IF a.f = m THEN {a.v} ELSE {}) \cup (IF b.f = m THEN {b.v} ELSE {})
  BY <1>1, <1>2, <1>4 DEF s, u
<1> QED BY <1>3, <1>4, <1>5, <1>6, <1>7

LEMMA TripleDoes ==
  ASSUME NEW a, NEW b, NEW c
  PROVE  /\ IsSteps(<<a, b, c>>) /\ Fields(<<a, b, c>>) = {a.f, b.f, c.f}
         /\ Sets(<<a, b, c>>, c.f, c.v)
         /\ (b.f # c.f => Sets(<<a, b, c>>, b.f, b.v))
         /\ (a.f \notin {b.f, c.f} => Sets(<<a, b, c>>, a.f, a.v))
         /\ \A m : Values(<<a, b, c>>, m)
                     = (IF a.f = m THEN {a.v} ELSE {}) \cup (IF b.f = m THEN {b.v} ELSE {})
                         \cup (IF c.f = m THEN {c.v} ELSE {})
<1>1. /\ IsSteps(<<a>>) /\ Fields(<<a>>) = {a.f} /\ Sets(<<a>>, a.f, a.v)
      /\ \A m : Values(<<a>>, m) = IF a.f = m THEN {a.v} ELSE {}
  BY OneStep
<1>2. /\ IsSteps(<<b, c>>) /\ Fields(<<b, c>>) = {b.f, c.f}
      /\ Sets(<<b, c>>, c.f, c.v) /\ (b.f # c.f => Sets(<<b, c>>, b.f, b.v))
      /\ \A m : Values(<<b, c>>, m)
                  = (IF b.f = m THEN {b.v} ELSE {}) \cup (IF c.f = m THEN {c.v} ELSE {})
  BY PairDoes
<1> DEFINE s == <<a>>  u == <<b, c>>
<1> HIDE DEF s, u
<1>3. <<a, b, c>> = s \o u BY ThreeSteps DEF s, u
<1>4. /\ IsSteps(s \o u) /\ Fields(s \o u) = Fields(s) \cup Fields(u)
      /\ \A m : Values(s \o u, m) = Values(s, m) \cup Values(u, m)
      /\ \A m, v : Sets(u, m, v) => Sets(s \o u, m, v)
      /\ \A m, v : Sets(s, m, v) /\ m \notin Fields(u) => Sets(s \o u, m, v)
  BY <1>1, <1>2, JoinSteps DEF s, u
<1>5. Fields(s \o u) = {a.f, b.f, c.f} BY <1>1, <1>2, <1>4 DEF s, u
<1>6. /\ Sets(s \o u, c.f, c.v) /\ (b.f # c.f => Sets(s \o u, b.f, b.v))
      /\ (a.f \notin {b.f, c.f} => Sets(s \o u, a.f, a.v))
  BY <1>1, <1>2, <1>4 DEF s, u
<1>7. \A m : Values(s \o u, m)
               = (IF a.f = m THEN {a.v} ELSE {}) \cup (IF b.f = m THEN {b.v} ELSE {})
                   \cup (IF c.f = m THEN {c.v} ELSE {})
  BY <1>1, <1>2, <1>4 DEF s, u
<1> QED BY <1>3, <1>4, <1>5, <1>6, <1>7


\* A method leaves each field as it was or as one of its steps says ...
Partly(steps) ==
  /\ DOMAIN reg' = DOMAIN reg /\ DOMAIN obj' = DOMAIN obj
  /\ \A m \in DOMAIN reg : /\ reg'[m] \in {reg[m]} \cup Values(steps, m)
                           /\ m \notin Fields(steps) => reg'[m] = reg[m]
  /\ \A m \in DOMAIN obj : /\ obj'[m] \in {obj[m]} \cup Values(steps, m)
                           /\ m \notin Fields(steps) => obj'[m] = obj[m]

\* ... and one that runs to its end, as the last of them says.
Wholly(steps) ==
  /\ \A m \in DOMAIN reg : \A v : Sets(steps, m, v) => reg'[m] = v
  /\ \A m \in DOMAIN obj : \A v : Sets(steps, m, v) => obj'[m] = v

LEMMA Stopped ==
  ASSUME NEW steps, IsSteps(steps), NEW k \in 0 .. Len(steps), Stop(steps, k)
  PROVE  Partly(steps) /\ (k = Len(steps) => Wholly(steps))
<1> DEFINE part == SubSeq(steps, 1, k)
<1>1. steps \in Seq(Said(steps)) BY DEF IsSteps
<1>2. reg' = After(reg, part) /\ obj' = After(obj, part) BY DEF Stop
<1>3. DOMAIN reg' = DOMAIN reg /\ DOMAIN obj' = DOMAIN obj BY <1>2 DEF After
<1>4. ASSUME NEW st, NEW m \in DOMAIN st
      PROVE  /\ After(st, part)[m] \in {st[m]} \cup Values(steps, m)
             /\ m \notin Fields(steps) => After(st, part)[m] = st[m]
  BY <1>1, AfterSome
<1> HIDE DEF part
<1>5. Partly(steps) BY <1>2, <1>3, <1>4 DEF Partly
<1>6. ASSUME k = Len(steps) PROVE Wholly(steps)
  <2>1. part = steps BY <1>1, <1>6 DEF part
  <2>2. ASSUME NEW st, NEW m \in DOMAIN st, NEW v, Sets(steps, m, v)
        PROVE  After(st, steps)[m] = v
    BY <1>1, <2>2, AfterSets
  <2> QED BY <1>2, <2>1, <2>2 DEF Wholly
<1> QED BY <1>5, <1>6

LEMMA Runs ==
  ASSUME NEW steps, NEW heals, NEW hurts, IsSteps(steps), Run(steps, heals, hurts)
  PROVE  /\ Partly(steps)
         /\ \/ Wholly(steps) /\ dirty' = (dirty \ heals) \cup hurts
            \/ dirty' = dirty \cup (heals \cup hurts)
<1>1. Len(steps) \in 0 .. Len(steps) BY DEF IsSteps
<1>2. CASE Stop(steps, Len(steps)) /\ dirty' = (dirty \ heals) \cup hurts
  BY <1>1, <1>2, Stopped
<1>3. CASE Interrupted(steps, heals \cup hurts)
  <2>1. PICK k \in 0 .. Len(steps) : Stop(steps, k) BY <1>3 DEF Interrupted, Cuts
  <2>2. Partly(steps) BY <2>1, Stopped
  <2> QED BY <1>3, <2>2 DEF Interrupted
<1> QED BY <1>2, <1>3 DEF Run

LEMMA Throws ==
  ASSUME NEW steps, NEW hurts, IsSteps(steps), RunThenThrow(steps, hurts)
  PROVE  Partly(steps) /\ dirty' = dirty \cup hurts
<1>1. Len(steps) \in 0 .. Len(steps) BY DEF IsSteps
<1>2. CASE Stop(steps, Len(steps)) /\ dirty' = dirty \cup hurts
  BY <1>1, <1>2, Stopped
<1>3. CASE Interrupted(steps, hurts)
  <2>1. PICK k \in 0 .. Len(steps) : Stop(steps, k) BY <1>3 DEF Interrupted, Cuts
  <2>2. Partly(steps) BY <2>1, Stopped
  <2> QED BY <1>3, <2>2 DEF Interrupted
<1> QED BY <1>2, <1>3 DEF RunThenThrow

-----------------------------------------------------------------------------
(***************************************************************************)
(* The invariant, a part for each parameter.                               *)
(***************************************************************************)
RegNames == {"MCR1", "MCR2", "MSR", "ROM", "ET1", "ET2", "IT1", "IT2", "ST1", "ST2",
             "INB1", "INB2", "OSC", "TAS", "TAP", "TIP", "FSR"}
Members  == {"m_setup", "m_version", "m_chip_fsr0", "m_fo_fast", "m_osc_frequency",
             "m_min_it", "m_expo_time", "m_int_time", "m_shut_level", "m_shut_mode",
             "m_ready_level", "m_ready_mode", "m_gate_level", "m_gate_mode",
             "m_trig_level", "m_trig_mode", "m_read_mode", "m_img_mode",
             "m_flatfield", "m_nb_frame", "m_port_used"}

\* The values a field may hold, of those whose type matters: the second
\* byte of a time has a unit that exists.
Fits(m, v) ==
  /\ m \in {"ET1", "IT1", "ST1", "ST2", "INB1", "INB2"} => v \in 0 .. 255
  /\ m \in {"ET2", "IT2"} => v \in 0 .. 223
  /\ m = "m_setup" => v \subseteq {"type", "osc"}
  /\ m = "m_fo_fast" => v \in BOOLEAN
  /\ m = "m_min_it" => v \in Minima
  /\ m = "m_port_used" => v \in Seq(Int)
  /\ m \in DOMAIN ValuesOf => v \in ValuesOf[m]

TypeOK ==
  /\ DOMAIN reg = RegNames /\ DOMAIN obj = Members
  /\ \A m \in RegNames : Fits(m, reg[m])
  /\ \A m \in Members : Fits(m, obj[m])

TypeSet == Clean({"MCR1"}) => /\ reg.MCR1 \cap {5, 6} = TypeBits(obj.m_version)
                              /\ "type" \in obj.m_setup
LinkSet == Clean({"FO"}) => (0 \in reg.MCR1 <=> obj.m_fo_fast)
OscSet  == Clean({"OSC"}) => /\ obj.m_min_it = MinInterval(reg.OSC)
                             /\ "osc" \in obj.m_setup
ExpoSet == Clean({"ET1", "ET2"}) => RegToTime(reg.ET1, reg.ET2) = obj.m_expo_time
IntSet  == Clean({"IT1", "IT2"}) => RegToTime(reg.IT1, reg.IT2) = obj.m_int_time
ST2Set  == Clean({"ST2"}) => updateSignal(reg.ST2, obj) = reg.ST2
RomSet  == Clean({"ROM"}) => reg.ROM = RomBits(obj)
NbSet   == Clean({"INB1", "INB2"}) => reg.INB1 + 256 * reg.INB2 = obj.m_nb_frame

AcqInv == /\ TypeOK /\ TypeSet /\ LinkSet /\ OscSet /\ ExpoSet /\ IntSet
          /\ ST2Set /\ RomSet /\ NbSet


\* Steps that give every field a value it may hold.
FitSteps(steps) == \A i \in DOMAIN steps : Fits(steps[i].f, steps[i].v)

LEMMA FitOne == ASSUME NEW a, Fits(a.f, a.v) PROVE FitSteps(<<a>>)
BY DEF FitSteps

LEMMA FitPair ==
  ASSUME NEW a, NEW b, Fits(a.f, a.v), Fits(b.f, b.v) PROVE FitSteps(<<a, b>>)
BY DEF FitSteps

LEMMA FitTriple ==
  ASSUME NEW a, NEW b, NEW c, Fits(a.f, a.v), Fits(b.f, b.v), Fits(c.f, c.v)
  PROVE  FitSteps(<<a, b, c>>)
BY DEF FitSteps

LEMMA FitJoin ==
  ASSUME NEW s, NEW u, IsSteps(s), IsSteps(u), FitSteps(s), FitSteps(u)
  PROVE  FitSteps(s \o u)
<1>1. s \in Seq(Said(s) \cup Said(u)) /\ u \in Seq(Said(s) \cup Said(u))
  <2>1. s \in Seq(Said(s)) /\ u \in Seq(Said(u)) BY DEF IsSteps
  <2> QED BY <2>1
<1> DEFINE S == Said(s) \cup Said(u)
<1> HIDE DEF S
<1>2. /\ DOMAIN (s \o u) = 1 .. Len(s) + Len(u) /\ Len(s) \in Nat /\ Len(u) \in Nat
      /\ DOMAIN s = 1 .. Len(s) /\ DOMAIN u = 1 .. Len(u)
      /\ \A i \in 1 .. Len(s) + Len(u) :
           (s \o u)[i] = IF i <= Len(s) THEN s[i] ELSE u[i - Len(s)]
  <2>1. s \in Seq(S) /\ u \in Seq(S) BY <1>1 DEF S
  <2> QED BY <2>1, ConcatProperties, LenProperties
<1> DEFINE n == Len(s)  k == Len(u)  j == s \o u
<1> HIDE DEF n, k, j
<1>3. ASSUME NEW i \in 1 .. n + k PROVE Fits(j[i].f, j[i].v)
  <2>1. CASE i <= n
    <3>1. i \in 1 .. n /\ j[i] = s[i] BY <1>2, <2>1 DEF n, k, j
    <3> QED BY <1>2, <3>1 DEF FitSteps, n
  <2>2. CASE ~(i <= n)
    <3>1. i - n \in 1 .. k /\ j[i] = u[i - n] BY <1>2, <2>2 DEF n, k, j
    <3> QED BY <1>2, <3>1 DEF FitSteps, k
  <2> QED BY <2>1, <2>2
<1> QED BY <1>2, <1>3 DEF FitSteps, n, k, j

\* What a method leaves alone.
Same(fs) ==
  /\ DOMAIN reg' = DOMAIN reg /\ DOMAIN obj' = DOMAIN obj
  /\ \A m \in RegNames \ fs : reg'[m] = reg[m]
  /\ \A m \in Members \ fs : obj'[m] = obj[m]
  /\ dirty \ fs \subseteq dirty'

\* A method that leaves MSR and the members kept in ST2 alone.
Silent == reg'["MSR"] = reg["MSR"] /\ \A m \in InST2 : obj'[m] = obj[m]

LEMMA ThenSilent ==
  ASSUME NEW fs, Same(fs), ({"MSR"} \cup InST2) \cap fs = {}
  PROVE  Silent
BY DEF Same, Silent, InST2, RegNames, Members

\* What a method does that leaves only fitting values.
LEMMA Leaves ==
  ASSUME TypeOK, NEW steps, NEW fs, NEW heals, Partly(steps), FitSteps(steps),
         Fields(steps) \subseteq fs, heals \subseteq fs, dirty \ heals \subseteq dirty'
  PROVE  TypeOK' /\ Same(fs)
<1>1. \A m : \A v \in Values(steps, m) : Fits(m, v) BY DEF FitSteps, Values
<1>2. \A m \in RegNames : Fits(m, reg'[m]) BY <1>1 DEF Partly, TypeOK
<1>3. \A m \in Members : Fits(m, obj'[m]) BY <1>1 DEF Partly, TypeOK
<1>4. DOMAIN reg' = RegNames /\ DOMAIN obj' = Members BY DEF Partly, TypeOK
<1>5. TypeOK' BY <1>2, <1>3, <1>4 DEF TypeOK
<1>6. Same(fs) BY DEF Partly, Same, TypeOK
<1> QED BY <1>5, <1>6

LEMMA RunLeaves ==
  ASSUME AcqInv, NEW steps, NEW heals, NEW hurts, NEW fs, IsSteps(steps), FitSteps(steps),
         Run(steps, heals, hurts), Fields(steps) \subseteq fs, heals \subseteq fs
  PROVE  /\ TypeOK' /\ Same(fs) /\ Partly(steps)
         /\ \/ Wholly(steps) /\ dirty' = (dirty \ heals) \cup hurts
            \/ dirty' = dirty \cup (heals \cup hurts)
<1>1. /\ Partly(steps)
      /\ \/ Wholly(steps) /\ dirty' = (dirty \ heals) \cup hurts
         \/ dirty' = dirty \cup (heals \cup hurts)
  BY Runs
<1>2. dirty \ heals \subseteq dirty' BY <1>1
<1>3. TypeOK' /\ Same(fs) BY <1>1, <1>2, Leaves DEF AcqInv
<1> QED BY <1>1, <1>3

LEMMA WhollyReg ==
  ASSUME TypeOK, NEW steps, Wholly(steps), NEW m \in RegNames, NEW v, Sets(steps, m, v)
  PROVE  reg'[m] = v
BY DEF Wholly, TypeOK

LEMMA WhollyObj ==
  ASSUME TypeOK, NEW steps, Wholly(steps), NEW m \in Members, NEW v, Sets(steps, m, v)
  PROVE  obj'[m] = v
BY DEF Wholly, TypeOK

LEMMA Kept ==
  ASSUME AcqInv, NEW fs, Same(fs)
  PROVE  /\ {"MCR1", "m_version", "m_setup"} \cap fs = {} => TypeSet'
         /\ {"MCR1", "m_fo_fast", "FO"} \cap fs = {} => LinkSet'
         /\ {"OSC", "m_min_it", "m_setup"} \cap fs = {} => OscSet'
         /\ {"ET1", "ET2", "m_expo_time"} \cap fs = {} => ExpoSet'
         /\ {"IT1", "IT2", "m_int_time"} \cap fs = {} => IntSet'
         /\ ({"ST2"} \cup InST2) \cap fs = {} => ST2Set'
         /\ {"ROM", "m_flatfield", "m_read_mode", "m_img_mode"} \cap fs = {} => RomSet'
         /\ {"INB1", "INB2", "m_nb_frame"} \cap fs = {} => NbSet'
<1>1. /\ \A m \in RegNames \ fs : reg'[m] = reg[m]
      /\ \A m \in Members \ fs : obj'[m] = obj[m]
      /\ \A d : d \notin fs /\ d \in dirty => d \in dirty'
  BY DEF Same
<1>2. ASSUME {"MCR1", "m_version", "m_setup"} \cap fs = {} PROVE TypeSet'
  <2>1. reg'["MCR1"] = reg["MCR1"] /\ obj'["m_version"] = obj["m_version"]
        /\ obj'["m_setup"] = obj["m_setup"]
    BY <1>1, <1>2 DEF RegNames, Members
  <2> QED BY <1>1, <1>2, <2>1 DEF AcqInv, TypeSet, Clean
<1>3. ASSUME {"MCR1", "m_fo_fast", "FO"} \cap fs = {} PROVE LinkSet'
  <2>1. reg'["MCR1"] = reg["MCR1"] /\ obj'["m_fo_fast"] = obj["m_fo_fast"]
    BY <1>1, <1>3 DEF RegNames, Members
  <2> QED BY <1>1, <1>3, <2>1 DEF AcqInv, LinkSet, Clean
<1>4. ASSUME {"OSC", "m_min_it", "m_setup"} \cap fs = {} PROVE OscSet'
  <2>1. reg'["OSC"] = reg["OSC"] /\ obj'["m_min_it"] = obj["m_min_it"]
        /\ obj'["m_setup"] = obj["m_setup"]
    BY <1>1, <1>4 DEF RegNames, Members
  <2> QED BY <1>1, <1>4, <2>1 DEF AcqInv, OscSet, Clean
<1>5. ASSUME {"ET1", "ET2", "m_expo_time"} \cap fs = {} PROVE ExpoSet'
  <2>1. reg'["ET1"] = reg["ET1"] /\ reg'["ET2"] = reg["ET2"]
        /\ obj'["m_expo_time"] = obj["m_expo_time"]
    BY <1>1, <1>5 DEF RegNames, Members
  <2> QED BY <1>1, <1>5, <2>1 DEF AcqInv, ExpoSet, Clean
<1>6. ASSUME {"IT1", "IT2", "m_int_time"} \cap fs = {} PROVE IntSet'
  <2>1. reg'["IT1"] = reg["IT1"] /\ reg'["IT2"] = reg["IT2"]
        /\ obj'["m_int_time"] = obj["m_int_time"]
    BY <1>1, <1>6 DEF RegNames, Members
  <2> QED BY <1>1, <1>6, <2>1 DEF AcqInv, IntSet, Clean
<1>7. ASSUME ({"ST2"} \cup InST2) \cap fs = {} PROVE ST2Set'
  <2>1. reg'["ST2"] = reg["ST2"] /\ \A m \in InST2 : obj'[m] = obj[m]
    BY <1>1, <1>7 DEF RegNames, Members, InST2
  <2> QED BY <1>1, <1>7, <2>1 DEF AcqInv, ST2Set, Clean, updateSignal, InST2
<1>8. ASSUME {"ROM", "m_flatfield", "m_read_mode", "m_img_mode"} \cap fs = {} PROVE RomSet'
  <2>1. reg'["ROM"] = reg["ROM"] /\ obj'["m_flatfield"] = obj["m_flatfield"]
        /\ obj'["m_read_mode"] = obj["m_read_mode"] /\ obj'["m_img_mode"] = obj["m_img_mode"]
    BY <1>1, <1>8 DEF RegNames, Members
  <2> QED BY <1>1, <1>8, <2>1 DEF AcqInv, RomSet, Clean, RomBits
<1>9. ASSUME {"INB1", "INB2", "m_nb_frame"} \cap fs = {} PROVE NbSet'
  <2>1. reg'["INB1"] = reg["INB1"] /\ reg'["INB2"] = reg["INB2"]
        /\ obj'["m_nb_frame"] = obj["m_nb_frame"]
    BY <1>1, <1>9 DEF RegNames, Members
  <2> QED BY <1>1, <1>9, <2>1 DEF AcqInv, NbSet, Clean
<1> QED BY <1>2, <1>3, <1>4, <1>5, <1>6, <1>7, <1>8, <1>9


-----------------------------------------------------------------------------
(***************************************************************************)
(* The methods for times and numbers of frames.                            *)
(***************************************************************************)
\* A time that was not refused, in its registers and in its member.
LEMMA TimeWritten ==
  ASSUME NEW us \in Nat, us # TooLong, NEW askt \in Product(us), ~Overflow(askt)
  PROVE  /\ TimeToReg(askt).reg1 \in 0 .. 255 /\ TimeToReg(askt).reg2 \in 0 .. 223
         /\ RegToTime(TimeToReg(askt).reg1, TimeToReg(askt).reg2) = Time(askt)
<1>1. askt \in Nat /\ askt < Limit
  <2>1. askt \in Nat /\ askt \in 2 * us - 1 .. 2 * us + 1 BY ProductType
  <2>2. askt <= 2048000000 BY <2>1, Units DEF Overflow, UNIT_NB
  <2>3. askt # 2048000000 BY <2>1 DEF TooLong
  <2> QED BY <2>1, <2>2, <2>3 DEF Limit
<1>2. /\ TimeToReg(askt).reg1 \in 0 .. 255
      /\ RegToTime(TimeToReg(askt).reg1, TimeToReg(askt).reg2) = Time(askt)
  BY <1>1, DecodeEncode DEF Time
<1>3. PICK iu \in 0 .. 6 : iu = Scale(askt) BY <1>1, ScaleInRange
<1>4. PICK it \in 0 .. 1023 : it = Count(askt) BY <1>1, CountInRange
<1>5. TimeToReg(askt).reg2 = ((it \div 256) % 4) + 32 * iu BY <1>3, <1>4 DEF TimeToReg
<1> QED BY <1>2, <1>5

LEMMA ExposureKeeps ==
  ASSUME AcqInv, Encodable, NEW us \in Times, SetExposureTime(us)
  PROVE  AcqInv' /\ Silent
<1>0. PICK askt \in Product(us) :
        /\ ~Overflow(askt)
        /\ Run(<< io("ET1", TimeToReg(askt).reg1), io("ET2", TimeToReg(askt).reg2),
                  assign("m_expo_time", Time(askt)) >>, {"ET1", "ET2"}, {})
  BY DEF SetExposureTime
<1> DEFINE a == io("ET1", TimeToReg(askt).reg1)
           b == io("ET2", TimeToReg(askt).reg2)
           c == assign("m_expo_time", Time(askt))
           steps == <<a, b, c>>
           fs == {"ET1", "ET2", "m_expo_time"}
<1>1. /\ a.f = "ET1" /\ a.v = TimeToReg(askt).reg1 /\ b.f = "ET2" /\ b.v = TimeToReg(askt).reg2
      /\ c.f = "m_expo_time" /\ c.v = Time(askt)
  BY DEF io, assign
<1>2. /\ TimeToReg(askt).reg1 \in 0 .. 255 /\ TimeToReg(askt).reg2 \in 0 .. 223
      /\ RegToTime(TimeToReg(askt).reg1, TimeToReg(askt).reg2) = Time(askt)
  BY <1>0, TimeWritten, AcqAssumption DEF Encodable
<1>3. Run(steps, {"ET1", "ET2"}, {}) BY <1>0
<1> HIDE DEF a, b, c
<1>4. /\ IsSteps(steps) /\ Fields(steps) = fs
      /\ Sets(steps, "ET1", a.v) /\ Sets(steps, "ET2", b.v) /\ Sets(steps, "m_expo_time", c.v)
  BY <1>1, TripleDoes
<1>5. FitSteps(steps)
  <2>1. Fits(a.f, a.v) /\ Fits(b.f, b.v) /\ Fits(c.f, c.v) BY <1>1, <1>2 DEF Fits, ValuesOf
  <2> QED BY <2>1, FitTriple
<1> HIDE DEF steps
<1>6. /\ TypeOK' /\ Same(fs)
      /\ \/ Wholly(steps) /\ dirty' = (dirty \ {"ET1", "ET2"}) \cup {}
         \/ dirty' = dirty \cup ({"ET1", "ET2"} \cup {})
  <2>1. {"ET1", "ET2"} \subseteq fs /\ Fields(steps) \subseteq fs BY <1>4
  <2> HIDE DEF fs
  <2> QED BY <1>3, <1>4, <1>5, <2>1, RunLeaves
<1>7. ExpoSet'
  <2>1. CASE Wholly(steps)
    <3>1. "ET1" \in RegNames /\ "ET2" \in RegNames /\ "m_expo_time" \in Members
      BY DEF RegNames, Members
    <3>2. reg'["ET1"] = a.v /\ reg'["ET2"] = b.v /\ obj'["m_expo_time"] = c.v
      BY <1>4, <2>1, <3>1, WhollyReg, WhollyObj DEF AcqInv
    <3>3. RegToTime(a.v, b.v) = c.v BY <1>1, <1>2
    <3> QED BY <3>2, <3>3 DEF ExpoSet
  <2>2. CASE dirty' = dirty \cup ({"ET1", "ET2"} \cup {})
    BY <2>2 DEF ExpoSet, Clean
  <2> QED BY <1>6, <2>1, <2>2
<1>8. TypeSet' /\ LinkSet' /\ OscSet' /\ IntSet' /\ ST2Set' /\ RomSet' /\ NbSet' /\ Silent
  <2>1. Same(fs) BY <1>6
  <2> QED BY <2>1, Kept, ThenSilent DEF InST2
<1> QED BY <1>6, <1>7, <1>8 DEF AcqInv


LEMMA IntervalKeeps ==
  ASSUME AcqInv, Encodable, NEW us \in Times, SetIntervalTime(us)
  PROVE  AcqInv' /\ Silent
<1> DEFINE t == IF us < obj.m_min_it THEN obj.m_min_it ELSE us
<1>0. PICK askt \in Product(t) :
        /\ ~Overflow(askt)
        /\ Run(<< io("IT1", TimeToReg(askt).reg1), io("IT2", TimeToReg(askt).reg2),
                  assign("m_int_time", Time(askt)) >>, {"IT1", "IT2"}, {})
  BY DEF SetIntervalTime
<1> DEFINE a == io("IT1", TimeToReg(askt).reg1)
           b == io("IT2", TimeToReg(askt).reg2)
           c == assign("m_int_time", Time(askt))
           steps == <<a, b, c>>
           fs == {"IT1", "IT2", "m_int_time"}
<1>1. /\ a.f = "IT1" /\ a.v = TimeToReg(askt).reg1 /\ b.f = "IT2" /\ b.v = TimeToReg(askt).reg2
      /\ c.f = "m_int_time" /\ c.v = Time(askt)
  BY DEF io, assign
<1>2. /\ TimeToReg(askt).reg1 \in 0 .. 255 /\ TimeToReg(askt).reg2 \in 0 .. 223
      /\ RegToTime(TimeToReg(askt).reg1, TimeToReg(askt).reg2) = Time(askt)
  <2>1. obj.m_min_it \in Minima
    <3>1. "m_min_it" \in Members BY DEF Members
    <3> QED BY <3>1 DEF AcqInv, TypeOK, Fits
  <2>2. us \in Nat /\ us # TooLong BY AcqAssumption DEF Encodable
  <2>3. t \in Nat /\ t # TooLong BY <2>1, <2>2, MinimaFit
  <2> HIDE DEF t
  <2> QED BY <1>0, <2>3, TimeWritten
<1>3. Run(steps, {"IT1", "IT2"}, {}) BY <1>0
<1> HIDE DEF a, b, c, t
<1>4. /\ IsSteps(steps) /\ Fields(steps) = fs
      /\ Sets(steps, "IT1", a.v) /\ Sets(steps, "IT2", b.v) /\ Sets(steps, "m_int_time", c.v)
  BY <1>1, TripleDoes
<1>5. FitSteps(steps)
  <2>1. Fits(a.f, a.v) /\ Fits(b.f, b.v) /\ Fits(c.f, c.v) BY <1>1, <1>2 DEF Fits, ValuesOf
  <2> QED BY <2>1, FitTriple
<1> HIDE DEF steps
<1>6. /\ TypeOK' /\ Same(fs)
      /\ \/ Wholly(steps) /\ dirty' = (dirty \ {"IT1", "IT2"}) \cup {}
         \/ dirty' = dirty \cup ({"IT1", "IT2"} \cup {})
  <2>1. {"IT1", "IT2"} \subseteq fs /\ Fields(steps) \subseteq fs BY <1>4
  <2> HIDE DEF fs
  <2> QED BY <1>3, <1>4, <1>5, <2>1, RunLeaves
<1>7. IntSet'
  <2>1. CASE Wholly(steps)
    <3>1. "IT1" \in RegNames /\ "IT2" \in RegNames /\ "m_int_time" \in Members
      BY DEF RegNames, Members
    <3>2. reg'["IT1"] = a.v /\ reg'["IT2"] = b.v /\ obj'["m_int_time"] = c.v
      BY <1>4, <2>1, <3>1, WhollyReg, WhollyObj DEF AcqInv
    <3>3. RegToTime(a.v, b.v) = c.v BY <1>1, <1>2
    <3> QED BY <3>2, <3>3 DEF IntSet
  <2>2. CASE dirty' = dirty \cup ({"IT1", "IT2"} \cup {})
    BY <2>2 DEF IntSet, Clean
  <2> QED BY <1>6, <2>1, <2>2
<1>8. TypeSet' /\ LinkSet' /\ OscSet' /\ ExpoSet' /\ ST2Set' /\ RomSet' /\ NbSet' /\ Silent
  <2>1. Same(fs) BY <1>6
  <2> QED BY <2>1, Kept, ThenSilent DEF InST2
<1> QED BY <1>6, <1>7, <1>8 DEF AcqInv

\* The longest exposure is set past the member, and the registers are said
\* not to agree with it.
LEMMA MaxExposureKeeps ==
  ASSUME AcqInv, SetMaxExposureTime
  PROVE  AcqInv' /\ Silent
<1> DEFINE a == io("ET1", 255)
           b == io("ET2", 3 + 32 * 6)
           steps == <<a, b>>
           fs == {"ET1", "ET2"}
<1>1. a.f = "ET1" /\ a.v = 255 /\ b.f = "ET2" /\ b.v = 195 BY DEF io
<1>2. Run(steps, {}, {"ET1", "ET2"}) BY DEF SetMaxExposureTime
<1> HIDE DEF a, b
<1>3. IsSteps(steps) /\ Fields(steps) = fs BY <1>1, PairDoes
<1>4. FitSteps(steps)
  <2>1. Fits(a.f, a.v) /\ Fits(b.f, b.v) BY <1>1 DEF Fits, ValuesOf
  <2> QED BY <2>1, FitPair
<1> HIDE DEF steps
<1>5. TypeOK' /\ Same(fs) /\ dirty' = dirty \cup {"ET1", "ET2"}
  <2>1. {} \subseteq fs /\ Fields(steps) \subseteq fs BY <1>3
  <2>2. /\ TypeOK' /\ Same(fs)
        /\ \/ Wholly(steps) /\ dirty' = (dirty \ {}) \cup {"ET1", "ET2"}
           \/ dirty' = dirty \cup ({} \cup {"ET1", "ET2"})
    <3> HIDE DEF fs
    <3> QED BY <1>2, <1>3, <1>4, <2>1, RunLeaves
  <2> QED BY <2>2
<1>6. ExpoSet' BY <1>5 DEF ExpoSet, Clean
<1>7. TypeSet' /\ LinkSet' /\ OscSet' /\ IntSet' /\ ST2Set' /\ RomSet' /\ NbSet' /\ Silent
  <2>1. Same(fs) BY <1>5
  <2> QED BY <2>1, Kept, ThenSilent DEF InST2
<1> QED BY <1>5, <1>6, <1>7 DEF AcqInv

LEMMA TwoBytes ==
  ASSUME NEW nb \in Nat, nb <= 65535
  PROVE  /\ nb % 256 \in 0 .. 255 /\ (nb \div 256) % 256 \in 0 .. 255
         /\ (nb % 256) + 256 * ((nb \div 256) % 256) = nb
<1>1. nb \div 256 \in Nat /\ nb \div 256 < 256 OBVIOUS
<1>2. (nb \div 256) % 256 = nb \div 256 BY <1>1
<1> QED BY <1>1, <1>2

\* The two bytes of a number of frames.
LEMMA FramesKeeps ==
  ASSUME AcqInv, NEW nb \in Frames, SetNbFrames(nb)
  PROVE  AcqInv' /\ Silent
<1> DEFINE a == io("INB1", nb % 256)
           b == io("INB2", (nb \div 256) % 256)
           c == assign("m_nb_frame", nb)
           steps == <<a, b, c>>
           fs == {"INB1", "INB2", "m_nb_frame"}
<1>1. /\ a.f = "INB1" /\ a.v = nb % 256 /\ b.f = "INB2" /\ b.v = (nb \div 256) % 256
      /\ c.f = "m_nb_frame" /\ c.v = nb
  BY DEF io, assign
<1>2. /\ nb % 256 \in 0 .. 255 /\ (nb \div 256) % 256 \in 0 .. 255
      /\ (nb % 256) + 256 * ((nb \div 256) % 256) = nb
  <2>1. nb \in Nat /\ nb <= 65535 BY AcqAssumption DEF SetNbFrames
  <2> QED BY <2>1, TwoBytes
<1>3. Run(steps, {"INB1", "INB2"}, {}) BY DEF SetNbFrames
<1> HIDE DEF a, b, c
<1>4. /\ IsSteps(steps) /\ Fields(steps) = fs
      /\ Sets(steps, "INB1", a.v) /\ Sets(steps, "INB2", b.v) /\ Sets(steps, "m_nb_frame", c.v)
  BY <1>1, TripleDoes
<1>5. FitSteps(steps)
  <2>1. Fits(a.f, a.v) /\ Fits(b.f, b.v) /\ Fits(c.f, c.v) BY <1>1, <1>2 DEF Fits, ValuesOf
  <2> QED BY <2>1, FitTriple
<1> HIDE DEF steps
<1>6. /\ TypeOK' /\ Same(fs)
      /\ \/ Wholly(steps) /\ dirty' = (dirty \ {"INB1", "INB2"}) \cup {}
         \/ dirty' = dirty \cup ({"INB1", "INB2"} \cup {})
  <2>1. {"INB1", "INB2"} \subseteq fs /\ Fields(steps) \subseteq fs BY <1>4
  <2> HIDE DEF fs
  <2> QED BY <1>3, <1>4, <1>5, <2>1, RunLeaves
<1>7. NbSet'
  <2>1. CASE Wholly(steps)
    <3>1. "INB1" \in RegNames /\ "INB2" \in RegNames /\ "m_nb_frame" \in Members
      BY DEF RegNames, Members
    <3>2. reg'["INB1"] = a.v /\ reg'["INB2"] = b.v /\ obj'["m_nb_frame"] = c.v
      BY <1>4, <2>1, <3>1, WhollyReg, WhollyObj DEF AcqInv
    <3>3. a.v + 256 * b.v = c.v BY <1>1, <1>2
    <3> QED BY <3>2, <3>3 DEF NbSet
  <2>2. CASE dirty' = dirty \cup ({"INB1", "INB2"} \cup {})
    BY <2>2 DEF NbSet, Clean
  <2> QED BY <1>6, <2>1, <2>2
<1>8. TypeSet' /\ LinkSet' /\ OscSet' /\ IntSet' /\ ST2Set' /\ RomSet' /\ ExpoSet' /\ Silent
  <2>1. Same(fs) BY <1>6
  <2> QED BY <2>1, Kept, ThenSilent DEF InST2
<1> QED BY <1>6, <1>7, <1>8 DEF AcqInv


-----------------------------------------------------------------------------
(***************************************************************************)
(* The methods for the signals: the byte that the shutter's time shares    *)
(* with the levels and modes.                                              *)
(***************************************************************************)
\* A byte's parts, as ST2 has them: unit, mode, two levels, high count.
PartsOf(x, h, a, b, c, l) ==
  /\ h \in 0 .. 7 /\ a \in 0 .. 1 /\ b \in 0 .. 1 /\ c \in 0 .. 1 /\ l \in 0 .. 3
  /\ x = 32 * h + 16 * a + 8 * b + 4 * c + l

LEMMA BytesHaveParts ==
  ASSUME NEW x \in 0 .. 255
  PROVE  \E h, a, b, c, l : PartsOf(x, h, a, b, c, l)
<1> DEFINE h == x \div 32
           a == (x \div 16) % 2
           b == (x \div 8) % 2
           c == (x \div 4) % 2
           l == x % 4
<1>1. PartsOf(x, h, a, b, c, l) BY DEF PartsOf
<1> QED BY <1>1

LEMMA PartsAre ==
  ASSUME NEW x, NEW h, NEW a, NEW b, NEW c, NEW l, PartsOf(x, h, a, b, c, l)
  PROVE  /\ x \in 0 .. 255 /\ x % 4 = l /\ x \div 32 = h
         /\ (x \div 4) % 2 = c /\ (x \div 8) % 2 = b /\ (x \div 16) % 2 = a
<1>1. x = 4 * (8 * h + 4 * a + 2 * b + c) + l BY DEF PartsOf
<1>2. x \div 4 = 8 * h + 4 * a + 2 * b + c BY <1>1 DEF PartsOf
<1>3. x \div 8 = 4 * h + 2 * a + b BY DEF PartsOf
<1>4. x \div 16 = 2 * h + a BY DEF PartsOf
<1>5. x \div 32 = h BY DEF PartsOf
<1>6. x % 4 = l BY <1>1 DEF PartsOf
<1>7. x \in 0 .. 255 BY DEF PartsOf
<1> QED BY <1>2, <1>3, <1>4, <1>5, <1>6, <1>7 DEF PartsOf

One(on) == IF on THEN 1 ELSE 0

LEMMA SetBits ==
  ASSUME NEW x, NEW h, NEW a, NEW b, NEW c, NEW l, PartsOf(x, h, a, b, c, l),
         NEW on \in BOOLEAN
  PROVE  /\ PartsOf(SetBit(x, 4, on), h, a, b, One(on), l)
         /\ PartsOf(SetBit(x, 8, on), h, a, One(on), c, l)
         /\ PartsOf(SetBit(x, 16, on), h, One(on), b, c, l)
<1>1. /\ x \in 0 .. 255 /\ (x \div 4) % 2 = c /\ (x \div 8) % 2 = b /\ (x \div 16) % 2 = a
  BY PartsAre
<1>2. One(on) \in 0 .. 1 /\ \A w \in {4, 8, 16} : w * One(on) = IF on THEN w ELSE 0
  BY DEF One
<1>3. /\ SetBit(x, 4, on) = x - 4 * c + 4 * One(on)
      /\ SetBit(x, 8, on) = x - 8 * b + 8 * One(on)
      /\ SetBit(x, 16, on) = x - 16 * a + 16 * One(on)
  BY <1>1, <1>2 DEF SetBit
<1> QED BY <1>2, <1>3 DEF PartsOf

\* What the members say of the byte, and that saying it again changes nothing.
LEMMA SignalParts ==
  ASSUME NEW x, NEW h, NEW a, NEW b, NEW c, NEW l, PartsOf(x, h, a, b, c, l), NEW o
  PROVE  PartsOf(updateSignal(x, o), h, One(o.m_shut_mode = "SEQUENCE"),
                 One(o.m_shut_level = "HIGH_RISE"), One(o.m_ready_level = "HIGH_RISE"), l)
<1> DEFINE r == o.m_ready_level = "HIGH_RISE"
           s == o.m_shut_level = "HIGH_RISE"
           m == o.m_shut_mode = "SEQUENCE"
<1>1. r \in BOOLEAN /\ s \in BOOLEAN /\ m \in BOOLEAN OBVIOUS
<1>2. updateSignal(x, o) = SetBit(SetBit(SetBit(x, 4, r), 8, s), 16, m) BY DEF updateSignal
<1> HIDE DEF r, s, m
<1>3. PartsOf(SetBit(x, 4, r), h, a, b, One(r), l) BY <1>1, SetBits
<1>4. PartsOf(SetBit(SetBit(x, 4, r), 8, s), h, a, One(s), One(r), l) BY <1>1, <1>3, SetBits
<1>5. PartsOf(SetBit(SetBit(SetBit(x, 4, r), 8, s), 16, m), h, One(m), One(s), One(r), l)
  BY <1>1, <1>4, SetBits
<1> QED BY <1>2, <1>5 DEF r, s, m

LEMMA SignalKept ==
  ASSUME NEW x \in 0 .. 255, NEW o
  PROVE  /\ updateSignal(x, o) \in 0 .. 255
         /\ updateSignal(updateSignal(x, o), o) = updateSignal(x, o)
         /\ updateSignal(x, o) % 4 = x % 4 /\ updateSignal(x, o) \div 32 = x \div 32
<1>1. PICK h, a, b, c, l : PartsOf(x, h, a, b, c, l) BY BytesHaveParts
<1> DEFINE y == updateSignal(x, o)
           z == updateSignal(y, o)
           m == One(o.m_shut_mode = "SEQUENCE")
           s == One(o.m_shut_level = "HIGH_RISE")
           r == One(o.m_ready_level = "HIGH_RISE")
<1>2. PartsOf(y, h, m, s, r, l) BY <1>1, SignalParts
<1> HIDE DEF y
<1>3. PartsOf(z, h, m, s, r, l) BY <1>2, SignalParts
<1> HIDE DEF z, m, s, r
<1>4. z = y BY <1>2, <1>3 DEF PartsOf
<1>5. y \in 0 .. 255 /\ y % 4 = l /\ y \div 32 = h BY <1>2, PartsAre
<1>6. x % 4 = l /\ x \div 32 = h BY <1>1, PartsAre
<1> QED BY <1>4, <1>5, <1>6 DEF z, y


LEMMA ShutterKeeps ==
  ASSUME AcqInv, Encodable, NEW us \in ShutterTimes, SetShutterTime(us)
  PROVE  AcqInv' /\ Silent
<1>0. PICK askt \in Product(us) :
        /\ ~Overflow(askt)
        /\ Run(<< io("ST1", TimeToReg(askt).reg1),
                  io("ST2", updateSignal(TimeToReg(askt).reg2, obj)) >>, {"ST2"}, {})
  BY DEF SetShutterTime
<1> DEFINE x == TimeToReg(askt).reg2
           a == io("ST1", TimeToReg(askt).reg1)
           b == io("ST2", updateSignal(x, obj))
           steps == <<a, b>>
           fs == {"ST1", "ST2"}
<1>1. TimeToReg(askt).reg1 \in 0 .. 255 /\ x \in 0 .. 255
  <2>1. us \in Nat /\ us # TooLong BY AcqAssumption DEF Encodable
  <2>2. TimeToReg(askt).reg1 \in 0 .. 255 /\ x \in 0 .. 223
    BY <1>0, <2>1, TimeWritten
  <2> QED BY <2>2
<1>2. Run(steps, {"ST2"}, {}) BY <1>0
<1> HIDE DEF x
<1>3. a.f = "ST1" /\ a.v = TimeToReg(askt).reg1 /\ b.f = "ST2" /\ b.v = updateSignal(x, obj)
  BY DEF io
<1>4. b.v \in 0 .. 255 /\ updateSignal(b.v, obj) = b.v BY <1>1, <1>3, SignalKept
<1> HIDE DEF a, b
<1>5. IsSteps(steps) /\ Fields(steps) = fs /\ Sets(steps, "ST2", b.v) BY <1>3, PairDoes
<1>6. FitSteps(steps)
  <2>1. Fits(a.f, a.v) /\ Fits(b.f, b.v) BY <1>1, <1>3, <1>4 DEF Fits, ValuesOf
  <2> QED BY <2>1, FitPair
<1> HIDE DEF steps
<1>7. /\ TypeOK' /\ Same(fs)
      /\ \/ Wholly(steps) /\ dirty' = (dirty \ {"ST2"}) \cup {}
         \/ dirty' = dirty \cup ({"ST2"} \cup {})
  <2>1. {"ST2"} \subseteq fs /\ Fields(steps) \subseteq fs BY <1>5
  <2> HIDE DEF fs
  <2> QED BY <1>2, <1>5, <1>6, <2>1, RunLeaves
<1>8. ST2Set'
  <2>1. CASE Wholly(steps)
    <3>1. "ST2" \in RegNames BY DEF RegNames
    <3>2. reg'["ST2"] = b.v BY <1>5, <2>1, <3>1, WhollyReg DEF AcqInv
    <3>3. \A m \in InST2 : obj'[m] = obj[m] BY <1>7 DEF Same, InST2, Members
    <3>4. updateSignal(b.v, obj') = updateSignal(b.v, obj) BY <3>3 DEF updateSignal, InST2
    <3> QED BY <1>4, <3>2, <3>4 DEF ST2Set
  <2>2. CASE dirty' = dirty \cup ({"ST2"} \cup {})
    BY <2>2 DEF ST2Set, Clean
  <2> QED BY <1>7, <2>1, <2>2
<1>9. TypeSet' /\ LinkSet' /\ OscSet' /\ ExpoSet' /\ IntSet' /\ RomSet' /\ NbSet' /\ Silent
  <2>1. Same(fs) BY <1>7
  <2> QED BY <2>1, Kept, ThenSilent DEF InST2
<1> QED BY <1>7, <1>8, <1>9 DEF AcqInv

\* What a signal's setter does to ST2 and to the members.
LEMMA SignalDoes ==
  ASSUME AcqInv, NEW m \in InST2, NEW v \in ValuesOf[m], SetSignal(m, v)
  PROVE  LET o == [obj EXCEPT ![m] = v]
         IN /\ TypeOK' /\ Same({m, "none", "ST2"})
            /\ reg'["ST2"] \in {reg["ST2"], updateSignal(reg["ST2"], o)}
            /\ \/ "ST2" \in dirty'
               \/ obj'[m] = v /\ reg'["ST2"] = updateSignal(reg["ST2"], o)
<1> DEFINE o == [obj EXCEPT ![m] = v]
           a == assign(m, v)
           n == io("none", 0)
           b == io("ST2", updateSignal(reg["ST2"], o))
           steps == <<a, n, b>>
           fs == {m, "none", "ST2"}
<1>1. /\ Run(steps, {"ST2"}, {}) /\ "ST2" \in RegNames /\ m \in Members
      /\ m \notin {"none", "ST2"} /\ m \in DOMAIN ValuesOf
  BY DEF SetSignal, InST2, RegNames, Members, ValuesOf
<1>2. reg["ST2"] \in 0 .. 255 BY <1>1 DEF AcqInv, TypeOK, Fits
<1> HIDE DEF o
<1>3. updateSignal(reg["ST2"], o) \in 0 .. 255 BY <1>2, SignalKept
<1>4. /\ a.f = m /\ a.v = v /\ n.f = "none" /\ n.v = 0
      /\ b.f = "ST2" /\ b.v = updateSignal(reg["ST2"], o)
  BY DEF io, assign
<1> HIDE DEF a, n, b
<1>5. /\ IsSteps(steps) /\ Fields(steps) = fs
      /\ Sets(steps, m, v) /\ Sets(steps, "ST2", b.v) /\ Values(steps, "ST2") = {b.v}
  BY <1>1, <1>4, TripleDoes
<1>6. FitSteps(steps)
  <2>1. Fits(b.f, b.v) BY <1>3, <1>4 DEF Fits, ValuesOf
  <2>2. Fits(n.f, n.v) BY <1>4 DEF Fits, ValuesOf
  <2>3. Fits(a.f, a.v) BY <1>1, <1>4 DEF Fits, InST2
  <2> QED BY <2>1, <2>2, <2>3, FitTriple
<1> HIDE DEF steps
<1>7. /\ TypeOK' /\ Same(fs) /\ Partly(steps)
      /\ \/ Wholly(steps) /\ dirty' = (dirty \ {"ST2"}) \cup {}
         \/ dirty' = dirty \cup ({"ST2"} \cup {})
  <2>1. {"ST2"} \subseteq fs /\ Fields(steps) \subseteq fs BY <1>5
  <2> HIDE DEF fs
  <2> QED BY <1>1, <1>5, <1>6, <2>1, RunLeaves
<1>8. reg'["ST2"] \in {reg["ST2"], updateSignal(reg["ST2"], o)}
  BY <1>1, <1>4, <1>5, <1>7 DEF Partly, AcqInv, TypeOK
<1>9. \/ "ST2" \in dirty'
      \/ obj'[m] = v /\ reg'["ST2"] = updateSignal(reg["ST2"], o)
  <2>1. CASE Wholly(steps)
    <3>1. reg'["ST2"] = b.v /\ obj'[m] = v
      BY <1>1, <1>5, <2>1, WhollyReg, WhollyObj DEF AcqInv
    <3> QED BY <1>4, <3>1
  <2>2. CASE dirty' = dirty \cup ({"ST2"} \cup {}) BY <2>2
  <2> QED BY <1>7, <2>1, <2>2
<1> QED BY <1>7, <1>8, <1>9 DEF o

LEMMA SignalKeeps ==
  ASSUME AcqInv, NEW m \in InST2, NEW v \in ValuesOf[m], SetSignal(m, v)
  PROVE  AcqInv'
<1> DEFINE o == [obj EXCEPT ![m] = v]
           fs == {m, "none", "ST2"}
<1>1. /\ TypeOK' /\ Same(fs)
      /\ "ST2" \in dirty' \/ (obj'[m] = v /\ reg'["ST2"] = updateSignal(reg["ST2"], o))
  BY SignalDoes
<1>2. ST2Set'
  <2>1. CASE obj'[m] = v /\ reg'["ST2"] = updateSignal(reg["ST2"], o)
    <3>1. "ST2" \in RegNames /\ InST2 \subseteq Members BY DEF RegNames, InST2, Members
    <3>2. reg["ST2"] \in 0 .. 255 BY <3>1 DEF AcqInv, TypeOK, Fits
    <3>3. \A k \in InST2 : o[k] = IF k = m THEN v ELSE obj[k]
      BY <3>1 DEF AcqInv, TypeOK
    <3>4. \A k \in InST2 : obj'[k] = IF k = m THEN v ELSE obj[k]
      BY <1>1, <2>1, <3>1 DEF Same, InST2
    <3> HIDE DEF o
    <3>5. \A x : updateSignal(x, obj') = updateSignal(x, o)
      BY <3>3, <3>4 DEF updateSignal, InST2
    <3>6. updateSignal(reg'["ST2"], o) = reg'["ST2"] BY <2>1, <3>2, SignalKept
    <3> QED BY <3>5, <3>6 DEF ST2Set
  <2>2. CASE "ST2" \in dirty' BY <2>2 DEF ST2Set, Clean
  <2> QED BY <1>1, <2>1, <2>2
<1>3. TypeSet' /\ LinkSet' /\ OscSet' /\ ExpoSet' /\ IntSet' /\ RomSet' /\ NbSet'
  <2>1. Same(fs) BY <1>1
  <2> QED BY <2>1, Kept DEF InST2
<1> QED BY <1>1, <1>2, <1>3 DEF AcqInv

\* The members that only a start or stop writes.
LEMMA ModeKeeps ==
  ASSUME AcqInv, NEW m \in (DOMAIN ValuesOf \ InST2) \cup {"m_trig_mode"}, NEW v,
         m \in DOMAIN ValuesOf => v \in ValuesOf[m], SetMode(m, v)
  PROVE  AcqInv' /\ Silent
<1>1. /\ m \in Members /\ m \notin RegNames
      /\ m \in {"m_ready_mode", "m_gate_level", "m_gate_mode", "m_trig_level", "m_trig_mode"}
  BY DEF Members, RegNames, ValuesOf, InST2
<1>2. /\ reg' = reg /\ dirty' = dirty /\ DOMAIN obj' = Members
      /\ \A k \in Members : obj'[k] = IF k = m THEN v ELSE obj[k]
  BY <1>1 DEF SetMode, AcqInv, TypeOK
<1>3. Same({m}) BY <1>2 DEF Same, AcqInv, TypeOK
<1>4. Fits(m, v) BY <1>1 DEF Fits
<1>5. TypeOK' BY <1>1, <1>2, <1>4 DEF AcqInv, TypeOK
<1>6. /\ TypeSet' /\ LinkSet' /\ OscSet' /\ ExpoSet' /\ IntSet' /\ ST2Set'
      /\ RomSet' /\ NbSet' /\ Silent
  BY <1>1, <1>3, Kept, ThenSilent DEF InST2
<1> QED BY <1>5, <1>6 DEF AcqInv


-----------------------------------------------------------------------------
(***************************************************************************)
(* The methods for the readout and the link.                               *)
(***************************************************************************)
LEMMA RomKeeps ==
  ASSUME AcqInv, NEW o, o.m_port_used \in Seq(Int), SetRom(o)
  PROVE  AcqInv' /\ Silent
<1> DEFINE a == assign("m_flatfield", o.m_flatfield)
           b == assign("m_img_mode", o.m_img_mode)
           c == assign("m_port_used", o.m_port_used)
           d == assign("m_read_mode", o.m_read_mode)
           e == io("ROM", RomBits(o))
           s == <<a, b, c>>
           u == <<d, e>>
           steps == s \o u
           fs == {"m_flatfield", "m_img_mode", "m_port_used", "m_read_mode", "ROM"}
<1>1. Run(steps, {"ROM"}, {})
  <2>1. Run(<<a, b, c, d, e>>, {"ROM"}, {}) BY DEF SetRom
  <2>2. <<a, b, c, d, e>> = steps BY FiveSteps
  <2> QED BY <2>1, <2>2
<1>2. /\ a.f = "m_flatfield" /\ a.v = o.m_flatfield /\ b.f = "m_img_mode" /\ b.v = o.m_img_mode
      /\ c.f = "m_port_used" /\ c.v = o.m_port_used
      /\ d.f = "m_read_mode" /\ d.v = o.m_read_mode /\ e.f = "ROM" /\ e.v = RomBits(o)
  BY DEF io, assign
<1> HIDE DEF a, b, c, d, e
<1>3. /\ IsSteps(s) /\ Fields(s) = {a.f, b.f, c.f}
      /\ Sets(s, a.f, a.v) /\ Sets(s, b.f, b.v)
  BY <1>2, TripleDoes
<1>4. /\ IsSteps(u) /\ Fields(u) = {d.f, e.f}
      /\ Sets(u, d.f, d.v) /\ Sets(u, e.f, e.v)
  BY <1>2, PairDoes
<1>5. FitSteps(s)
  <2>1. Fits(a.f, a.v) /\ Fits(b.f, b.v) /\ Fits(c.f, c.v) BY <1>2 DEF Fits, ValuesOf
  <2> QED BY <2>1, FitTriple
<1>6. FitSteps(u)
  <2>1. Fits(d.f, d.v) /\ Fits(e.f, e.v) BY <1>2 DEF Fits, ValuesOf
  <2> QED BY <2>1, FitPair
<1> HIDE DEF s, u
<1>7. /\ IsSteps(steps) /\ Fields(steps) = Fields(s) \cup Fields(u)
      /\ \A m, v : Sets(u, m, v) => Sets(steps, m, v)
      /\ \A m, v : Sets(s, m, v) /\ m \notin Fields(u) => Sets(steps, m, v)
  BY <1>3, <1>4, JoinSteps
<1>8. FitSteps(steps) BY <1>3, <1>4, <1>5, <1>6, FitJoin
<1>9. Fields(steps) = fs BY <1>2, <1>3, <1>4, <1>7
<1>10. /\ Sets(steps, "m_flatfield", a.v) /\ Sets(steps, "m_img_mode", b.v)
       /\ Sets(steps, "m_read_mode", d.v) /\ Sets(steps, "ROM", e.v)
  BY <1>2, <1>3, <1>4, <1>7
<1> HIDE DEF steps
<1>11. /\ TypeOK' /\ Same(fs)
       /\ \/ Wholly(steps) /\ dirty' = (dirty \ {"ROM"}) \cup {}
          \/ dirty' = dirty \cup ({"ROM"} \cup {})
  <2>1. {"ROM"} \subseteq fs /\ Fields(steps) \subseteq fs BY <1>9
  <2>2. IsSteps(steps) BY <1>7
  <2>3. /\ TypeOK' /\ Same(fs) /\ Partly(steps)
        /\ \/ Wholly(steps) /\ dirty' = (dirty \ {"ROM"}) \cup {}
           \/ dirty' = dirty \cup ({"ROM"} \cup {})
    <3> HIDE DEF fs
    <3> QED BY <1>1, <1>8, <2>1, <2>2, RunLeaves
  <2> QED BY <2>3
<1>12. RomSet'
  <2>1. CASE Wholly(steps)
    <3>1. "ROM" \in RegNames /\ {"m_flatfield", "m_img_mode", "m_read_mode"} \subseteq Members
      BY DEF RegNames, Members
    <3>2. reg'["ROM"] = e.v /\ obj'["m_flatfield"] = a.v /\ obj'["m_img_mode"] = b.v
          /\ obj'["m_read_mode"] = d.v
      BY <1>10, <2>1, <3>1, WhollyReg, WhollyObj DEF AcqInv
    <3>3. RomBits(obj') = RomBits(o) BY <1>2, <3>2 DEF RomBits
    <3> QED BY <1>2, <3>2, <3>3 DEF RomSet
  <2>2. CASE dirty' = dirty \cup ({"ROM"} \cup {}) BY <2>2 DEF RomSet, Clean
  <2> QED BY <1>11, <2>1, <2>2
<1>13. TypeSet' /\ LinkSet' /\ OscSet' /\ ExpoSet' /\ IntSet' /\ ST2Set' /\ NbSet' /\ Silent
  <2>1. Same(fs) BY <1>11
  <2> QED BY <2>1, Kept, ThenSilent DEF InST2
<1> QED BY <1>11, <1>12, <1>13 DEF AcqInv

\* The four methods that change a readout member and write ROM.
LEMMA ReadoutKeeps ==
  ASSUME AcqInv,
         \/ \E f \in Flats : SetFFCorrection(f)
         \/ \E img \in {"NORMAL", "RAW"} : SetImageMode(img)
         \/ \E p \in Ports : SetSerialReadout(p)
         \/ \E ports \in PortLists : SetParallelReadout(ports)
  PROVE  AcqInv' /\ Silent
<1>1. /\ DOMAIN obj = Members /\ obj["m_port_used"] \in Seq(Int)
      /\ "m_port_used" \in Members /\ "m_read_mode" \in Members
  <2>1. "m_port_used" \in Members /\ "m_read_mode" \in Members BY DEF Members
  <2> QED BY <2>1 DEF AcqInv, TypeOK, Fits
<1>2. ASSUME NEW f \in Flats, SetFFCorrection(f) PROVE AcqInv' /\ Silent
  <2> DEFINE o == [obj EXCEPT !.m_flatfield = f]
  <2>1. SetRom(o) BY <1>2 DEF SetFFCorrection
  <2>2. o.m_port_used \in Seq(Int) BY <1>1
  <2> HIDE DEF o
  <2> QED BY <2>1, <2>2, RomKeeps
<1>3. ASSUME NEW img \in {"NORMAL", "RAW"}, SetImageMode(img) PROVE AcqInv' /\ Silent
  <2> DEFINE o == [obj EXCEPT !.m_img_mode = img]
  <2>1. SetRom(o) BY <1>3 DEF SetImageMode
  <2>2. o.m_port_used \in Seq(Int) BY <1>1
  <2> HIDE DEF o
  <2> QED BY <2>1, <2>2, RomKeeps
<1>4. ASSUME NEW p \in Ports, SetSerialReadout(p) PROVE AcqInv' /\ Silent
  <2> DEFINE o == [obj EXCEPT !.m_port_used = <<p>>, !.m_read_mode = "SERIAL"]
  <2>1. SetRom(o) BY <1>4 DEF SetSerialReadout
  <2>2. <<p>> \in Seq(Int) BY AcqAssumption
  <2>3. o.m_port_used = <<p>> BY <1>1
  <2> HIDE DEF o
  <2> QED BY <2>1, <2>2, <2>3, RomKeeps
<1>5. ASSUME NEW ports \in PortLists, SetParallelReadout(ports) PROVE AcqInv' /\ Silent
  <2> DEFINE o == [obj EXCEPT !.m_port_used = ports, !.m_read_mode = "PARALLEL"]
  <2>1. SetRom(o) BY <1>5 DEF SetParallelReadout
  <2>2. ports \in Seq(Int) BY AcqAssumption
  <2>3. o.m_port_used = ports BY <1>1
  <2> HIDE DEF o
  <2> QED BY <2>1, <2>2, <2>3, RomKeeps
<1> QED BY <1>2, <1>3, <1>4, <1>5

\* The speed of the link changes bit 0 of a register whose other bits stay.
LEMMA LinkKeeps ==
  ASSUME AcqInv, NEW fast \in BOOLEAN, SetFastFOSpeed(fast)
  PROVE  AcqInv' /\ Silent
<1> DEFINE bits == (reg["MCR1"] \ {0}) \cup IF fast THEN {0} ELSE {}
           a == io("none", 0)
           b == io("MCR1", bits)
           c == assign("m_fo_fast", fast)
           steps == <<a, b, c>>
           fs == {"none", "MCR1", "m_fo_fast", "FO"}
<1>1. Run(steps, {"FO"}, {}) BY DEF SetFastFOSpeed
<1>2. bits \cap {5, 6} = reg["MCR1"] \cap {5, 6} /\ (0 \in bits <=> fast) OBVIOUS
<1> HIDE DEF bits
<1>3. /\ a.f = "none" /\ a.v = 0 /\ b.f = "MCR1" /\ b.v = bits
      /\ c.f = "m_fo_fast" /\ c.v = fast
  BY DEF io, assign
<1> HIDE DEF a, b, c
<1>4. /\ IsSteps(steps) /\ Fields(steps) = {"none", "MCR1", "m_fo_fast"}
      /\ Sets(steps, "MCR1", bits) /\ Sets(steps, "m_fo_fast", fast)
      /\ Values(steps, "MCR1") = {bits}
  BY <1>3, TripleDoes
<1>5. FitSteps(steps)
  <2>1. Fits(a.f, a.v) /\ Fits(b.f, b.v) /\ Fits(c.f, c.v) BY <1>3 DEF Fits, ValuesOf
  <2> QED BY <2>1, FitTriple
<1> HIDE DEF steps
<1>6. /\ TypeOK' /\ Same(fs) /\ Partly(steps)
      /\ \/ Wholly(steps) /\ dirty' = (dirty \ {"FO"}) \cup {}
         \/ dirty' = dirty \cup ({"FO"} \cup {})
  <2>1. {"FO"} \subseteq fs /\ Fields(steps) \subseteq fs BY <1>4
  <2> HIDE DEF fs
  <2> QED BY <1>1, <1>4, <1>5, <2>1, RunLeaves
<1>7. "MCR1" \in RegNames /\ {"m_fo_fast", "m_version", "m_setup"} \subseteq Members
  BY DEF RegNames, Members
<1>8. LinkSet'
  <2>1. CASE Wholly(steps)
    <3>1. reg'["MCR1"] = bits /\ obj'["m_fo_fast"] = fast
      BY <1>4, <1>7, <2>1, WhollyReg, WhollyObj DEF AcqInv
    <3> QED BY <1>2, <3>1 DEF LinkSet
  <2>2. CASE dirty' = dirty \cup ({"FO"} \cup {}) BY <2>2 DEF LinkSet, Clean
  <2> QED BY <1>6, <2>1, <2>2
<1>9. TypeSet'
  <2>1. reg'["MCR1"] \cap {5, 6} = reg["MCR1"] \cap {5, 6}
    <3>1. reg'["MCR1"] \in {reg["MCR1"], bits}
      BY <1>4, <1>6, <1>7 DEF Partly, AcqInv, TypeOK
    <3> QED BY <1>2, <3>1
  <2>2. obj'["m_version"] = obj["m_version"] /\ obj'["m_setup"] = obj["m_setup"]
    BY <1>6, <1>7 DEF Same
  <2>3. "MCR1" \in dirty => "MCR1" \in dirty' BY <1>6 DEF Same
  <2> QED BY <2>1, <2>2, <2>3 DEF AcqInv, TypeSet, Clean
<1>10. OscSet' /\ ExpoSet' /\ IntSet' /\ ST2Set' /\ RomSet' /\ NbSet' /\ Silent
  <2>1. Same(fs) BY <1>6
  <2> QED BY <2>1, Kept, ThenSilent DEF InST2
<1> QED BY <1>6, <1>8, <1>9, <1>10 DEF AcqInv



-----------------------------------------------------------------------------
(***************************************************************************)
(* The methods that write no register of a parameter.                      *)
(***************************************************************************)
Quiet == {"MCR2", "MSR", "FSR", "none", "m_chip_fsr0"}

\* What such a method does, whether or not it throws in the end.
LEMMA QuietKeeps ==
  ASSUME AcqInv, NEW steps, IsSteps(steps), Fields(steps) \subseteq Quiet,
         Run(steps, {}, {}) \/ RunThenThrow(steps, {})
  PROVE  /\ AcqInv' /\ \A m \in InST2 : obj'[m] = obj[m]
         /\ "MSR" \notin Fields(steps) => Silent
<1>1. Partly(steps) /\ dirty' = dirty
  <2>1. CASE Run(steps, {}, {})
    <3>1. /\ Partly(steps)
          /\ \/ Wholly(steps) /\ dirty' = (dirty \ {}) \cup {}
             \/ dirty' = dirty \cup ({} \cup {})
      BY <2>1, Runs
    <3> QED BY <3>1
  <2>2. CASE RunThenThrow(steps, {})
    <3>1. Partly(steps) /\ dirty' = dirty \cup {} BY <2>2, Throws
    <3> QED BY <3>1
  <2> QED BY <2>1, <2>2
<1>2. FitSteps(steps)
  <2>1. \A m, v : m \in Quiet => Fits(m, v) BY DEF Quiet, Fits, ValuesOf
  <2> QED BY <2>1 DEF FitSteps, Fields
<1>3. TypeOK' /\ Same(Fields(steps))
  <2>1. dirty \ {} \subseteq dirty' /\ TypeOK BY <1>1 DEF AcqInv
  <2>2. Fields(steps) \subseteq Fields(steps) /\ {} \subseteq Fields(steps) OBVIOUS
  <2> QED BY <1>1, <1>2, <2>1, <2>2, Leaves
<1>4. Same(Quiet) BY <1>3 DEF Same
<1>5. /\ TypeSet' /\ LinkSet' /\ OscSet' /\ ExpoSet' /\ IntSet' /\ ST2Set'
      /\ RomSet' /\ NbSet'
  BY <1>4, Kept DEF InST2, Quiet
<1>6. \A m \in InST2 : obj'[m] = obj[m] BY <1>4 DEF Same, InST2, Members, Quiet
<1>7. ASSUME "MSR" \notin Fields(steps) PROVE Silent
  BY <1>3, <1>7, ThenSilent DEF InST2, Quiet
<1> QED BY <1>3, <1>5, <1>6, <1>7 DEF AcqInv

\* The steps that several methods begin with.
LEMMA EnableSteps ==
  ASSUME NEW port
  PROVE  IsSteps(enableSerial(port)) /\ Fields(enableSerial(port)) = {"MCR2"}
<1> DEFINE a == io("MCR2", {5, port})
<1>1. a.f = "MCR2" BY DEF io
<1> HIDE DEF a
<1>2. IsSteps(<<a>>) /\ Fields(<<a>>) = {"MCR2"} BY <1>1, OneStep
<1> QED BY <1>2 DEF enableSerial, a

LEMMA FsrSteps ==
  ASSUME NEW port
  PROVE  /\ IsSteps(setChipFsr(port))
         /\ Fields(setChipFsr(port)) \subseteq {"MCR2", "FSR", "m_chip_fsr0"}
<1> DEFINE e == enableSerial(port)
           a == io("FSR", "ones")
           b == io("FSR", "chip")
           c == assign("m_chip_fsr0", "chip")
           u == <<a, b>>
           w == IF port = 0 THEN <<c>> ELSE <<>>
<1>1. a.f = "FSR" /\ b.f = "FSR" /\ c.f = "m_chip_fsr0" BY DEF io, assign
<1>2. setChipFsr(port) = (e \o u) \o w BY DEF setChipFsr
<1> HIDE DEF a, b, c, e
<1>3. IsSteps(e) /\ Fields(e) = {"MCR2"} BY EnableSteps DEF e
<1>4. IsSteps(u) /\ Fields(u) = {"FSR"} BY <1>1, PairDoes
<1>5. IsSteps(w) /\ Fields(w) \subseteq {"m_chip_fsr0"}
  <2>1. IsSteps(<<c>>) /\ Fields(<<c>>) = {"m_chip_fsr0"} BY <1>1, OneStep
  <2> QED BY <2>1, NoStep
<1> HIDE DEF u, w
<1>6. IsSteps(e \o u) /\ Fields(e \o u) = {"MCR2", "FSR"} BY <1>3, <1>4, JoinSteps
<1> DEFINE x == e \o u
<1> HIDE DEF x
<1>7. IsSteps(x \o w) /\ Fields(x \o w) = Fields(x) \cup Fields(w)
  BY <1>5, <1>6, JoinSteps DEF x
<1> QED BY <1>2, <1>5, <1>6, <1>7 DEF x

LEMMA ResetKeeps ==
  ASSUME AcqInv, NEW bits, NEW ports \in Seq(Int), Reset(bits, ports)
  PROVE  AcqInv' /\ Silent
<1> DEFINE v(i) == io("MCR2", bits \cup {5, ports[i]})
           steps == [i \in DOMAIN ports |-> v(i)]
<1>1. Run(steps, {}, {}) BY DEF Reset
<1>2. Len(ports) \in Nat /\ DOMAIN ports = 1 .. Len(ports) OBVIOUS
<1>3. \A i \in DOMAIN ports : v(i).f = "MCR2" BY DEF io
<1> HIDE DEF v
<1>4. Fields(steps) \subseteq {"MCR2"} BY <1>3 DEF Fields
<1>5. IsSteps(steps)
  <2>1. DOMAIN steps = 1 .. Len(ports) /\ \A i \in DOMAIN steps : steps[i] \in Said(steps)
    BY <1>2 DEF Said
  <2>2. steps \in [1 .. Len(ports) -> Said(steps)] BY <1>2, <2>1
  <2> QED BY <1>2, <2>2 DEF IsSteps
<1> HIDE DEF steps
<1>6. Fields(steps) \subseteq Quiet /\ "MSR" \notin Fields(steps) BY <1>4 DEF Quiet
<1> QED BY <1>1, <1>5, <1>6, QuietKeeps

\* Selecting a port, sending its FSR, resetting it.
LEMMA PortKeeps ==
  ASSUME AcqInv,
         \/ \E p \in Ports : \/ SetChipCfg(p) \/ SetChipFsr(p)
                             \/ ResetFifo(p) \/ ResetChip(p)
         \/ ResetAllFifo \/ ResetAllChip
  PROVE  AcqInv' /\ Silent
<1>1. ASSUME NEW p \in Ports, SetChipCfg(p) PROVE AcqInv' /\ Silent
  <2> DEFINE a == io("none", 0)  s == enableSerial(p)  u == <<a>>
  <2>1. Run(s \o u, {}, {}) BY <1>1 DEF SetChipCfg
  <2>2. a.f = "none" BY DEF io
  <2> HIDE DEF a
  <2>3. IsSteps(s) /\ Fields(s) = {"MCR2"} /\ IsSteps(u) /\ Fields(u) = {"none"}
    BY <2>2, EnableSteps, OneStep
  <2> HIDE DEF s, u
  <2>4. IsSteps(s \o u) /\ Fields(s \o u) = {"MCR2", "none"} BY <2>3, JoinSteps
  <2>5. Fields(s \o u) \subseteq Quiet /\ "MSR" \notin Fields(s \o u) BY <2>4 DEF Quiet
  <2> DEFINE steps == s \o u
  <2> HIDE DEF steps
  <2>6. Run(steps, {}, {}) /\ IsSteps(steps) /\ Fields(steps) \subseteq Quiet
        /\ "MSR" \notin Fields(steps)
    BY <2>1, <2>4, <2>5 DEF steps
  <2> QED BY <2>6, QuietKeeps
<1>2. ASSUME NEW p \in Ports, SetChipFsr(p) PROVE AcqInv' /\ Silent
  <2> DEFINE steps == setChipFsr(p)
  <2>1. Run(steps, {}, {}) BY <1>2 DEF SetChipFsr
  <2>2. IsSteps(steps) /\ Fields(steps) \subseteq {"MCR2", "FSR", "m_chip_fsr0"}
    BY FsrSteps
  <2> HIDE DEF steps
  <2>3. Fields(steps) \subseteq Quiet /\ "MSR" \notin Fields(steps) BY <2>2 DEF Quiet
  <2> QED BY <2>1, <2>2, <2>3, QuietKeeps
<1>3. ASSUME NEW p \in Ports, ResetFifo(p) \/ ResetChip(p) PROVE AcqInv' /\ Silent
  <2>1. <<p>> \in Seq(Int) BY AcqAssumption
  <2> QED BY <1>3, <2>1, ResetKeeps DEF ResetFifo, ResetChip
<1>4. ASSUME ResetAllFifo \/ ResetAllChip PROVE AcqInv' /\ Silent
  <2>1. "m_port_used" \in Members BY DEF Members
  <2>2. obj.m_port_used \in Seq(Int) BY <2>1 DEF AcqInv, TypeOK, Fits
  <2> QED BY <1>4, <2>2, ResetKeeps DEF ResetAllFifo, ResetAllChip
<1> QED BY <1>1, <1>2, <1>3, <1>4

\* Starting and stopping write MSR and nothing that a parameter needs.
LEMMA StartKeeps ==
  ASSUME AcqInv, StartAcq
  PROVE  AcqInv' /\ \A m \in InST2 : obj'[m] = obj[m]
<1> DEFINE go == TrigBits[obj.m_trig_mode]
           level == IF go # {0} /\ obj.m_trig_level = "LOW_FALL" THEN {0} ELSE {}
           a == io("MCR2", Selection(obj))
           b == io("MSR", MsrBits(go \cup level, obj))
<1>1. Run(<<a, b>>, {}, {}) \/ RunThenThrow(<<a>>, {}) BY DEF StartAcq
<1>2. a.f = "MCR2" /\ b.f = "MSR" BY DEF io
<1> HIDE DEF a, b, go, level
<1>3. CASE Run(<<a, b>>, {}, {})
  <2> DEFINE steps == <<a, b>>
  <2>1. IsSteps(steps) /\ Fields(steps) = {"MCR2", "MSR"} BY <1>2, PairDoes
  <2> HIDE DEF steps
  <2>2. Fields(steps) \subseteq Quiet BY <2>1 DEF Quiet
  <2>3. Run(steps, {}, {}) BY <1>3 DEF steps
  <2> QED BY <2>1, <2>2, <2>3, QuietKeeps
<1>4. CASE RunThenThrow(<<a>>, {})
  <2> DEFINE steps == <<a>>
  <2>1. IsSteps(steps) /\ Fields(steps) = {"MCR2"} BY <1>2, OneStep
  <2> HIDE DEF steps
  <2>2. Fields(steps) \subseteq Quiet BY <2>1 DEF Quiet
  <2>3. RunThenThrow(steps, {}) BY <1>4 DEF steps
  <2> QED BY <2>1, <2>2, <2>3, QuietKeeps
<1> QED BY <1>1, <1>3, <1>4

LEMMA StopKeeps ==
  ASSUME AcqInv, StopAcq
  PROVE  /\ AcqInv' /\ \A m \in InST2 : obj'[m] = obj[m]
         /\ reg'["MSR"] \in {reg["MSR"], MsrBits({}, obj)}
<1> DEFINE a == io("MSR", MsrBits({}, obj))
           s == <<a>>
           u == enableSerial(0)
           steps == s \o u
<1>1. Run(steps, {}, {}) BY DEF StopAcq
<1>2. a.f = "MSR" /\ a.v = MsrBits({}, obj) BY DEF io
<1> HIDE DEF a
<1>3. IsSteps(s) /\ Fields(s) = {"MSR"} /\ Values(s, "MSR") = {a.v} BY <1>2, OneStep
<1>4. IsSteps(u) /\ Fields(u) = {"MCR2"} BY EnableSteps
<1> HIDE DEF s, u
<1>5. /\ IsSteps(steps) /\ Fields(steps) = {"MCR2", "MSR"}
      /\ Values(steps, "MSR") = Values(s, "MSR") \cup Values(u, "MSR")
  BY <1>3, <1>4, JoinSteps
<1>6. Values(u, "MSR") = {} BY <1>4 DEF Values, Fields
<1> HIDE DEF steps
<1>7. Fields(steps) \subseteq Quiet BY <1>5 DEF Quiet
<1>8. Partly(steps)
  <2>1. IsSteps(steps) BY <1>5
  <2> QED BY <1>1, <2>1, Runs
<1>9. "MSR" \in DOMAIN reg BY DEF AcqInv, TypeOK, RegNames
<1>10. reg'["MSR"] \in {reg["MSR"], MsrBits({}, obj)}
  BY <1>2, <1>3, <1>5, <1>6, <1>8, <1>9 DEF Partly
<1> QED BY <1>1, <1>5, <1>7, <1>10, QuietKeeps



-----------------------------------------------------------------------------
(***************************************************************************)
(* The type of the chip and the oscillator.                                *)
(***************************************************************************)
LEMMA Quotient ==
  ASSUME NEW n \in Nat, NEW f \in Nat, f > 0
  PROVE  n \div f \in Nat /\ n \div f <= n
<1> DEFINE q == n \div f
<1>1. q \in Int /\ f * q <= n /\ q >= 0 OBVIOUS
<1> HIDE DEF q
<1>2. (f - 1) * q >= 0 BY <1>1
<1>3. f * q = (f - 1) * q + q BY <1>1
<1> QED BY <1>1, <1>2, <1>3 DEF q

\* The frequency asked for is brought into the synthesiser's range.
LEMMA SynthPositive ==
  ASSUME NEW khz \in Nat
  PROVE  Synth(Clamp(khz)) \in Nat /\ Synth(Clamp(khz)) > 0
<1> DEFINE c == Clamp(khz)
           d == Band(c).div
<1>1. c \in Nat /\ c >= 15625 BY DEF Clamp
<1> HIDE DEF c
<1>2. d \in {1, 2, 4, 8} /\ c * d * 2 >= 25000 BY <1>1 DEF Band
<1> DEFINE x == c * d * 2
<1>3. x \in Nat /\ x >= 25000 BY <1>1, <1>2
<1>4. Synth(c) = (25000 * (x \div 25000)) \div (d * 2) BY DEF Synth
<1> HIDE DEF x, d
<1>5. x \div 25000 \in Nat /\ x \div 25000 >= 1 BY <1>3
<1> DEFINE y == x \div 25000
<1> HIDE DEF y
<1>6. (25000 * y) \div (d * 2) \in Nat /\ (25000 * y) \div (d * 2) > 0
  <2>1. CASE d = 1 BY <1>5, <2>1 DEF y
  <2>2. CASE d = 2 BY <1>5, <2>2 DEF y
  <2>3. CASE d = 4 BY <1>5, <2>3 DEF y
  <2>4. CASE d = 8 BY <1>5, <2>4 DEF y
  <2> QED BY <1>2, <2>1, <2>2, <2>3, <2>4
<1> QED BY <1>4, <1>6 DEF c, y

LEMMA MinIntervalFits ==
  ASSUME NEW f \in Nat, f > 0
  PROVE  MinInterval(f) \in Minima
<1> DEFINE n == IF (Firmware \div 8) % 2 = 1 THEN 920000000 ELSE 30000000
<1>1. n \in Minima BY DEF Minima
<1>2. MinInterval(f) = n \div f BY DEF MinInterval
<1> HIDE DEF n
<1>3. n \in Nat BY <1>1 DEF Minima
<1>4. n \div f \in Nat /\ n \div f <= n BY <1>3, Quotient
<1>5. \A q \in Nat : q <= n => q \in Minima BY <1>1 DEF Minima
<1> QED BY <1>2, <1>4, <1>5

\* The delays that are measured again when the frequency changes.
LEMMA AdjustSteps ==
  ASSUME NEW version, NEW f
  PROVE  /\ IsSteps(timeAdjust(version, f))
         /\ Fields(timeAdjust(version, f)) \subseteq {"MCR2", "FSR", "m_chip_fsr0", "TAS", "TAP"}
<1> DEFINE s == setChipFsr(0)
           a == io("TAS", 16 * Delay)
           b == io("TAP", Tap(version, f))
           c == io("TAS", Tas)
           u == <<a, b, c>>
<1>1. timeAdjust(version, f) = s \o u BY DEF timeAdjust
<1>2. a.f = "TAS" /\ b.f = "TAP" /\ c.f = "TAS" BY DEF io
<1> HIDE DEF a, b, c
<1>3. IsSteps(u) /\ Fields(u) = {"TAS", "TAP"} BY <1>2, TripleDoes
<1>4. IsSteps(s) /\ Fields(s) \subseteq {"MCR2", "FSR", "m_chip_fsr0"} BY FsrSteps
<1> HIDE DEF s, u
<1>5. IsSteps(s \o u) /\ Fields(s \o u) = Fields(s) \cup Fields(u)
  BY <1>3, <1>4, JoinSteps
<1> QED BY <1>1, <1>3, <1>4, <1>5

OscFields == {"m_osc_frequency", "OSC", "MCR2", "FSR", "m_chip_fsr0", "TAS", "TAP",
              "TIP", "m_min_it", "m_setup"}

\* What a new frequency leaves when it is accepted.
LEMMA OscSteps ==
  ASSUME NEW version, NEW khz \in Nat, NEW setup \in SUBSET {"type", "osc"}, NEW fsr0
  PROVE  LET steps == setOscillator(version, khz, setup, fsr0)
             f == Synth(Clamp(khz))
         IN /\ IsSteps(steps) /\ FitSteps(steps) /\ Fields(steps) \subseteq OscFields
            /\ Values(steps, "m_setup") \subseteq {setup \cup {"osc"}}
            /\ ~OscillatorThrows(khz, fsr0) =>
                 /\ Sets(steps, "OSC", f) /\ Sets(steps, "m_min_it", MinInterval(f))
                 /\ Sets(steps, "m_setup", setup \cup {"osc"})
<1> DEFINE f == Synth(Clamp(khz))
           a == assign("m_osc_frequency", f)
           b == io("OSC", f)
           t == io("TIP", 1)
           c == assign("m_min_it", MinInterval(f))
           d == assign("m_setup", setup \cup {"osc"})
           refused == OscillatorRefused(khz)
           thrown  == OscillatorThrows(khz, fsr0)
           A == <<a>>
           B == IF refused THEN <<>> ELSE <<b>>
           J == timeAdjust(version, f)
           T == IF version = "TPX1" THEN <<t>> ELSE <<>>
           P == <<c, d>>
           R == (J \o T) \o P
           C == IF thrown THEN <<>> ELSE R
           steps == (A \o B) \o C
<1>1. steps = setOscillator(version, khz, setup, fsr0)
  BY Zenon DEF setOscillator
<1>2. refused \in BOOLEAN /\ thrown \in BOOLEAN /\ (refused => thrown)
  BY DEF OscillatorThrows, OscillatorRefused
<1>3. MinInterval(f) \in Minima
  <2>1. f \in Nat /\ f > 0 BY SynthPositive
  <2> HIDE DEF f
  <2> QED BY <2>1, MinIntervalFits
<1> HIDE DEF f, refused, thrown
<1>4. /\ a.f = "m_osc_frequency" /\ b.f = "OSC" /\ b.v = f /\ t.f = "TIP"
      /\ c.f = "m_min_it" /\ c.v = MinInterval(f)
      /\ d.f = "m_setup" /\ d.v = setup \cup {"osc"}
  BY DEF io, assign
<1> HIDE DEF a, b, t, c, d
<1>5. IsSteps(A) /\ Fields(A) = {"m_osc_frequency"} BY <1>4, OneStep
<1>6. IsSteps(B) /\ Fields(B) \subseteq {"OSC"} /\ (~thrown => Sets(B, "OSC", f))
  <2>1. IsSteps(<<b>>) /\ Fields(<<b>>) = {b.f} /\ Sets(<<b>>, b.f, b.v) BY OneStep
  <2>2. IsSteps(<<b>>) /\ Fields(<<b>>) = {"OSC"} /\ Sets(<<b>>, "OSC", f)
    BY <1>4, <2>1
  <2> QED BY <1>2, <2>2, NoStep
<1>7. /\ IsSteps(J) /\ Fields(J) \subseteq {"MCR2", "FSR", "m_chip_fsr0", "TAS", "TAP"}
  BY AdjustSteps
<1>8. IsSteps(T) /\ Fields(T) \subseteq {"TIP"}
  <2>1. IsSteps(<<t>>) /\ Fields(<<t>>) = {"TIP"} BY <1>4, OneStep
  <2> QED BY <2>1, NoStep
<1>9. /\ IsSteps(P) /\ Fields(P) = {"m_min_it", "m_setup"}
      /\ Sets(P, "m_min_it", c.v) /\ Sets(P, "m_setup", d.v)
      /\ Values(P, "m_setup") = {d.v} /\ Values(P, "m_min_it") = {c.v}
  <2>1. /\ IsSteps(P) /\ Fields(P) = {c.f, d.f} /\ Sets(P, d.f, d.v)
        /\ c.f # d.f => Sets(P, c.f, c.v)
        /\ \A m : Values(P, m)
                    = (IF c.f = m THEN {c.v} ELSE {}) \cup (IF d.f = m THEN {d.v} ELSE {})
    BY PairDoes
  <2> HIDE DEF P
  <2> QED BY <1>4, <2>1
<1> HIDE DEF A, B, J, T, P
<1>10. /\ IsSteps(J \o T) /\ Fields(J \o T) = Fields(J) \cup Fields(T)
  BY <1>7, <1>8, JoinSteps
<1> DEFINE Q == J \o T
<1> HIDE DEF Q
<1>11. IsSteps(Q) /\ Fields(Q) \subseteq {"MCR2", "FSR", "m_chip_fsr0", "TAS", "TAP", "TIP"}
  BY <1>7, <1>8, <1>10 DEF Q
<1>12. /\ IsSteps(Q \o P) /\ Fields(Q \o P) = Fields(Q) \cup Fields(P)
       /\ \A m : Values(Q \o P, m) = Values(Q, m) \cup Values(P, m)
       /\ \A m, v : Sets(P, m, v) => Sets(Q \o P, m, v)
  BY <1>9, <1>11, JoinSteps
<1>13. R = Q \o P BY DEF Q
<1> HIDE DEF R
<1>14. Values(Q, "m_setup") = {} /\ Values(Q, "m_min_it") = {}
  BY <1>11 DEF Values, Fields
<1>15. /\ IsSteps(C) /\ Fields(C) \subseteq OscFields \ {"OSC", "m_osc_frequency"}
       /\ Values(C, "m_setup") \subseteq {d.v}
       /\ ~thrown => Sets(C, "m_min_it", c.v) /\ Sets(C, "m_setup", d.v)
  <2>1. Fields(R) \subseteq OscFields \ {"OSC", "m_osc_frequency"}
    BY <1>9, <1>11, <1>12, <1>13 DEF OscFields
  <2>2. IsSteps(R) /\ Values(R, "m_setup") = {d.v}
        /\ Sets(R, "m_min_it", c.v) /\ Sets(R, "m_setup", d.v)
    BY <1>9, <1>12, <1>13, <1>14
  <2> QED BY <2>1, <2>2, <1>2, NoStep
<1> HIDE DEF C
<1>16. /\ IsSteps(A \o B) /\ Fields(A \o B) = Fields(A) \cup Fields(B)
       /\ \A m, v : Sets(B, m, v) => Sets(A \o B, m, v)
  BY <1>5, <1>6, JoinSteps
<1> DEFINE D == A \o B
<1> HIDE DEF D
<1>17. /\ IsSteps(D) /\ Fields(D) \subseteq {"m_osc_frequency", "OSC"}
       /\ ~thrown => Sets(D, "OSC", f)
  BY <1>5, <1>6, <1>16 DEF D
<1>18. /\ IsSteps(D \o C) /\ Fields(D \o C) = Fields(D) \cup Fields(C)
       /\ \A m : Values(D \o C, m) = Values(D, m) \cup Values(C, m)
       /\ \A m, v : Sets(C, m, v) => Sets(D \o C, m, v)
       /\ \A m, v : Sets(D, m, v) /\ m \notin Fields(C) => Sets(D \o C, m, v)
  BY <1>15, <1>17, JoinSteps
<1>19. steps = D \o C BY DEF D
<1> HIDE DEF steps
<1>20. Values(D, "m_setup") = {} BY <1>17 DEF Values, Fields
<1>21. IsSteps(steps) /\ Fields(steps) \subseteq OscFields
  BY <1>15, <1>17, <1>18, <1>19 DEF OscFields
<1>22. Values(steps, "m_setup") \subseteq {d.v} BY <1>15, <1>18, <1>19, <1>20
<1>23. ~thrown => /\ Sets(steps, "OSC", f) /\ Sets(steps, "m_min_it", c.v)
                  /\ Sets(steps, "m_setup", d.v)
  BY <1>15, <1>17, <1>18, <1>19
<1>24. FitSteps(steps)
  <2>1. Values(steps, "m_min_it") \subseteq {c.v}
    <3>1. Values(D, "m_min_it") = {} BY <1>17 DEF Values, Fields
    <3>3. Values(R, "m_min_it") = {c.v} BY <1>9, <1>12, <1>13, <1>14
    <3>4. Values(C, "m_min_it") \subseteq {c.v} BY <1>2, <3>3, NoStep DEF C
    <3> QED BY <1>18, <1>19, <3>1, <3>4
  <2>2. ASSUME NEW i \in DOMAIN steps PROVE Fits(steps[i].f, steps[i].v)
    <3>1. steps[i].f \in OscFields BY <1>21 DEF Fields
    <3>2. CASE steps[i].f = "m_setup"
      <4>1. steps[i].v = setup \cup {"osc"} BY <1>4, <1>22, <3>2 DEF Values
      <4> QED BY <3>2, <4>1 DEF Fits, ValuesOf
    <3>3. CASE steps[i].f = "m_min_it"
      <4>1. steps[i].v = MinInterval(f) BY <1>4, <2>1, <3>3 DEF Values
      <4> QED BY <1>3, <3>3, <4>1 DEF Fits, ValuesOf
    <3>4. CASE steps[i].f \in OscFields \ {"m_setup", "m_min_it"}
      BY <3>4 DEF OscFields, Fits, ValuesOf
    <3> QED BY <3>1, <3>2, <3>3, <3>4
  <2> QED BY <2>2 DEF FitSteps
<1>25. /\ IsSteps(steps) /\ FitSteps(steps) /\ Fields(steps) \subseteq OscFields
       /\ Values(steps, "m_setup") \subseteq {setup \cup {"osc"}}
       /\ ~thrown =>
            /\ Sets(steps, "OSC", f) /\ Sets(steps, "m_min_it", MinInterval(f))
            /\ Sets(steps, "m_setup", setup \cup {"osc"})
  BY <1>4, <1>21, <1>22, <1>23, <1>24
<1> QED BY <1>1, <1>25 DEF f, thrown



\* A new frequency, accepted or refused.
LEMMA OscKeeps ==
  ASSUME AcqInv, NEW khz \in Freqs, SetOscillator(khz)
  PROVE  AcqInv' /\ Silent
<1> DEFINE f == Synth(Clamp(khz))
           steps == setOscillator(obj.m_version, khz, obj.m_setup, obj.m_chip_fsr0)
           thrown == OscillatorThrows(khz, obj.m_chip_fsr0)
<1>1. obj.m_setup \in SUBSET {"type", "osc"} /\ khz \in Nat
  <2>1. "m_setup" \in Members BY DEF Members
  <2> QED BY <2>1, AcqAssumption DEF AcqInv, TypeOK, Fits
<1>2. /\ IsSteps(steps) /\ FitSteps(steps) /\ Fields(steps) \subseteq OscFields
      /\ Values(steps, "m_setup") \subseteq {obj.m_setup \cup {"osc"}}
      /\ ~thrown =>
           /\ Sets(steps, "OSC", f) /\ Sets(steps, "m_min_it", MinInterval(f))
           /\ Sets(steps, "m_setup", obj.m_setup \cup {"osc"})
  BY <1>1, OscSteps
<1>3. IF thrown THEN RunThenThrow(steps, OscRegs) ELSE Run(steps, OscRegs, {})
  BY DEF SetOscillator
<1>4. OscRegs \subseteq OscFields /\ "OSC" \in OscRegs BY DEF OscRegs, OscFields
<1> HIDE DEF f, steps, thrown
<1>5. /\ TypeOK' /\ Same(OscFields) /\ Partly(steps)
      /\ (Wholly(steps) /\ ~thrown) \/ "OSC" \in dirty'
  <2>1. CASE thrown
    <3>1. Partly(steps) /\ dirty' = dirty \cup OscRegs
      <4>1. RunThenThrow(steps, OscRegs) BY <1>3, <2>1
      <4> QED BY <1>2, <4>1, Throws
    <3>2. TypeOK' /\ Same(OscFields)
      <4>1. TypeOK /\ {} \subseteq OscFields /\ dirty \ {} \subseteq dirty'
        BY <3>1 DEF AcqInv
      <4> QED BY <1>2, <3>1, <4>1, Leaves
    <3> QED BY <1>4, <3>1, <3>2
  <2>2. CASE ~thrown
    <3>1. Run(steps, OscRegs, {}) BY <1>3, <2>2
    <3>2. /\ TypeOK' /\ Same(OscFields) /\ Partly(steps)
          /\ \/ Wholly(steps) /\ dirty' = (dirty \ OscRegs) \cup {}
             \/ dirty' = dirty \cup (OscRegs \cup {})
      BY <1>2, <1>4, <3>1, RunLeaves
    <3> QED BY <1>4, <2>2, <3>2
  <2> QED BY <2>1, <2>2
<1>6. /\ {"m_setup", "m_min_it", "m_version"} \subseteq Members
      /\ {"OSC", "MCR1"} \subseteq RegNames
  BY DEF Members, RegNames
<1>7. obj'["m_setup"] \in {obj["m_setup"], obj["m_setup"] \cup {"osc"}}
  BY <1>2, <1>5, <1>6 DEF Partly, AcqInv, TypeOK
<1>8. OscSet'
  <2>1. CASE Wholly(steps) /\ ~thrown
    <3>1. reg'["OSC"] = f /\ obj'["m_min_it"] = MinInterval(f)
          /\ obj'["m_setup"] = obj.m_setup \cup {"osc"}
      BY <1>2, <1>6, <2>1, WhollyReg, WhollyObj DEF AcqInv
    <3> QED BY <3>1 DEF OscSet
  <2>2. CASE "OSC" \in dirty' BY <2>2 DEF OscSet, Clean
  <2> QED BY <1>5, <2>1, <2>2
<1>9. TypeSet'
  <2>1. reg'["MCR1"] = reg["MCR1"] /\ obj'["m_version"] = obj["m_version"]
    BY <1>5, <1>6 DEF Same, OscFields
  <2>2. "MCR1" \in dirty => "MCR1" \in dirty' BY <1>5 DEF Same, OscFields
  <2> QED BY <1>7, <2>1, <2>2 DEF AcqInv, TypeSet, Clean
<1>10. LinkSet' /\ ExpoSet' /\ IntSet' /\ ST2Set' /\ RomSet' /\ NbSet' /\ Silent
  <2>1. Same(OscFields) BY <1>5
  <2> QED BY <2>1, Kept, ThenSilent DEF InST2, OscFields
<1> QED BY <1>5, <1>8, <1>9, <1>10 DEF AcqInv

\* The bits of the type, whatever the polarity adds.
TypedMCR1(version, positive) == TypeBits(version) \cup IF positive THEN {7} ELSE {}

LEMMA TypeBitsAlone ==
  ASSUME NEW version, NEW positive
  PROVE  TypedMCR1(version, positive) \cap {5, 6} = TypeBits(version)
<1>1. TypeBits(version) \subseteq {5, 6} BY DEF TypeBits
<1> QED BY <1>1 DEF TypedMCR1

\* What setting the type of the chip does, alone or in a setup.
LEMMA TypeSteps ==
  ASSUME NEW version, NEW positive, NEW setup \in SUBSET {"type", "osc"}
  PROVE  LET steps == setChipType(version, positive, setup)
         IN /\ IsSteps(steps) /\ FitSteps(steps)
            /\ Fields(steps) = {"m_version", "MCR1", "m_setup"}
            /\ Values(steps, "m_setup") = {setup \cup {"type"}}
            /\ Sets(steps, "m_version", version)
            /\ Sets(steps, "MCR1", TypedMCR1(version, positive))
            /\ Sets(steps, "m_setup", setup \cup {"type"})
<1> DEFINE bits == TypedMCR1(version, positive)
           a == assign("m_version", version)
           b == io("MCR1", bits)
           c == assign("m_setup", setup \cup {"type"})
           steps == <<a, b, c>>
<1>1. steps = setChipType(version, positive, setup) BY Zenon DEF setChipType, TypedMCR1
<1> HIDE DEF bits
<1>2. /\ a.f = "m_version" /\ a.v = version /\ b.f = "MCR1" /\ b.v = bits
      /\ c.f = "m_setup" /\ c.v = setup \cup {"type"}
  BY DEF io, assign
<1> HIDE DEF a, b, c
<1>3. /\ IsSteps(steps) /\ Fields(steps) = {a.f, b.f, c.f} /\ Sets(steps, c.f, c.v)
      /\ b.f # c.f => Sets(steps, b.f, b.v)
      /\ a.f \notin {b.f, c.f} => Sets(steps, a.f, a.v)
      /\ \A m : Values(steps, m)
                  = (IF a.f = m THEN {a.v} ELSE {}) \cup (IF b.f = m THEN {b.v} ELSE {})
                      \cup (IF c.f = m THEN {c.v} ELSE {})
  BY TripleDoes
<1>4. FitSteps(steps)
  <2>1. Fits(a.f, a.v) /\ Fits(b.f, b.v) /\ Fits(c.f, c.v) BY <1>2 DEF Fits, ValuesOf
  <2> QED BY <2>1, FitTriple
<1> HIDE DEF steps
<1>5. /\ IsSteps(steps) /\ FitSteps(steps) /\ Fields(steps) = {"m_version", "MCR1", "m_setup"}
      /\ Values(steps, "m_setup") = {setup \cup {"type"}}
      /\ Sets(steps, "m_version", version) /\ Sets(steps, "MCR1", bits)
      /\ Sets(steps, "m_setup", setup \cup {"type"})
  BY <1>2, <1>3, <1>4
<1> QED BY <1>1, <1>5 DEF bits

LEMMA TypeKeeps ==
  ASSUME AcqInv, NEW version, NEW positive, SetChipType(version, positive)
  PROVE  AcqInv' /\ Silent
<1> DEFINE bits == TypedMCR1(version, positive)
           steps == setChipType(version, positive, obj.m_setup)
           fs == {"m_version", "MCR1", "m_setup", "FO"}
<1>1. obj.m_setup \in SUBSET {"type", "osc"}
  <2>1. "m_setup" \in Members BY DEF Members
  <2> QED BY <2>1 DEF AcqInv, TypeOK, Fits
<1>2. /\ IsSteps(steps) /\ FitSteps(steps) /\ Fields(steps) = {"m_version", "MCR1", "m_setup"}
      /\ Values(steps, "m_setup") = {obj.m_setup \cup {"type"}}
      /\ Sets(steps, "m_version", version) /\ Sets(steps, "MCR1", bits)
      /\ Sets(steps, "m_setup", obj.m_setup \cup {"type"})
  BY <1>1, TypeSteps
<1>3. Run(steps, {"MCR1"}, {"FO"}) BY DEF SetChipType
<1>4. bits \cap {5, 6} = TypeBits(version) BY TypeBitsAlone
<1> HIDE DEF bits, steps
<1>5. /\ TypeOK' /\ Same(fs) /\ Partly(steps)
      /\ \/ Wholly(steps) /\ dirty' = (dirty \ {"MCR1"}) \cup {"FO"}
         \/ dirty' = dirty \cup ({"MCR1"} \cup {"FO"})
  <2>1. {"MCR1"} \subseteq fs /\ Fields(steps) \subseteq fs BY <1>2
  <2> HIDE DEF fs
  <2>2. IsSteps(steps) /\ FitSteps(steps) BY <1>2
  <2> QED BY <1>3, <2>1, <2>2, RunLeaves
<1>6. /\ {"m_setup", "m_min_it", "m_version"} \subseteq Members
      /\ {"OSC", "MCR1"} \subseteq RegNames
  BY DEF Members, RegNames
<1>7. obj'["m_setup"] \in {obj["m_setup"], obj["m_setup"] \cup {"type"}}
  BY <1>2, <1>5, <1>6 DEF Partly, AcqInv, TypeOK
<1>8. TypeSet'
  <2>1. CASE Wholly(steps)
    <3>1. reg'["MCR1"] = bits /\ obj'["m_version"] = version
          /\ obj'["m_setup"] = obj.m_setup \cup {"type"}
      BY <1>2, <1>6, <2>1, WhollyReg, WhollyObj DEF AcqInv
    <3> QED BY <1>4, <3>1 DEF TypeSet
  <2>2. CASE dirty' = dirty \cup ({"MCR1"} \cup {"FO"}) BY <2>2 DEF TypeSet, Clean
  <2> QED BY <1>5, <2>1, <2>2
<1>9. LinkSet'
  <2>1. "FO" \in dirty' BY <1>5
  <2> QED BY <2>1 DEF LinkSet, Clean
<1>10. OscSet'
  <2>1. reg'["OSC"] = reg["OSC"] /\ obj'["m_min_it"] = obj["m_min_it"]
        /\ ("OSC" \in dirty => "OSC" \in dirty')
    BY <1>5, <1>6 DEF Same
  <2> QED BY <1>7, <2>1 DEF AcqInv, OscSet, Clean
<1>11. ExpoSet' /\ IntSet' /\ ST2Set' /\ RomSet' /\ NbSet' /\ Silent
  <2>1. Same(fs) BY <1>5
  <2> QED BY <2>1, Kept, ThenSilent DEF InST2
<1> QED BY <1>5, <1>8, <1>9, <1>10, <1>11 DEF AcqInv



\* The type, the FSR of port 0 and the frequency, in one go.
LEMMA SetupKeeps ==
  ASSUME AcqInv, NEW version, NEW positive, NEW khz \in Freqs, Setup(version, positive, khz)
  PROVE  AcqInv' /\ Silent
<1> DEFINE f == Synth(Clamp(khz))
           all == obj.m_setup \cup {"type"}
           c == assign("m_chip_fsr0", "chip")
           E == enableSerial(0)
           K == setChipType(version, positive, obj.m_setup)
           M == <<c>>
           O == setOscillator(version, khz, all, "chip")
           steps == ((E \o K) \o M) \o O
           thrown == OscillatorThrows(khz, "chip")
           heals == OscRegs \cup {"MCR1"}
           hurts == OscRegs \cup {"MCR1", "FO"}
           fs == OscFields \cup {"m_version", "MCR1", "FO"}
<1>1. IF thrown THEN RunThenThrow(steps, hurts) ELSE Run(steps, heals, {"FO"})
  BY Zenon DEF Setup
<1>2. obj.m_setup \in SUBSET {"type", "osc"} /\ all \in SUBSET {"type", "osc"} /\ khz \in Nat
  <2>1. "m_setup" \in Members BY DEF Members
  <2> QED BY <2>1, AcqAssumption DEF AcqInv, TypeOK, Fits
<1>3. IsSteps(E) /\ Fields(E) = {"MCR2"} BY EnableSteps
<1>4. /\ IsSteps(K) /\ FitSteps(K) /\ Fields(K) = {"m_version", "MCR1", "m_setup"}
      /\ Sets(K, "m_version", version) /\ Sets(K, "MCR1", TypedMCR1(version, positive))
  BY <1>2, TypeSteps
<1>5. IsSteps(M) /\ FitSteps(M) /\ Fields(M) = {"m_chip_fsr0"}
  <2>1. c.f = "m_chip_fsr0" BY DEF assign
  <2> HIDE DEF c
  <2>2. Fits(c.f, c.v) BY <2>1 DEF Fits, ValuesOf
  <2> QED BY <2>1, <2>2, OneStep, FitOne
<1>6. /\ IsSteps(O) /\ FitSteps(O) /\ Fields(O) \subseteq OscFields
      /\ ~thrown => /\ Sets(O, "OSC", f) /\ Sets(O, "m_min_it", MinInterval(f))
                    /\ Sets(O, "m_setup", all \cup {"osc"})
  <2> HIDE DEF all
  <2> QED BY <1>2, OscSteps
<1> HIDE DEF E, K, M, O, thrown, f
<1>7. FitSteps(E)
  <2>1. \A i \in DOMAIN E : E[i].f = "MCR2" BY <1>3 DEF Fields
  <2>2. \A v : Fits("MCR2", v) BY DEF Fits, ValuesOf
  <2> QED BY <2>1, <2>2 DEF FitSteps
<1> DEFINE X == E \o K
           Y == X \o M
<1>8. /\ IsSteps(X) /\ FitSteps(X) /\ Fields(X) = {"MCR2", "m_version", "MCR1", "m_setup"}
      /\ Sets(X, "m_version", version) /\ Sets(X, "MCR1", TypedMCR1(version, positive))
  <2>1. /\ IsSteps(E \o K) /\ Fields(E \o K) = Fields(E) \cup Fields(K)
        /\ \A m, v : Sets(K, m, v) => Sets(E \o K, m, v)
    BY <1>3, <1>4, JoinSteps
  <2>2. FitSteps(E \o K) BY <1>3, <1>4, <1>7, FitJoin
  <2> QED BY <1>3, <1>4, <2>1, <2>2
<1> HIDE DEF X
<1>9. /\ IsSteps(Y) /\ FitSteps(Y)
      /\ Fields(Y) = {"MCR2", "m_version", "MCR1", "m_setup", "m_chip_fsr0"}
      /\ Sets(Y, "m_version", version) /\ Sets(Y, "MCR1", TypedMCR1(version, positive))
  <2>1. /\ IsSteps(X \o M) /\ Fields(X \o M) = Fields(X) \cup Fields(M)
        /\ \A m, v : Sets(X, m, v) /\ m \notin Fields(M) => Sets(X \o M, m, v)
    BY <1>5, <1>8, JoinSteps
  <2>2. FitSteps(X \o M) BY <1>5, <1>8, FitJoin
  <2> QED BY <1>5, <1>8, <2>1, <2>2
<1>10. steps = Y \o O BY DEF X
<1> HIDE DEF Y, steps
<1>11. /\ IsSteps(steps) /\ FitSteps(steps) /\ Fields(steps) \subseteq fs
       /\ Sets(steps, "m_version", version) /\ Sets(steps, "MCR1", TypedMCR1(version, positive))
       /\ ~thrown => /\ Sets(steps, "OSC", f) /\ Sets(steps, "m_min_it", MinInterval(f))
                     /\ Sets(steps, "m_setup", all \cup {"osc"})
  <2>1. /\ IsSteps(Y \o O) /\ Fields(Y \o O) = Fields(Y) \cup Fields(O)
        /\ \A m, v : Sets(O, m, v) => Sets(Y \o O, m, v)
        /\ \A m, v : Sets(Y, m, v) /\ m \notin Fields(O) => Sets(Y \o O, m, v)
    BY <1>6, <1>9, JoinSteps
  <2>2. FitSteps(Y \o O) BY <1>6, <1>9, FitJoin
  <2>3. {"m_version", "MCR1"} \cap OscFields = {} BY DEF OscFields
  <2>4. {"MCR2", "m_setup", "m_chip_fsr0"} \subseteq OscFields BY DEF OscFields
  <2> HIDE DEF all
  <2> QED BY <1>6, <1>9, <1>10, <2>1, <2>2, <2>3, <2>4
<1>12. heals \subseteq fs /\ "OSC" \in hurts /\ hurts = heals \cup {"FO"} /\ "MCR1" \in heals
  BY DEF OscRegs, OscFields
<1> HIDE DEF heals, hurts
<1>13. /\ TypeOK' /\ Same(fs)
       /\ (Wholly(steps) /\ ~thrown /\ "FO" \in dirty') \/ hurts \subseteq dirty'
  <2>1. CASE thrown
    <3>1. Partly(steps) /\ dirty' = dirty \cup hurts
      <4>1. RunThenThrow(steps, hurts) BY <1>1, <2>1
      <4>2. IsSteps(steps) BY <1>11
      <4> QED BY <4>1, <4>2, Throws
    <3>2. TypeOK' /\ Same(fs)
      <4>1. TypeOK /\ {} \subseteq fs /\ dirty \ {} \subseteq dirty'
        BY <3>1 DEF AcqInv
      <4>2. FitSteps(steps) /\ Fields(steps) \subseteq fs BY <1>11
      <4> HIDE DEF fs
      <4> QED BY <3>1, <4>1, <4>2, Leaves
    <3> QED BY <3>1, <3>2
  <2>2. CASE ~thrown
    <3>1. Run(steps, heals, {"FO"}) BY <1>1, <2>2
    <3>2. IsSteps(steps) /\ FitSteps(steps) /\ Fields(steps) \subseteq fs BY <1>11
    <3> HIDE DEF fs
    <3>3. /\ TypeOK' /\ Same(fs) /\ Partly(steps)
          /\ \/ Wholly(steps) /\ dirty' = (dirty \ heals) \cup {"FO"}
             \/ dirty' = dirty \cup (heals \cup {"FO"})
      BY <1>12, <3>1, <3>2, RunLeaves
    <3> QED BY <1>12, <2>2, <3>3
  <2> QED BY <2>1, <2>2
<1>14. /\ {"m_setup", "m_min_it", "m_version"} \subseteq Members
       /\ {"OSC", "MCR1"} \subseteq RegNames
  BY DEF Members, RegNames
<1>15. TypeSet' /\ OscSet' /\ LinkSet'
  <2>1. CASE Wholly(steps) /\ ~thrown /\ "FO" \in dirty'
    <3>1. /\ reg'["MCR1"] = TypedMCR1(version, positive) /\ reg'["OSC"] = f
          /\ obj'["m_version"] = version /\ obj'["m_min_it"] = MinInterval(f)
          /\ obj'["m_setup"] = all \cup {"osc"}
      BY <1>11, <1>14, <2>1, WhollyReg, WhollyObj DEF AcqInv
    <3>2. TypeSet' BY <3>1, TypeBitsAlone DEF TypeSet
    <3>3. OscSet' BY <3>1 DEF OscSet
    <3>4. LinkSet' BY <2>1 DEF LinkSet, Clean
    <3> QED BY <3>2, <3>3, <3>4
  <2>2. CASE hurts \subseteq dirty'
    <3>1. "OSC" \in dirty' /\ "MCR1" \in dirty' /\ "FO" \in dirty' BY <1>12, <2>2
    <3> QED BY <3>1 DEF TypeSet, OscSet, LinkSet, Clean
  <2> QED BY <1>13, <2>1, <2>2
<1>16. ExpoSet' /\ IntSet' /\ ST2Set' /\ RomSet' /\ NbSet' /\ Silent
  <2>1. Same(fs) BY <1>13
  <2> QED BY <2>1, Kept, ThenSilent DEF InST2, OscFields
<1> QED BY <1>13, <1>15, <1>16 DEF AcqInv


-----------------------------------------------------------------------------
(***************************************************************************)
(* The invariant is inductive.                                             *)
(***************************************************************************)
LEMMA AcqInit == ASSUME Init PROVE AcqInv
<1>1. DOMAIN reg = RegNames /\ DOMAIN obj = Members BY DEF Init, RegNames, Members
<1>2. \A m \in RegNames : Fits(m, reg[m])
  <2>1. \A m \in {"ET1", "ET2", "IT1", "IT2", "ST1", "ST2", "INB1", "INB2"} : reg[m] = 0
    BY DEF Init
  <2>2. RegNames \cap ({"m_setup", "m_fo_fast", "m_min_it", "m_port_used"} \cup DOMAIN ValuesOf) = {}
    BY DEF RegNames, ValuesOf
  <2> TAKE m \in RegNames
  <2>3. /\ m \notin {"m_setup", "m_fo_fast", "m_min_it", "m_port_used"} /\ m \notin DOMAIN ValuesOf
    BY <2>2
  <2>4. CASE m \in {"ET1", "ET2", "IT1", "IT2", "ST1", "ST2", "INB1", "INB2"}
    <3>1. reg[m] = 0 BY <2>1, <2>4
    <3> QED BY <2>3, <3>1 DEF Fits
  <2>5. CASE m \notin {"ET1", "ET2", "IT1", "IT2", "ST1", "ST2", "INB1", "INB2"}
    BY <2>3, <2>5 DEF Fits
  <2> QED BY <2>4, <2>5
<1>3. \A m \in Members : Fits(m, obj[m])
  <2>1. /\ obj["m_setup"] = {} /\ obj["m_fo_fast"] = FALSE /\ obj["m_min_it"] = 0
        /\ obj["m_port_used"] = <<0>>
    BY DEF Init
  <2>2. 0 \in Minima BY DEF Minima
  <2>3. <<0>> \in Seq(Int) OBVIOUS
  <2>4. ASSUME NEW m \in DOMAIN ValuesOf PROVE obj[m] \in ValuesOf[m]
    <3>1. /\ obj["m_shut_level"] = "HIGH_RISE" /\ obj["m_ready_level"] = "HIGH_RISE"
          /\ obj["m_gate_level"] = "HIGH_RISE" /\ obj["m_trig_level"] = "HIGH_RISE"
          /\ obj["m_shut_mode"] = "FRAME" /\ obj["m_ready_mode"] = "EXPOSURE_READOUT"
          /\ obj["m_gate_mode"] = "INACTIVE"
      BY DEF Init
    <3> QED BY <2>4, <3>1 DEF ValuesOf, Levels
  <2>5. Members \cap {"ET1", "IT1", "ST1", "ST2", "INB1", "INB2", "ET2", "IT2"} = {}
    BY DEF Members
  <2> QED BY <2>1, <2>2, <2>3, <2>4, <2>5 DEF Fits
<1>4. TypeOK BY <1>1, <1>2, <1>3 DEF TypeOK
<1>5. /\ TypeSet /\ LinkSet /\ OscSet /\ ExpoSet /\ IntSet /\ ST2Set /\ RomSet /\ NbSet
  <2>1. dirty = Checked BY DEF Init
  <2> QED BY <2>1 DEF Checked, Clean, TypeSet, LinkSet, OscSet, ExpoSet, IntSet, ST2Set,
          RomSet, NbSet
<1> QED BY <1>4, <1>5 DEF AcqInv

\* What one step does to MSR and to the members of ST2 depends on which it is.
LEMMA AcqNext ==
  ASSUME AcqInv, Encodable, Next
  PROVE  /\ AcqInv'
         /\ \/ Silent \/ StartAcq \/ StopAcq
            \/ \E m \in InST2 : \E v \in ValuesOf[m] : SetSignal(m, v)
<1>1. CASE Configure
  <2>1. ASSUME NEW v \in Versions, NEW khz \in Freqs,
               Setup(v, TRUE, khz) \/ SetChipType(v, FALSE) \/ SetOscillator(khz)
        PROVE  AcqInv' /\ Silent
    BY <2>1, SetupKeeps, TypeKeeps, OscKeeps
  <2>2. ASSUME NEW fast \in BOOLEAN, SetFastFOSpeed(fast) PROVE AcqInv' /\ Silent
    BY <2>2, LinkKeeps
  <2>3. ASSUME \/ \E ports \in PortLists : SetParallelReadout(ports)
               \/ \E p \in Ports : SetSerialReadout(p)
               \/ \E f \in Flats : SetFFCorrection(f)
               \/ \E img \in {"NORMAL", "RAW"} : SetImageMode(img)
        PROVE  AcqInv' /\ Silent
    BY <2>3, ReadoutKeeps
  <2>4. ASSUME \/ \E p \in Ports : \/ SetChipCfg(p) \/ SetChipFsr(p)
                                   \/ ResetFifo(p) \/ ResetChip(p)
               \/ ResetAllFifo \/ ResetAllChip
        PROVE  AcqInv' /\ Silent
    BY <2>4, PortKeeps
  <2> QED BY <1>1, <2>1, <2>2, <2>3, <2>4 DEF Configure
<1>2. CASE SetTimes
  BY <1>2, ExposureKeeps, IntervalKeeps, MaxExposureKeeps, FramesKeeps DEF SetTimes
<1>3. CASE SetSignals
  <2>1. ASSUME NEW m \in Signals \cap InST2, NEW v \in ValuesOf[m], SetSignal(m, v)
        PROVE  AcqInv'
    BY <2>1, SignalKeeps
  <2>2. ASSUME NEW us \in ShutterTimes, SetShutterTime(us) PROVE AcqInv' /\ Silent
    BY <2>2, ShutterKeeps
  <2>3. ASSUME NEW m \in Signals \ InST2, NEW v \in ValuesOf[m], SetMode(m, v)
        PROVE  AcqInv' /\ Silent
    <3>1. m \in DOMAIN ValuesOf \ InST2 BY AcqAssumption
    <3> QED BY <2>3, <3>1, ModeKeeps
  <2>4. ASSUME NEW t \in TrigModes, SetMode("m_trig_mode", t) PROVE AcqInv' /\ Silent
    <3>1. "m_trig_mode" \notin DOMAIN ValuesOf BY DEF ValuesOf
    <3> QED BY <2>4, <3>1, ModeKeeps
  <2> QED BY <1>3, <2>1, <2>2, <2>3, <2>4 DEF SetSignals
<1>4. CASE Acquire BY <1>4, StartKeeps, StopKeeps DEF Acquire
<1> QED BY <1>1, <1>2, <1>3, <1>4 DEF Next

LEMMA AcqStutter == ASSUME AcqInv, UNCHANGED vars PROVE AcqInv'
BY DEF vars, AcqInv, TypeOK, TypeSet, LinkSet, OscSet, ExpoSet, IntSet, ST2Set, RomSet,
       NbSet, Clean, updateSignal, RomBits

\* The inductive invariant holds in every state.
LEMMA AcqInvariant == ASSUME Encodable PROVE Spec => []AcqInv
<1>1. Init => AcqInv BY AcqInit
<1>2. AcqInv /\ [Next]_vars => AcqInv' BY AcqNext, AcqStutter
<1> QED BY <1>1, <1>2, PTL DEF Spec



-----------------------------------------------------------------------------
(***************************************************************************)
(* What the invariant says of the board.                                   *)
(***************************************************************************)
\* A setter that returned left the board holding what the member says, and
\* no later method silently undoes it.
THEOREM RegistersFollowMembers == ASSUME Encodable PROVE Spec => []RegistersAgree
<1>1. AcqInv => RegistersAgree
  <2> SUFFICES ASSUME AcqInv PROVE RegistersAgree OBVIOUS
  <2>1. /\ Clean({"MCR1"}) => reg.MCR1 \cap {5, 6} = TypeBits(obj.m_version)
        /\ Clean({"FO"})   => (0 \in reg.MCR1 <=> obj.m_fo_fast)
        /\ Clean({"ET1", "ET2"}) => RegToTime(reg.ET1, reg.ET2) = obj.m_expo_time
        /\ Clean({"IT1", "IT2"}) => RegToTime(reg.IT1, reg.IT2) = obj.m_int_time
        /\ Clean({"ST2"}) => updateSignal(reg.ST2, obj) = reg.ST2
        /\ Clean({"ROM"}) => reg.ROM = RomBits(obj)
        /\ Clean({"INB1", "INB2"}) => reg.INB1 + 256 * reg.INB2 = obj.m_nb_frame
    BY DEF AcqInv, TypeSet, LinkSet, ExpoSet, IntSet, ST2Set, RomSet, NbSet
  <2>2. ASSUME Clean({"INB1", "INB2"}), obj.m_nb_frame < 32768
        PROVE  getNbFrames = obj.m_nb_frame
    <3>1. "INB1" \in RegNames /\ "INB2" \in RegNames BY DEF RegNames
    <3>2. reg["INB1"] \in 0 .. 255 /\ reg["INB2"] \in 0 .. 255
      BY <3>1 DEF AcqInv, TypeOK, Fits
    <3>3. PICK lo \in 0 .. 255 : lo = reg.INB1 BY <3>2
    <3>4. PICK hi \in 0 .. 255 : hi = reg.INB2 BY <3>2
    <3>5. lo + 256 * hi = obj.m_nb_frame BY <2>1, <2>2, <3>3, <3>4
    <3>6. hi < 128 BY <2>2, <3>5
    <3> QED BY <3>3, <3>4, <3>5, <3>6 DEF getNbFrames
  <2> QED BY <2>1, <2>2 DEF RegistersAgree
<1> QED BY <1>1, AcqInvariant, PTL

\* Once every parameter was set without a failure, startAcq refuses nothing
\* but a timing that is too fast.
THEOREM SetUpMeansReady == ASSUME Encodable PROVE Spec => []CleanMeansReady
<1>1. AcqInv => CleanMeansReady
  <2> SUFFICES ASSUME AcqInv,
                      Clean({"MCR1", "OSC", "ET1", "ET2", "IT1", "IT2", "INB1", "INB2"})
               PROVE  Startable(obj) \/ TooFast(obj)
    BY DEF CleanMeansReady
  <2>1. /\ {"ET1", "ET2", "IT1", "IT2", "INB1", "INB2"} \subseteq RegNames
        /\ "m_setup" \in Members
    BY DEF RegNames, Members
  <2>2. /\ reg["INB1"] \in 0 .. 255 /\ reg["INB2"] \in 0 .. 255
        /\ reg["ET2"] \in 0 .. 223 /\ reg["IT2"] \in 0 .. 223
        /\ obj["m_setup"] \subseteq {"type", "osc"}
    BY <2>1 DEF AcqInv, TypeOK, Fits
  <2>3. /\ reg.INB1 + 256 * reg.INB2 = obj.m_nb_frame
        /\ RegToTime(reg.ET1, reg.ET2) = obj.m_expo_time
        /\ RegToTime(reg.IT1, reg.IT2) = obj.m_int_time
        /\ {"type", "osc"} \subseteq obj.m_setup
    BY DEF AcqInv, Clean, TypeSet, OscSet, ExpoSet, IntSet, NbSet
  <2>4. obj.m_nb_frame # -1
    <3>1. PICK lo \in 0 .. 255 : lo = reg.INB1 BY <2>2
    <3>2. PICK hi \in 0 .. 255 : hi = reg.INB2 BY <2>2
    <3>3. lo + 256 * hi = obj.m_nb_frame BY <2>3, <3>1, <3>2
    <3> QED BY <3>3
  <2>5. \A a, b : b \in 0 .. 223 => RegToTime(a, b) # NotSet
    <3> TAKE a, b
    <3> HAVE b \in 0 .. 223
    <3>1. (b \div 32) % 8 # -1 OBVIOUS
    <3>2. RegToTime(a, b).iu = (b \div 32) % 8 /\ NotSet.iu = -1 BY DEF RegToTime, NotSet
    <3> QED BY <3>1, <3>2
  <2>6. obj.m_setup = {"type", "osc"} BY <2>2, <2>3
  <2> QED BY <2>2, <2>3, <2>4, <2>5, <2>6 DEF Startable
<1> QED BY <1>1, AcqInvariant, PTL

-----------------------------------------------------------------------------
(***************************************************************************)
(* What a start sends.                                                     *)
(***************************************************************************)
\* The bits of MSR that tell the trigger, once startAcq is allowed to start.
Started ==
  LET go == TrigBits[obj.m_trig_mode]
  IN go \cup IF go # {0} /\ obj.m_trig_level = "LOW_FALL" THEN {0} ELSE {}

\* A start that reaches MSR has passed every check and selected the ports.
LEMMA StartDoes ==
  ASSUME AcqInv, StartAcq, reg'["MSR"] # reg["MSR"]
  PROVE  /\ Startable(obj) /\ obj.m_trig_mode \in DOMAIN TrigBits
         /\ reg'["MCR2"] = Selection(obj) /\ reg'["MSR"] = MsrBits(Started, obj)
<1> DEFINE a == io("MCR2", Selection(obj))
           b == io("MSR", MsrBits(Started, obj))
<1>1. /\ Startable(obj)
      /\ \/ obj.m_trig_mode \in DOMAIN TrigBits /\ Run(<<a, b>>, {}, {})
         \/ RunThenThrow(<<a>>, {})
  BY DEF StartAcq, Started
<1>2. a.f = "MCR2" /\ a.v = Selection(obj) /\ b.f = "MSR" /\ b.v = MsrBits(Started, obj)
  BY DEF io
<1> HIDE DEF a, b
<1>3. "MSR" \in DOMAIN reg /\ "MSR" \in RegNames /\ "MCR2" \in RegNames
  BY DEF AcqInv, TypeOK, RegNames
<1>4. ~RunThenThrow(<<a>>, {})
  <2> SUFFICES ASSUME RunThenThrow(<<a>>, {}) PROVE FALSE OBVIOUS
  <2>1. IsSteps(<<a>>) /\ Fields(<<a>>) = {"MCR2"} BY <1>2, OneStep
  <2> DEFINE steps == <<a>>
  <2> HIDE DEF steps
  <2>2. Partly(steps)
    <3>1. RunThenThrow(steps, {}) /\ IsSteps(steps) BY <2>1 DEF steps
    <3> QED BY <3>1, Throws
  <2>3. "MSR" \notin Fields(steps) BY <2>1 DEF steps
  <2> QED BY <1>3, <2>2, <2>3 DEF Partly
<1> DEFINE steps == <<a, b>>
<1>5. obj.m_trig_mode \in DOMAIN TrigBits /\ Run(steps, {}, {}) BY <1>1, <1>4
<1>6. /\ IsSteps(steps) /\ Sets(steps, "MCR2", a.v) /\ Sets(steps, "MSR", b.v)
  BY <1>2, PairDoes
<1>7. Len(steps) = 2 /\ steps[1] = a OBVIOUS
<1> HIDE DEF steps
<1>8. PICK k \in 0 .. 2 : Stop(steps, k) BY <1>5, <1>7 DEF Run, Interrupted, Cuts
<1>9. k = 2
  <2> SUFFICES ASSUME k \in 0 .. 1 PROVE FALSE OBVIOUS
  <2> DEFINE part == SubSeq(steps, 1, k)
  <2>1. \A i \in DOMAIN part : part[i] = a
    <3>1. steps \in Seq(Said(steps)) BY <1>6 DEF IsSteps
    <3>2. DOMAIN part = 1 .. k /\ \A i \in 1 .. k : part[i] = steps[i] BY <1>7, <3>1
    <3> QED BY <1>7, <3>2
  <2>2. reg' = After(reg, part) BY <1>8 DEF Stop
  <2> HIDE DEF part
  <2>3. reg'["MSR"] = reg["MSR"] BY <1>2, <1>3, <2>1, <2>2 DEF After
  <2> QED BY <2>3
<1>10. Wholly(steps)
  <2>1. IsSteps(steps) /\ k \in 0 .. Len(steps) /\ k = Len(steps) BY <1>6, <1>7, <1>9
  <2> QED BY <1>8, <2>1, Stopped
<1>11. reg'["MCR2"] = a.v /\ reg'["MSR"] = b.v
  BY <1>3, <1>6, <1>10, WhollyReg DEF AcqInv
<1> QED BY <1>1, <1>2, <1>5, <1>11

\* Only a start arms the board.
LEMMA Arming ==
  ASSUME AcqInv, Encodable, [Next]_vars, ~Armed(reg), Armed(reg')
  PROVE  StartAcq /\ reg'["MSR"] # reg["MSR"]
<1>1. reg'["MSR"] # reg["MSR"] BY DEF Armed
<1>2. Next BY <1>1 DEF vars
<1>3. ~Silent BY <1>1 DEF Silent
<1>4. ~StopAcq
  <2>1. MsrBits({}, obj) \cap {0, 1, 2} = {} BY DEF MsrBits
  <2>2. StopAcq => reg'["MSR"] \in {reg["MSR"], MsrBits({}, obj)} BY StopKeeps
  <2> QED BY <2>1, <2>2 DEF Armed
<1>5. ASSUME NEW m \in InST2, NEW v \in ValuesOf[m], SetSignal(m, v) PROVE FALSE
  <2>1. Same({m, "none", "ST2"}) BY <1>5, SignalDoes
  <2>2. "MSR" \notin {m, "none", "ST2"} BY DEF InST2
  <2> QED BY <1>1, <2>1, <2>2 DEF Same, RegNames
<1> QED BY <1>1, <1>2, <1>3, <1>4, <1>5, AcqNext

\* An armed board has been told the trigger, gate and ready behaviour that
\* the members ask for.
LEMMA StartSays ==
  ASSUME AcqInv, obj.m_trig_mode \in DOMAIN TrigBits
  PROVE  SaysWhatIsAsked(MsrBits(Started, obj))
<1> DEFINE mode == obj.m_trig_mode
           bs == MsrBits(Started, obj)
           lev == IF obj.m_trig_level = "LOW_FALL" THEN {0} ELSE {}
<1>1. /\ obj["m_trig_level"] \in Levels /\ obj["m_gate_level"] \in Levels
      /\ obj["m_gate_mode"] \in {"INACTIVE", "ACTIVE"}
      /\ obj["m_ready_mode"] \in {"EXPOSURE", "EXPOSURE_READOUT"}
  <2>1. /\ {"m_trig_level", "m_gate_level", "m_gate_mode", "m_ready_mode"} \subseteq Members
        /\ {"m_trig_level", "m_gate_level", "m_gate_mode", "m_ready_mode"} \subseteq DOMAIN ValuesOf
    BY DEF Members, ValuesOf
  <2>2. \A m \in {"m_trig_level", "m_gate_level", "m_gate_mode", "m_ready_mode"} :
          obj[m] \in ValuesOf[m]
    BY <2>1 DEF AcqInv, TypeOK, Fits
  <2> QED BY <2>2 DEF ValuesOf
<1>2. Started \subseteq {0, 1, 2} BY DEF Started, TrigBits
<1>3. /\ bs \cap {0, 1, 2} = Started
      /\ 3 \in bs <=> obj.m_gate_mode = "ACTIVE" /\ obj.m_gate_level = "LOW_FALL"
      /\ 4 \in bs <=> obj.m_gate_mode = "ACTIVE"
      /\ 5 \in bs <=> obj.m_ready_mode = "EXPOSURE_READOUT"
  <2> DEFINE st == Started
             active == obj.m_gate_mode = "ACTIVE"
             low == active /\ obj.m_gate_level = "LOW_FALL"
             ready == obj.m_ready_mode = "EXPOSURE_READOUT"
  <2>1. bs = st \cup (IF low THEN {3} ELSE {}) \cup (IF active THEN {4} ELSE {})
                \cup (IF ready THEN {5} ELSE {})
    BY DEF MsrBits
  <2>2. st \subseteq {0, 1, 2} BY <1>2
  <2> HIDE DEF bs, st, active, low, ready
  <2>3. bs \cap {0, 1, 2} = st
    <3> DEFINE high == (IF low THEN {3} ELSE {}) \cup (IF active THEN {4} ELSE {})
                         \cup (IF ready THEN {5} ELSE {})
    <3>1. high \subseteq {3, 4, 5} OBVIOUS
    <3>2. bs = st \cup high BY <2>1
    <3> HIDE DEF high
    <3>3. high \cap {0, 1, 2} = {} BY <3>1
    <3> QED BY <2>2, <3>2, <3>3
  <2>4. 3 \in bs <=> low BY <2>1, <2>2
  <2>5. 4 \in bs <=> active BY <2>1, <2>2
  <2>6. 5 \in bs <=> ready BY <2>1, <2>2
  <2> QED BY <2>3, <2>4, <2>5, <2>6 DEF st, active, low, ready
<1> HIDE DEF bs
<1>4. Gate(bs) = IF obj.m_gate_mode = "ACTIVE"
                   THEN <<"ACTIVE", obj.m_gate_level>> ELSE <<"INACTIVE">>
  BY <1>1, <1>3 DEF Gate, Level, Levels
<1>5. Ready(bs) = obj.m_ready_mode BY <1>1, <1>3 DEF Ready
<1>6. mode \in {"IntTrig", "IntTrigMult", "ExtTrigSingle", "ExtTrigMult", "ExtGate"}
  BY DEF TrigBits
<1>7. Level(obj.m_trig_level = "LOW_FALL") = obj.m_trig_level BY <1>1 DEF Level, Levels
<1>8. Trigger(bs) = IF mode \in {"IntTrig", "IntTrigMult"} THEN <<"internal">>
                    ELSE <<mode, obj.m_trig_level>>
  <2>1. bs \cap {1, 2} = Started \cap {1, 2} /\ (0 \in bs <=> 0 \in Started) BY <1>3
  <2>2. CASE mode \in {"IntTrig", "IntTrigMult"}
    <3>1. Started = {0} BY <2>2 DEF Started, TrigBits
    <3>2. bs \cap {1, 2} = {} BY <2>1, <3>1
    <3> QED BY <2>2, <3>2 DEF Trigger
  <2>3. CASE mode = "ExtTrigSingle"
    <3>1. Started = {1} \cup lev BY <2>3 DEF Started, TrigBits
    <3>2. bs \cap {1, 2} = {1} /\ (0 \in bs <=> obj.m_trig_level = "LOW_FALL")
      BY <2>1, <3>1
    <3> QED BY <1>7, <2>3, <3>2 DEF Trigger
  <2>4. CASE mode = "ExtTrigMult"
    <3>1. Started = {2} \cup lev BY <2>4 DEF Started, TrigBits
    <3>2. bs \cap {1, 2} = {2} /\ (0 \in bs <=> obj.m_trig_level = "LOW_FALL")
      BY <2>1, <3>1
    <3> QED BY <1>7, <2>4, <3>2 DEF Trigger
  <2>5. CASE mode = "ExtGate"
    <3>1. Started = {1, 2} \cup lev BY <2>5 DEF Started, TrigBits
    <3>2. bs \cap {1, 2} = {1, 2} /\ (0 \in bs <=> obj.m_trig_level = "LOW_FALL")
      BY <2>1, <3>1
    <3> QED BY <1>7, <2>5, <3>2 DEF Trigger
  <2> QED BY <1>6, <2>2, <2>3, <2>4, <2>5
<1> HIDE DEF mode
<1>9. SaysWhatIsAsked(bs) BY <1>4, <1>5, <1>8 DEF SaysWhatIsAsked, mode
<1> QED BY <1>9 DEF bs

\* When the board is armed, the bits of MSR say the trigger, the gate and
\* the ready signal that the members ask for.
THEOREM StartSaysWhatIsAsked == ASSUME Encodable PROVE Spec => ArmedAsAsked
<1>1. AcqInv /\ [Next]_vars => (~Armed(reg) /\ Armed(reg') => SaysWhatIsAsked(reg'.MSR))
  BY Arming, StartDoes, StartSays
<1> QED BY <1>1, AcqInvariant, PTL DEF Spec, ArmedAsAsked


\* Few ports are selected: no more than the list of them is long.
LEMMA FewSelected ==
  ASSUME AcqInv
  PROVE  /\ Len(obj.m_port_used) \in Nat
         /\ Cardinality(Selection(obj) \cap 0 .. 4) \in Nat
         /\ Cardinality(Selection(obj) \cap 0 .. 4) <= Len(obj.m_port_used)
<1> DEFINE s == obj.m_port_used
           n == Len(s)
           R == {s[i] : i \in 1 .. n}
           T == Selection(obj) \cap 0 .. 4
<1>1. s \in Seq(Int)
  <2>1. "m_port_used" \in Members BY DEF Members
  <2> QED BY <2>1 DEF AcqInv, TypeOK, Fits
<1>2. n \in Nat /\ DOMAIN s = 1 .. n BY <1>1
<1>3. T \subseteq R BY <1>2 DEF Selection
<1> HIDE DEF T, s, n
<1>4. s \in Surjection(1 .. n, R)
  <2>1. s \in [1 .. n -> R]
    <3>1. \A i \in 1 .. n : s[i] \in R OBVIOUS
    <3>2. s \in [1 .. n -> Int] BY <1>1, <1>2 DEF n
    <3> QED BY <3>1, <3>2
  <2> QED BY <2>1 DEF Surjection
<1>5. IsFiniteSet(R) /\ Cardinality(R) <= n
  <2>1. IsFiniteSet(1 .. n) BY <1>2, FS_Interval
  <2>2. ExistsSurjection(1 .. n, R) BY <1>4 DEF ExistsSurjection
  <2> HIDE DEF R
  <2>3. IsFiniteSet(R) BY <1>4, <2>1, FS_Surjection
  <2>4. Cardinality(R) <= n BY <1>2, <2>2, FS_SurjCardinalityBound
  <2> QED BY <2>3, <2>4
<1> HIDE DEF R
<1>6. IsFiniteSet(T) /\ Cardinality(T) <= Cardinality(R) BY <1>3, <1>5, FS_Subset
<1>7. Cardinality(T) \in Nat /\ Cardinality(R) \in Nat BY <1>5, <1>6, FS_CardinalityType
<1>8. Cardinality(T) <= n BY <1>2, <1>5, <1>6, <1>7
<1> QED BY <1>2, <1>7, <1>8 DEF T, s, n

LEMMA MicrosInt ==
  ASSUME NEW a \in 0 .. 255, NEW b \in 0 .. 223
  PROVE  Micros(RegToTime(a, b)) \in Int
<1> DEFINE it == 256 * (b % 4) + a
           iu == (b \div 32) % 8
<1>1. it \in Nat /\ iu \in 0 .. 6 OBVIOUS
<1>2. Micros(RegToTime(a, b)) = it * Unit(iu) BY DEF Micros, RegToTime
<1> HIDE DEF it, iu
<1>3. Unit(iu) \in Nat
  <2>1. iu = 0 \/ iu = 1 \/ iu = 2 \/ iu = 3 \/ iu = 4 \/ iu = 5 \/ iu = 6 BY <1>1
  <2> QED BY <2>1, Units
<1> DEFINE u == Unit(iu)
<1> HIDE DEF u
<1>4. it * u \in Int BY <1>1, <1>3 DEF u
<1> QED BY <1>2, <1>4 DEF u

\* When the board is armed for several frames, the time between two of them
\* leaves room to send the frame of every chip that is selected.
THEOREM StartHasRoom == ASSUME Encodable PROVE Spec => StartFits
<1>1. AcqInv /\ [Next]_vars => RoomForFrames
  <2> SUFFICES ASSUME AcqInv, [Next]_vars, ~Armed(reg), Armed(reg'),
                      Clean({"FO", "OSC", "ET1", "ET2", "IT1", "IT2", "INB1", "INB2"}),
                      reg.INB1 + 256 * reg.INB2 # 1
               PROVE  Micros(RegToTime(reg.IT1, reg.IT2)) - MinInterval(reg.OSC)
                        + Micros(RegToTime(reg.ET1, reg.ET2))
                      >= TxTime(0 \in reg.MCR1) * Cardinality(reg'.MCR2 \cap 0 .. 4)
    BY DEF RoomForFrames
  <2> DEFINE I == Micros(obj.m_int_time)
             E == Micros(obj.m_expo_time)
             m == obj.m_min_it
             w == TxTime(obj.m_fo_fast)
             n == Len(obj.m_port_used)
             c == Cardinality(Selection(obj) \cap 0 .. 4)
  <2>1. Startable(obj) /\ reg'["MCR2"] = Selection(obj) BY Arming, StartDoes
  <2>2. /\ reg.INB1 + 256 * reg.INB2 = obj.m_nb_frame /\ MinInterval(reg.OSC) = m
        /\ RegToTime(reg.ET1, reg.ET2) = obj.m_expo_time
        /\ RegToTime(reg.IT1, reg.IT2) = obj.m_int_time
        /\ 0 \in reg.MCR1 <=> obj.m_fo_fast
    BY DEF AcqInv, Clean, LinkSet, OscSet, ExpoSet, IntSet, NbSet
  <2>3. /\ {"ET1", "ET2", "IT1", "IT2"} \subseteq RegNames
        /\ {"m_min_it", "m_fo_fast"} \subseteq Members
    BY DEF RegNames, Members
  <2>4. /\ reg["ET1"] \in 0 .. 255 /\ reg["IT1"] \in 0 .. 255
        /\ reg["ET2"] \in 0 .. 223 /\ reg["IT2"] \in 0 .. 223
        /\ obj["m_min_it"] \in Minima /\ obj["m_fo_fast"] \in BOOLEAN
    BY <2>3 DEF AcqInv, TypeOK, Fits
  <2>5. I \in Int /\ E \in Int BY <2>2, <2>4, MicrosInt
  <2>6. m \in Nat BY <2>4, MinimaFit
  <2>7. w \in {560, 700} BY DEF TxTime
  <2>8. n \in Nat /\ c \in Nat /\ c <= n BY FewSelected
  <2>9. ~(I - m + E < w * n) BY <2>1, <2>2 DEF Startable, TooFast
  <2>10. TxTime(0 \in reg.MCR1) = w BY <2>2, <2>4 DEF TxTime
  <2> HIDE DEF I, E, m, w, n, c
  <2>11. w * c <= w * n
    <3>1. CASE w = 560 BY <2>8, <3>1
    <3>2. CASE w = 700 BY <2>8, <3>2
    <3> QED BY <2>7, <3>1, <3>2
  <2>12. w * c \in Int /\ w * n \in Int BY <2>7, <2>8
  <2>13. I - m + E >= w * c
    <3> DEFINE x == w * c  y == w * n
    <3>1. x \in Int /\ y \in Int /\ x <= y /\ ~(I - m + E < y) BY <2>9, <2>11, <2>12
    <3> HIDE DEF x, y
    <3>2. I - m + E >= x BY <2>5, <2>6, <3>1
    <3> QED BY <3>2 DEF x
  <2>14. c = Cardinality(reg'.MCR2 \cap 0 .. 4) BY <2>1 DEF c
  <2>15. /\ I = Micros(RegToTime(reg.IT1, reg.IT2)) /\ m = MinInterval(reg.OSC)
         /\ E = Micros(RegToTime(reg.ET1, reg.ET2))
    BY <2>2 DEF I, E
  <2> QED BY <2>10, <2>13, <2>14, <2>15
<1> QED BY <1>1, AcqInvariant, PTL DEF Spec, StartFits

\* Changing a level or the shutter's mode leaves the shutter's time alone,
\* which shares a byte with them.
THEOREM SignalsKeepTheTime == ASSUME Encodable PROVE Spec => ShutterTimeKept
<1>1. AcqInv /\ [Next]_vars
        => ((\E m \in InST2 : obj'[m] # obj[m]) => TimeOfShutter' = TimeOfShutter)
  <2> SUFFICES ASSUME AcqInv, [Next]_vars, NEW k \in InST2, obj'[k] # obj[k]
               PROVE  TimeOfShutter' = TimeOfShutter
    OBVIOUS
  <2>1. Next BY DEF vars
  <2>2. ~Silent BY DEF Silent
  <2>3. ~StartAcq /\ ~StopAcq BY StartKeeps, StopKeeps
  <2>4. PICK m \in InST2 : \E v \in ValuesOf[m] : SetSignal(m, v)
    BY <2>1, <2>2, <2>3, AcqNext
  <2>5. PICK v \in ValuesOf[m] : SetSignal(m, v) BY <2>4
  <2> DEFINE o == [obj EXCEPT ![m] = v]
             x == reg["ST2"]
  <2>6. Same({m, "none", "ST2"}) /\ reg'["ST2"] \in {x, updateSignal(x, o)}
    BY <2>5, SignalDoes
  <2> HIDE DEF o
  <2>7. reg'["ST1"] = reg["ST1"]
    <3>1. "ST1" \in RegNames \ {m, "none", "ST2"} BY DEF RegNames, InST2
    <3> QED BY <2>6, <3>1 DEF Same
  <2>8. x \in 0 .. 255
    <3>1. "ST2" \in RegNames BY DEF RegNames
    <3> QED BY <3>1 DEF AcqInv, TypeOK, Fits
  <2>9. updateSignal(x, o) % 4 = x % 4 /\ updateSignal(x, o) \div 32 = x \div 32
    BY <2>8, SignalKept
  <2>10. reg'["ST2"] % 4 = x % 4 /\ reg'["ST2"] \div 32 = x \div 32 BY <2>6, <2>9
  <2> QED BY <2>7, <2>10 DEF TimeOfShutter, RegToTime
<1> QED BY <1>1, AcqInvariant, PTL DEF Spec, ShutterTimeKept
=============================================================================
