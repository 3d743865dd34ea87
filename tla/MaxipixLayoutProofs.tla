------------------------- MODULE MaxipixLayoutProofs -------------------------
(***************************************************************************)
(* The invariants of MaxipixLayout, for any files, sizes and leftovers.    *)
(*                                                                         *)
(* What is read, Active(read, active), does not depend on the state, so the*)
(* facts about it come first.  The step then needs to know that a task is a*)
(* record with its fill type, and which matrices the chips may have.       *)
(***************************************************************************)
EXTENDS MaxipixLayout, TLAPS

TaskFields == {"id", "layout", "type", "xgap", "ygap", "m_positions"}

TypeInv ==
  /\ tasks \in Nat
  /\ m_reconstructionTask # NoTask => DOMAIN m_reconstructionTask = TaskFields
  /\ DOMAIN chips = 0 .. 4
  /\ whole # NoName => whole \in TakenNames

Inv == TypeInv /\ SizeIsImage /\ FillModeKept /\ PortsPerChip /\ ChipsMatchFiles

-----------------------------------------------------------------------------
\* A file that is taken gives each of its chips a port of its own.
LEMMA PortsDistinct ==
  ASSUME NEW name \in TakenNames
  PROVE  /\ Files[name].nchips \in Int
         /\ Ports(Files[name]) \in [1 .. Files[name].nchips -> 0 .. 4]
         /\ \A i, j \in 1 .. Files[name].nchips :
              Ports(Files[name])[i] = Ports(Files[name])[j] => i = j
<1> DEFINE f == Files[name]
<1>1. name \in Names /\ parseDetModuleSection(f)  BY DEF TakenNames, Taken
<1>2. f.nchips \in Int /\ \A i \in DOMAIN f.chip : f.chip[i] \in 1 .. 5
  BY <1>1, FilesAssumption
<1>3. \A i \in 1 .. f.nchips : Given(Entry(f.chip, i))
  BY <1>1 DEF parseDetModuleSection
<1>4. \A i \in 1 .. f.nchips : Entry(f.chip, i) \in 1 .. 5
  BY <1>2, <1>3 DEF Given, Entry
<1>5. \A i \in 1 .. f.nchips : Ports(f)[i] \in 0 .. 4  BY <1>4 DEF Ports
<1>6. Ports(f) \in [1 .. f.nchips -> 0 .. 4]  BY <1>5 DEF Ports
<1>7. \A i \in 1 .. f.nchips : \A j \in 1 .. i - 1 : Ports(f)[j] # Ports(f)[i]
  BY <1>1 DEF parseDetModuleSection
<1>8. ASSUME NEW i \in 1 .. f.nchips, NEW j \in 1 .. f.nchips, Ports(f)[i] = Ports(f)[j]
      PROVE  i = j
  <2>1. ~ (i < j)  BY <1>7, <1>8, <1>2
  <2>2. ~ (j < i)  BY <1>7, <1>8, <1>2
  <2>. QED  BY <2>1, <2>2, <1>2
<1>. QED  BY <1>2, <1>6, <1>8

\* The numbers of a configuration, and what setReconstructionActive makes of
\* them.
NumbersOk(k) ==
  /\ k.nchips \in Int /\ k.xchips \in Int /\ k.ychips \in Int
  /\ k.layout \in Grid \cup {"L_NONE"} => k.xchips * k.ychips = k.nchips
  /\ k.layout = "L_NONE" => k.xchips = k.nchips
  /\ DOMAIN k = {"layout", "nchips", "m_priamPorts", "m_positions", "xchips", "ychips", "xgap", "ygap"}

\* The numbers read from a file that is taken are those of its chips.
LEMMA ReadOk ==
  ASSUME NEW name \in TakenNames, NEW k \in Readings[name]
  PROVE  /\ NumbersOk(k)
         /\ k.nchips = Files[name].nchips
         /\ k.m_priamPorts = Ports(Files[name])
         /\ k.layout \in {"L_FREE", "L_GENERAL"} => k.m_positions = [i \in 1 .. k.nchips |-> k.m_positions[i]]
<1> DEFINE f == Files[name]
<1>1. PICK x \in AnyCount, y \in AnyCount : k = Read(f, x, y)  BY DEF Readings
<1>2. x \in Int /\ y \in Int  BY <1>1, CountAssumption
<1>3. f.nchips \in Int  BY PortsDistinct
<1>4. parseLayoutSection(f)  BY DEF TakenNames, Taken
<1>5. f.layout = "L_2x2" => f.nchips = 4  BY <1>4 DEF parseLayoutSection
<1>6. f.layout = "L_5x1" => f.nchips = 5  BY <1>4 DEF parseLayoutSection
<1>7. k.layout = f.layout /\ k.nchips = f.nchips /\ k.m_priamPorts = Ports(f)
  BY <1>1 DEF Read
<1>8. k.xchips \in Int /\ k.ychips \in Int  BY <1>1, <1>2, <1>3 DEF Read
<1>9. k.layout \in Grid \cup {"L_NONE"} => k.xchips * k.ychips = k.nchips
  BY <1>1, <1>3, <1>5, <1>6 DEF Read, Grid
<1>10. k.layout = "L_NONE" => k.xchips = k.nchips  BY <1>1 DEF Read
<1>11. DOMAIN k = {"layout", "nchips", "m_priamPorts", "m_positions", "xchips", "ychips", "xgap", "ygap"}
  BY <1>1 DEF Read
<1>12. k.layout \in {"L_FREE", "L_GENERAL"} =>
         k.m_positions = [i \in 1 .. k.nchips |-> k.m_positions[i]]
  BY <1>1 DEF Read
<1>. QED  BY <1>3, <1>7, <1>8, <1>9, <1>10, <1>11, <1>12 DEF NumbersOk

\* ... and setReconstructionActive leaves them so.
LEMMA ActiveOk ==
  ASSUME NEW k, NumbersOk(k), NEW active \in BOOLEAN
  PROVE  LET a == Active(k, active)
         IN /\ NumbersOk(a) /\ a.nchips = k.nchips
            /\ a.m_priamPorts = k.m_priamPorts /\ a.m_positions = k.m_positions
            /\ a.layout \in {"L_FREE", "L_GENERAL"} => a.layout = k.layout
<1>1. CASE active
  BY <1>1 DEF Active, setNbChip, NumbersOk
<1>2. CASE ~ active
  <2> DEFINE s == setNbChip(k, k.nchips, 1)
  <2>1. /\ DOMAIN s = DOMAIN k /\ s.nchips = k.nchips /\ s.xchips = k.nchips /\ s.ychips = 1
        /\ s.m_priamPorts = k.m_priamPorts /\ s.m_positions = k.m_positions
    BY DEF setNbChip, NumbersOk
  <2>2. Active(k, active) = [s EXCEPT !.layout = "L_NONE", !.xgap = 0, !.ygap = 0]
    BY <1>2 DEF Active
  <2>. HIDE DEF s
  <2>. QED  BY <2>1, <2>2 DEF NumbersOk
<1>. QED  BY <1>1, <1>2

\* What PortsPerChip says of any numbers read.
LEMMA PortsPerChipOf ==
  ASSUME NEW name \in TakenNames, NEW read \in Readings[name], NEW k,
         NumbersOk(k), k.nchips = read.nchips, k.m_priamPorts = read.m_priamPorts,
         k.m_positions = read.m_positions,
         k.layout \in {"L_FREE", "L_GENERAL"} => k.layout = read.layout
  PROVE  k.m_priamPorts # <<>> =>
           /\ Len(k.m_priamPorts) = k.nchips
           /\ \A i, j \in 1 .. k.nchips : k.m_priamPorts[i] = k.m_priamPorts[j] => i = j
           /\ k.layout \in Grid \cup {"L_NONE"} => k.xchips * k.ychips = k.nchips
           /\ k.layout \in {"L_FREE", "L_GENERAL"} => Len(k.m_positions) = k.nchips
<1>1. k.m_priamPorts = Ports(Files[name]) /\ k.nchips = Files[name].nchips  BY ReadOk
<1>2. k.nchips \in Int /\ k.m_priamPorts \in [1 .. k.nchips -> 0 .. 4]  BY <1>1, PortsDistinct
<1>3. ASSUME k.m_priamPorts # <<>> PROVE k.nchips \in Nat
  BY <1>2, <1>3
<1>4. k.nchips \in Nat => Len(k.m_priamPorts) = k.nchips  BY <1>2
<1>5. ASSUME k.nchips \in Nat, k.layout \in {"L_FREE", "L_GENERAL"}
      PROVE  Len(k.m_positions) = k.nchips
  <2>1. read.m_positions = [i \in 1 .. read.nchips |-> read.m_positions[i]]  BY <1>5, ReadOk
  <2>2. DOMAIN k.m_positions = 1 .. k.nchips /\ k.m_positions = [i \in 1 .. k.nchips |-> k.m_positions[i]]
    BY <2>1
  <2>. QED  BY <2>2, <1>5
<1>6. \A i, j \in 1 .. k.nchips : k.m_priamPorts[i] = k.m_priamPorts[j] => i = j
  BY <1>1, PortsDistinct
<1>. QED  BY <1>3, <1>4, <1>5, <1>6 DEF NumbersOk

-----------------------------------------------------------------------------
\* The parts of the invariant a loadDetConfig that ends can disturb.
LEMMA DetConfigKeeps ==
  ASSUME TypeInv, NEW name \in TakenNames, NEW active \in BOOLEAN, loadDetConfig(name, active)
  PROVE  /\ tasks' \in Nat
         /\ m_reconstructionTask' # NoTask => DOMAIN m_reconstructionTask' = TaskFields
         /\ SizeIsImage' /\ FillModeKept' /\ PortsPerChip'
<1>1. PICK read \in Readings[name] :
        LET k == Active(read, active)
            t == NewTask(k)
        IN /\ cam' = k
           /\ m_reconstructionTask' = t
           /\ m_size' = IF t = NoTask THEN <<k.xchips * N, N>> ELSE ImageSize(t)
           /\ tasks' = IF t = NoTask THEN tasks ELSE tasks + 1
  BY DEF loadDetConfig
<1> DEFINE k == Active(read, active)
           t == NewTask(k)
<1>2. NumbersOk(read)  BY ReadOk
<1>3. /\ NumbersOk(k) /\ k.nchips = read.nchips
      /\ k.m_priamPorts = read.m_priamPorts /\ k.m_positions = read.m_positions
      /\ k.layout \in {"L_FREE", "L_GENERAL"} => k.layout = read.layout
  BY <1>2, ActiveOk
<1>4. cam' = k /\ m_reconstructionTask' = t  BY <1>1
<1>. HIDE DEF k
<1>5. t # NoTask => DOMAIN t = TaskFields /\ t.type = m_reconstructType
  BY DEF NewTask, TaskFields
<1>6. t = NoTask => k.layout = "L_NONE"
  BY DEF NewTask, NoTask, TypeInv
<1>7. SizeIsImage'
  <2>1. t # NoTask => m_size' = ImageSize(t)  BY <1>1 DEF k
  <2>2. t = NoTask => m_size' = <<k.nchips * N, N>>
    <3>1. t = NoTask => m_size' = <<k.xchips * N, N>>  BY <1>1 DEF k
    <3>. QED  BY <3>1, <1>3, <1>6 DEF NumbersOk
  <2>3. ImageSize(m_reconstructionTask)' = ImageSize(t)  BY <1>4 DEF ImageSize
  <2>. HIDE DEF t
  <2>. QED  BY <2>1, <2>2, <2>3, <1>4 DEF SizeIsImage
<1>8. FillModeKept'
  BY <1>4, <1>5 DEF FillModeKept, loadDetConfig
<1>9. PortsPerChip'
  <2>1. k.m_priamPorts # <<>> =>
           /\ Len(k.m_priamPorts) = k.nchips
           /\ \A i, j \in 1 .. k.nchips : k.m_priamPorts[i] = k.m_priamPorts[j] => i = j
           /\ k.layout \in Grid \cup {"L_NONE"} => k.xchips * k.ychips = k.nchips
           /\ k.layout \in {"L_FREE", "L_GENERAL"} => Len(k.m_positions) = k.nchips
    BY <1>3, PortsPerChipOf
  <2>. QED  BY <2>1, <1>4 DEF PortsPerChip
<1>10. tasks' \in Nat  BY <1>1 DEF TypeInv
<1>. QED  BY <1>4, <1>5, <1>7, <1>8, <1>9, <1>10

\* Sending the first matrices of a configuration: each is on its port, and
\* once all are, they are together.
LEMMA SentOk ==
  ASSUME TypeInv, ChipsMatchFiles, NEW name \in TakenNames,
         NEW k \in 0 .. Files[name].nchips
  PROVE  /\ DOMAIN Sent(name, k) = 0 .. 4
         /\ \A p \in 0 .. 4 : Sent(name, k)[p] # NoMatrix =>
              Ports(Files[Sent(name, k)[p][1]])[Sent(name, k)[p][2]] = p
         /\ k = 0 => Sent(name, k) = [p \in 0 .. 4 |-> chips[p]]
         /\ k = Files[name].nchips =>
              \A i \in 1 .. Files[name].nchips : Sent(name, k)[Ports(Files[name])[i]] = <<name, i>>
<1> DEFINE P == Ports(Files[name])
           n == Files[name].nchips
<1>1. n \in Int /\ P \in [1 .. n -> 0 .. 4] /\ \A i, j \in 1 .. n : P[i] = P[j] => i = j
  BY PortsDistinct
<1>2. DOMAIN Sent(name, k) = 0 .. 4  BY DEF Sent
<1>3. \A p \in 0 .. 4 : ~ (\E i \in 1 .. k : P[i] = p) => Sent(name, k)[p] = chips[p]
  BY DEF Sent
<1>4. ASSUME NEW i \in 1 .. k
      PROVE  Sent(name, k)[P[i]] = <<name, i>>
  <2>1. i \in 1 .. n /\ P[i] \in 0 .. 4  BY <1>1
  <2>2. \A j \in 1 .. k : P[j] = P[i] => j = i  BY <1>1, <2>1
  <2>3. (CHOOSE j \in 1 .. k : P[j] = P[i]) = i  BY <2>2
  <2>4. \E j \in 1 .. k : P[j] = P[i]  OBVIOUS
  <2>. QED  BY <2>1, <2>3, <2>4 DEF Sent
<1>. HIDE DEF P, n
<1>5. ASSUME NEW p \in 0 .. 4, Sent(name, k)[p] # NoMatrix
      PROVE  Ports(Files[Sent(name, k)[p][1]])[Sent(name, k)[p][2]] = p
  <2>1. CASE \E i \in 1 .. k : P[i] = p
    <3>1. PICK i \in 1 .. k : P[i] = p  BY <2>1
    <3>2. Sent(name, k)[p] = <<name, i>>  BY <3>1, <1>4
    <3>. QED  BY <3>1, <3>2 DEF P
  <2>2. CASE ~ \E i \in 1 .. k : P[i] = p
    BY <2>2, <1>3, <1>5 DEF ChipsMatchFiles
  <2>. QED  BY <2>1, <2>2
<1>6. k = 0 => Sent(name, k) = [p \in 0 .. 4 |-> chips[p]]
  BY DEF Sent
<1>7. k = n => \A i \in 1 .. n : Sent(name, k)[P[i]] = <<name, i>>  BY <1>4
<1>. QED  BY <1>2, <1>5, <1>6, <1>7 DEF P, n

\* The invariant holds of a new camera.
LEMMA InvInit == Init => Inv
BY DEF Init, Inv, TypeInv, SizeIsImage, FillModeKept, PortsPerChip, ChipsMatchFiles

\* The invariant is inductive: one case per action.
LEMMA InvStep == Inv /\ [Next]_vars => Inv'
<1> SUFFICES ASSUME Inv, [Next]_vars PROVE Inv'
  OBVIOUS
<1>. USE DEF Inv
<1>1. ASSUME NEW name \in Names, NEW active \in BOOLEAN, LoadConfig(name, active) PROVE Inv'
  <2>1. name \in TakenNames /\ Files[name].nchips >= 1  BY <1>1 DEF LoadConfig, loadDetConfig
  <2>2. /\ tasks' \in Nat
        /\ m_reconstructionTask' # NoTask => DOMAIN m_reconstructionTask' = TaskFields
        /\ SizeIsImage' /\ FillModeKept' /\ PortsPerChip'
    BY <2>1, <1>1, DetConfigKeeps DEF LoadConfig
  <2>3. Files[name].nchips \in 0 .. Files[name].nchips  BY <2>1, PortsDistinct
  <2>4. chips' = Sent(name, Files[name].nchips) /\ whole' = name  BY <1>1 DEF LoadConfig
  <2>5. DOMAIN chips' = 0 .. 4 /\ ChipsMatchFiles'
    BY <2>1, <2>3, <2>4, SentOk DEF ChipsMatchFiles
  <2>. QED  BY <2>1, <2>2, <2>4, <2>5 DEF TypeInv
<1>2. ASSUME NEW name \in Names, NEW active \in BOOLEAN, MatrixRefused(name, active) PROVE Inv'
  <2>1. name \in TakenNames  BY <1>2 DEF MatrixRefused, loadDetConfig
  <2>2. /\ tasks' \in Nat
        /\ m_reconstructionTask' # NoTask => DOMAIN m_reconstructionTask' = TaskFields
        /\ SizeIsImage' /\ FillModeKept' /\ PortsPerChip'
    BY <2>1, <1>2, DetConfigKeeps DEF MatrixRefused
  <2>3. UNCHANGED chipVars  BY <1>2 DEF MatrixRefused
  <2>. QED  BY <2>2, <2>3 DEF TypeInv, ChipsMatchFiles, chipVars
<1>3. ASSUME NEW name \in Names, NEW active \in BOOLEAN, SendFails(name, active) PROVE Inv'
  <2>1. name \in TakenNames /\ Files[name].nchips >= 1  BY <1>3 DEF SendFails, loadDetConfig
  <2>2. /\ tasks' \in Nat
        /\ m_reconstructionTask' # NoTask => DOMAIN m_reconstructionTask' = TaskFields
        /\ SizeIsImage' /\ FillModeKept' /\ PortsPerChip'
    BY <2>1, <1>3, DetConfigKeeps DEF SendFails
  <2>3. PICK k \in 0 .. Files[name].nchips :
          /\ chips' = Sent(name, k)
          /\ whole' = CASE k = 0 -> whole [] k = Files[name].nchips -> name [] OTHER -> NoName
    BY <1>3 DEF SendFails
  <2>4. DOMAIN chips' = 0 .. 4
        /\ \A p \in 0 .. 4 : chips'[p] # NoMatrix => Ports(Files[chips'[p][1]])[chips'[p][2]] = p
    BY <2>1, <2>3, SentOk
  <2>5. CASE k = 0
    <3>1. whole' = whole  BY <2>1, <2>3, <2>5
    <3>2. chips' = [p \in 0 .. 4 |-> chips[p]]  BY <2>1, <2>3, <2>5, SentOk
    <3>3. whole # NoName => Ports(Files[whole]) \in [1 .. Files[whole].nchips -> 0 .. 4]
      BY PortsDistinct DEF TypeInv
    <3>. QED  BY <2>2, <2>4, <3>1, <3>2, <3>3 DEF TypeInv, ChipsMatchFiles
  <2>6. CASE k # 0 /\ k = Files[name].nchips
    <3>1. whole' = name  BY <2>3, <2>6
    <3>2. \A i \in 1 .. Files[name].nchips : chips'[Ports(Files[name])[i]] = <<name, i>>
      BY <2>1, <2>3, <2>6, SentOk
    <3>. QED  BY <2>1, <2>2, <2>4, <3>1, <3>2 DEF TypeInv, ChipsMatchFiles
  <2>7. CASE k # 0 /\ k # Files[name].nchips
    <3>1. whole' = NoName  BY <2>3, <2>7
    <3>. QED  BY <2>2, <2>4, <3>1 DEF TypeInv, ChipsMatchFiles
  <2>. QED  BY <2>5, <2>6, <2>7
<1>4. ASSUME NEW name \in Names, SetupFails(name) PROVE Inv'
  <2>1. name \in TakenNames /\ cam' \in Readings[name] /\ loaded' = FALSE
        /\ UNCHANGED <<m_size, m_reconstructType, m_reconstructionTask, tasks, chipVars>>
    BY <1>4 DEF SetupFails
  <2>2. PICK k \in Readings[name] : k = cam'  BY <2>1
  <2>3. k.m_priamPorts # <<>> =>
           /\ Len(k.m_priamPorts) = k.nchips
           /\ \A i, j \in 1 .. k.nchips : k.m_priamPorts[i] = k.m_priamPorts[j] => i = j
           /\ k.layout \in Grid \cup {"L_NONE"} => k.xchips * k.ychips = k.nchips
           /\ k.layout \in {"L_FREE", "L_GENERAL"} => Len(k.m_positions) = k.nchips
    BY <2>1, <2>2, ReadOk, PortsPerChipOf
  <2>4. PortsPerChip'  BY <2>2, <2>3 DEF PortsPerChip
  <2>5. SizeIsImage'  BY <2>1 DEF SizeIsImage, ImageSize
  <2>. QED  BY <2>1, <2>4, <2>5 DEF TypeInv, FillModeKept, ChipsMatchFiles, chipVars
<1>5. ASSUME NEW t \in FillModes, SetFillMode(t) PROVE Inv'
  <2>1. DOMAIN m_reconstructionTask' = TaskFields  BY <1>5 DEF SetFillMode, TypeInv
  <2>2. /\ m_reconstructionTask'.layout = m_reconstructionTask.layout
        /\ m_reconstructionTask'.xgap = m_reconstructionTask.xgap
        /\ m_reconstructionTask'.ygap = m_reconstructionTask.ygap
        /\ m_reconstructionTask'.m_positions = m_reconstructionTask.m_positions
        /\ m_reconstructionTask'.type = m_reconstructType'
    BY <1>5 DEF SetFillMode, TypeInv, TaskFields
  <2>3. ImageSize(m_reconstructionTask)' = ImageSize(m_reconstructionTask)
    BY <2>2 DEF ImageSize
  <2>4. m_reconstructionTask' # NoTask  BY <2>1 DEF NoTask, TaskFields
  <2>5. SizeIsImage'  BY <2>3, <2>4, <1>5 DEF SizeIsImage, SetFillMode
  <2>. QED  BY <2>1, <2>2, <2>5, <1>5 DEF SetFillMode, TypeInv, FillModeKept, PortsPerChip, ChipsMatchFiles, chipVars
<1>6. ASSUME UNCHANGED vars \/ BuildInterface \/ \E name \in Names : ConfigRefused(name) PROVE Inv'
  <2>1. UNCHANGED <<cam, m_size, m_reconstructType, m_reconstructionTask, tasks, loaded, chipVars>>
    BY <1>6 DEF BuildInterface, ConfigRefused, vars, layoutVars
  <2>2. TypeInv' /\ FillModeKept' /\ ChipsMatchFiles'
    BY <2>1 DEF TypeInv, FillModeKept, ChipsMatchFiles, chipVars
  <2>3. SizeIsImage'
    <3>1. ImageSize(m_reconstructionTask)' = ImageSize(m_reconstructionTask)  BY <2>1 DEF ImageSize
    <3>. QED  BY <2>1, <3>1 DEF SizeIsImage
  <2>4. PortsPerChip'  BY <2>1 DEF PortsPerChip
  <2>. QED  BY <2>2, <2>3, <2>4
<1>. QED  BY <1>1, <1>2, <1>3, <1>4, <1>5, <1>6 DEF Next

-----------------------------------------------------------------------------
\* The size announced to Lima is that of the images, for any files and
\* whatever an uninitialised number of chips holds.
THEOREM SizeIsThatOfImages == Spec => []SizeIsImage
BY InvInit, InvStep, PTL DEF Spec, Inv

\* The fill type is that of the task, through any number of configurations.
THEOREM FillModeIsKept == Spec => []FillModeKept
BY InvInit, InvStep, PTL DEF Spec, Inv

\* Ports, numbers and positions are those of one file.
THEOREM PortsAreThoseOfTheChips == Spec => []PortsPerChip
BY InvInit, InvStep, PTL DEF Spec, Inv

\* The chips keep the matrices of one configuration together, each on the
\* port its file gives it.
THEOREM ChipsKeepTheirMatrices == Spec => []ChipsMatchFiles
BY InvInit, InvStep, PTL DEF Spec, Inv
=============================================================================
