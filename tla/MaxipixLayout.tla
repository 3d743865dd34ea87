--------------------------- MODULE MaxipixLayout ----------------------------
(***************************************************************************)
(* Camera::loadConfig, and the life of the reconstruction task.            *)
(* loadDetConfig takes the detector's configuration from a file, sets up   *)
(* the board and the chips and ends in setReconstructionActive, which      *)
(* replaces the camera's task by one built for the layout, or by none;     *)
(* loadChipConfig then loads the chips' matrices and sends them to the     *)
(* chips, each on its port.  The frames of Lima, however, go through the   *)
(* task that Interface handed to the ReconstructionCtrlObj when it was     *)
(* built.                                                                  *)
(*                                                                         *)
(* Sizes are in pixels, N standing for the 256 of a chip's side.           *)
(***************************************************************************)
EXTENDS MpxDetConfig, FiniteSetsExt

CONSTANTS N,            \* columns and lines of a chip
          Files,        \* the configuration files, by name
          MatrixFiles,  \* the matrices that load, as <<name, chip>>
          FillModes,    \* fill types set
          AnyCount,     \* what an uninitialised number of chips may hold
          MaxTasks,     \* bound: tasks created
          MaxFails      \* bound: loads the board interrupts

Names == DOMAIN Files

\* The files that are taken, and what may be read from each.
TakenNames == {name \in Names : Taken(Files[name])}
Readings   == [name \in TakenNames |-> {Read(Files[name], x, y) : x, y \in AnyCount}]

Types == {"RAW", "ZERO", "DISPATCH", "MEAN"}

ASSUME FilesAssumption ==
  \A name \in Names : /\ Files[name].nchips \in Int
                      /\ \A i \in DOMAIN Files[name].chip : Files[name].chip[i] \in 1 .. 5
ASSUME CountAssumption  ==
  N \in Nat /\ FillModes \subseteq Types /\ AnyCount \subseteq Int /\ MaxTasks \in Nat /\ MaxFails \in Nat

NoTask   == [id |-> 0]
NoMatrix == <<"none", 0>>
NoName   == "none"

VARIABLES cam,     \* what was read, see Read
          m_size,
          m_reconstructType,
          m_reconstructionTask,
          registered,  \* the id of the task of ReconstructionCtrlObj, 0 if
                       \* none, -1 before Interface is built
          tasks,       \* tasks created so far
          chips,       \* the matrix of the chip on each port, as <<name, chip>>
          fails,       \* loads the board has interrupted
          loaded,      \* ghost: the last loadDetConfig ran to its end
          whole        \* ghost: the configuration whose matrices the chips had
                       \* last, unless sending others was interrupted

layoutVars == <<cam, m_size, m_reconstructType, m_reconstructionTask, registered, tasks, loaded>>
chipVars   == <<chips, whole>>
vars       == <<layoutVars, chipVars, fails>>

(***************************************************************************)
(* setReconstructionActive and createReconstructionTask.                   *)
(***************************************************************************)
setNbChip(k, x, y) ==
  IF x = k.xchips /\ y = k.ychips THEN k
  ELSE [k EXCEPT !.xchips = x, !.ychips = y, !.nchips = x * y]

\* Mutant: the numbers of chips of the file are kept.
ActiveKeepsChips(k, active) ==
  IF active THEN k ELSE [k EXCEPT !.layout = "L_NONE", !.xgap = 0, !.ygap = 0]

\* Without reconstruction the detector is flattened.
Active(k, active) ==
  IF active THEN setNbChip(k, k.xchips, k.ychips)
  ELSE [setNbChip(k, k.nchips, 1) EXCEPT !.layout = "L_NONE", !.xgap = 0, !.ygap = 0]

GridSize(x, y, xgap, ygap) == <<x * N + (x - 1) * xgap, y * N + (y - 1) * ygap>>

\* The rectangle the chips of L_GENERAL are in.
Span(origins) == Max(origins) + N - Min(origins)

\* getImageSize of a task.
ImageSize(task) ==
  LET positions == {task.m_positions[i] : i \in DOMAIN task.m_positions}
  IN CASE task.layout = "L_2x2" -> GridSize(2, 2, task.xgap, task.ygap)
       [] task.layout = "L_5x1" -> GridSize(5, 1, task.xgap, task.ygap)
       [] task.layout = "L_FREE" -> GridSize(Len(task.m_positions), 1, 0, 0)
       [] task.layout = "L_GENERAL" -> <<Span({p.x : p \in positions}), Span({p.y : p \in positions})>>

\* Mutant: the new task fills gaps as a new camera does.
NewTaskRaw(k) ==
  IF k.layout = "L_NONE" THEN NoTask
  ELSE [ id |-> tasks + 1, layout |-> k.layout, type |-> "RAW",
         xgap |-> IF k.layout \in Grid THEN k.xgap ELSE 4,
         ygap |-> IF k.layout \in Grid THEN k.ygap ELSE 4,
         m_positions |-> IF k.layout \in Grid THEN <<>> ELSE k.m_positions ]

\* A constructor's gaps are 4; only the grids get the camera's.
NewTask(k) ==
  IF k.layout = "L_NONE" THEN NoTask
  ELSE [ id |-> tasks + 1, layout |-> k.layout, type |-> m_reconstructType,
         xgap |-> IF k.layout \in Grid THEN k.xgap ELSE 4,
         ygap |-> IF k.layout \in Grid THEN k.ygap ELSE 4,
         m_positions |-> IF k.layout \in Grid THEN <<>> ELSE k.m_positions ]

\* loadDetConfig to its end.  The first chip's register is asked for, which
\* throws when there is none.  Every task but the camera's has been deleted.
loadDetConfig(name, active) ==
  /\ name \in TakenNames /\ Files[name].nchips >= 1
  /\ \E read \in Readings[name] :
       LET k == Active(read, active)
           t == NewTask(k)
       IN /\ t # NoTask => tasks < MaxTasks
          /\ cam' = k
          /\ m_reconstructionTask' = t
          /\ m_size' = IF t = NoTask THEN <<k.xchips * N, N>> ELSE ImageSize(t)
          /\ tasks' = IF t = NoTask THEN tasks ELSE tasks + 1
  /\ loaded' = TRUE
  /\ UNCHANGED <<m_reconstructType, registered>>

(***************************************************************************)
(* loadChipConfig: every matrix is loaded from its file before the first is*)
(* sent to a chip.                                                         *)
(***************************************************************************)
AllMatrices ==
  {name \in TakenNames : \A i \in 1 .. Files[name].nchips : <<name, i>> \in MatrixFiles}

\* Mutant: the chips counted from port 0.
SentInOrder(name, k) ==
  [p \in 0 .. 4 |-> IF p < k THEN <<name, p + 1>> ELSE chips[p]]

\* The chips' matrices once the first k are sent.
Sent(name, k) ==
  [p \in 0 .. 4 |-> IF \E i \in 1 .. k : Ports(Files[name])[i] = p
                   THEN <<name, CHOOSE i \in 1 .. k : Ports(Files[name])[i] = p>>
                   ELSE chips[p]]

LoadConfig(name, active) ==
  /\ loadDetConfig(name, active) /\ name \in AllMatrices
  /\ chips' = Sent(name, Files[name].nchips) /\ whole' = name
  /\ UNCHANGED fails

(***************************************************************************)
(* ... and where it throws.                                                *)
(***************************************************************************)
\* The file is not taken.
ConfigRefused(name) == name \notin TakenNames /\ UNCHANGED vars

\* The setup of the board or the chips throws: the camera has the numbers of
\* the new configuration, the task and the size of the old one.
SetupFails(name) ==
  /\ name \in TakenNames
  /\ Files[name].nchips >= 1 => fails < MaxFails
  /\ fails' = IF Files[name].nchips >= 1 THEN fails + 1 ELSE fails
  /\ cam' \in Readings[name]
  /\ loaded' = FALSE
  /\ UNCHANGED <<m_size, m_reconstructType, m_reconstructionTask, registered, tasks, chipVars>>

\* A matrix does not load.
MatrixRefused(name, active) ==
  /\ loadDetConfig(name, active) /\ name \notin AllMatrices
  /\ UNCHANGED <<chipVars, fails>>

\* Sending a matrix throws, or the acquisition that resets the pixels does.
SendFails(name, active) ==
  /\ fails < MaxFails /\ fails' = fails + 1
  /\ loadDetConfig(name, active) /\ name \in AllMatrices
  /\ \E k \in 0 .. Files[name].nchips :
       /\ chips' = Sent(name, k)
       /\ whole' = CASE k = 0 -> whole [] k = Files[name].nchips -> name [] OTHER -> NoName

\* Ignored while there is no task.
SetFillMode(fillMode) ==
  /\ m_reconstructionTask # NoTask
  /\ m_reconstructType' = fillMode
  /\ m_reconstructionTask' = [m_reconstructionTask EXCEPT !.type = fillMode]
  /\ UNCHANGED <<cam, m_size, registered, tasks, loaded, chipVars, fails>>

\* The constructor of Interface, the only caller of setReconstructionTask.
BuildInterface ==
  /\ registered = -1
  /\ registered' = m_reconstructionTask.id
  /\ UNCHANGED <<cam, m_size, m_reconstructType, m_reconstructionTask, tasks, loaded, chipVars, fails>>

\* A camera built without a configuration's name loads none.
Init ==
  /\ cam = [layout |-> "L_NONE", xchips |-> 1, ychips |-> 1, nchips |-> 1,
            xgap |-> 0, ygap |-> 0, m_priamPorts |-> <<>>, m_positions |-> <<>>]
  /\ m_size = <<0, 0>>
  /\ m_reconstructType = "RAW" /\ m_reconstructionTask = NoTask
  /\ registered = -1 /\ tasks = 0 /\ loaded = FALSE
  /\ chips = [p \in 0 .. 4 |-> NoMatrix] /\ whole = NoName /\ fails = 0

Next ==
  \/ \E name \in Names, active \in BOOLEAN :
       LoadConfig(name, active) \/ MatrixRefused(name, active) \/ SendFails(name, active)
  \/ \E name \in Names : ConfigRefused(name) \/ SetupFails(name)
  \/ \E t \in FillModes : SetFillMode(t)
  \/ BuildInterface

Spec == Init /\ [][Next]_vars

-----------------------------------------------------------------------------
\* The size announced to Lima is that of the image the frames become: the
\* task's if there is one, even after a load that failed, and the flat line
\* of chips the detector sends if not, whichever configurations were loaded
\* before, with or without reconstruction.
SizeIsImage ==
  /\ m_reconstructionTask # NoTask => m_size = ImageSize(m_reconstructionTask)
  /\ m_reconstructionTask = NoTask /\ loaded => m_size = <<cam.nchips * N, N>>

\* The fill type outlives the task it was set on: after any number of
\* configurations the camera's task fills the gap as getFillMode says.
FillModeKept ==
  m_reconstructionTask # NoTask => m_reconstructionTask.type = m_reconstructType

\* Ports, numbers and positions are those of one file, whatever was read from
\* the files before and whether or not the board was set up after: a port of
\* its own for each chip, a grid of that many chips, and their positions
\* where the layout has them (parseDetModuleSection, parseLayoutSection, and
\* setNbChip, which multiplies the numbers that a file may not give).
PortsPerChip ==
  cam.m_priamPorts # <<>> =>
    /\ Len(cam.m_priamPorts) = cam.nchips
    /\ \A i, j \in 1 .. cam.nchips : cam.m_priamPorts[i] = cam.m_priamPorts[j] => i = j
    /\ cam.layout \in Grid \cup {"L_NONE"} => cam.xchips * cam.ychips = cam.nchips
    /\ cam.layout \in {"L_FREE", "L_GENERAL"} => Len(cam.m_positions) = cam.nchips

\* A matrix is never on a port its file gives to another chip, and the chips
\* of a configuration that was sent keep its matrices together, however many
\* configurations are refused or interrupted before they send their own: one
\* with a matrix missing changes no chip (loadChipConfig, applyPixelConfig).
ChipsMatchFiles ==
  /\ \A p \in 0 .. 4 : chips[p] # NoMatrix => Ports(Files[chips[p][1]])[chips[p][2]] = p
  /\ whole # NoName =>
       \A i \in 1 .. Files[whole].nchips : chips[Ports(Files[whole])[i]] = <<whole, i>>
=============================================================================
