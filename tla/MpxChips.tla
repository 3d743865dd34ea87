------------------------------- MODULE MpxChips -------------------------------
(***************************************************************************)
(* What the chips of a detector are given, each in a string of its own: the*)
(* register with the values of its dacs (MpxDacs, its MpxFsr) and the      *)
(* matrix of its pixels (MpxChipConfig, its PixelArray).  Camera holds an  *)
(* object of each, and the two share no state: a behaviour uses one of     *)
(* them, "used", and leaves the other as it is.                            *)
(***************************************************************************)
EXTENDS MpxChipConfig, MpxFsr

CONSTANTS Detectors, Energies, Settings, Lists, ChipIds, MaxFails   \* those of MpxDacs

VARIABLES used, version, dacs, cal, ports, fsr, synced, byEnergy, fails

Dacs == INSTANCE MpxDacs

ASSUME DacsAssumption == Dacs!DetectorsAssumption

dacsVars  == <<version, dacs, cal, ports, fsr, synced, byEnergy, fails>>
chipsVars == <<used, dacsVars, vars>>

ChipsInit ==
  /\ Dacs!Init /\ Init
  /\ \/ used = "m_chipDacs" /\ m_version = CHOOSE v \in Versions : TRUE
     \/ used = "m_chipCfg"

ChipsNext ==
  \/ used = "m_chipDacs" /\ Dacs!Next /\ UNCHANGED <<used, vars>>
  \/ used = "m_chipCfg" /\ Next /\ UNCHANGED <<used, dacsVars>>

ChipsSpec == ChipsInit /\ [][ChipsNext]_chipsVars

-----------------------------------------------------------------------------
\* A chip written since its values were set holds exactly these values
\* (applyChipDacs, getFsrString).
FsrHolds == Dacs!FsrHolds

\* An energy applied is between the calibration's two thresholds (setEnergy).
EnergyIsApplied == Dacs!EnergyIsApplied

\* What is read for all the chips is true of each (getDacs, getOneDac).
ReadersAgree == Dacs!ReadersAgree
=============================================================================
