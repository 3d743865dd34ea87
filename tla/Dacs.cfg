SPECIFICATION ChipsSpec
CONSTANTS
  Detectors <- OneOfEach
  Energies = {5}
  Settings <- SomeKeys
  Lists <- GoodThenBad
  ChipIds = {0, 1}
  MaxFails = 1
  NRow = 2
  NWord = 1
  Versions = {"TPX1", "MXR2"}
  NChip = 2
  Single = {2}
  Names = {"a", "b"}
  GivenFiles <- SomeFiles
  Modes = {{0}}
  SaveExts = {"bpc", "edf"}
  MaxEdits = 2
  HeaderSize = 1024
INVARIANT FsrHolds
INVARIANT EnergyIsApplied
INVARIANT ReadersAgree
INVARIANT MatrixReadsBack
INVARIANT FilesKeepArrays
