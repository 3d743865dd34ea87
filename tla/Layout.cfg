SPECIFICATION Spec
CONSTANTS
  N = 10
  Files <- SomeFiles
  MatrixFiles <- SomeMatrices
  FillModes = {"RAW", "MEAN"}
  AnyCount = {3}
  MaxTasks = 2
  MaxFails = 1
INVARIANT SizeIsImage
INVARIANT FillModeKept
INVARIANT PortsPerChip
INVARIANT ChipsMatchFiles
