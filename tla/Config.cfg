SPECIFICATION IfaceSpec
CONSTANTS
  Actors <- ThreeActors
  Frames = {2}
  AcqModes = {}
  Trigs = {}
  MaxThrows = 1
  Names = {A, B}
  Expos = {64300}
  Short = {64300, 64200}
  Half = 2
  ReloadWhen = {"Ready"}
INVARIANT ConfigReported
INVARIANT ConfigAlone
INVARIANT OneConfig
PROPERTY ParamsRestored
SYMMETRY NameSymmetry
