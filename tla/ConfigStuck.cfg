SPECIFICATION IfaceFairSpec
CONSTANTS
  Actors <- ThreeActors
  Frames = {}
  AcqModes = {}
  Trigs = {}
  MaxThrows = 1
  Names = {"A"}
  Expos = {}
  Short = {}
  Half = 2
  ReloadWhen = {"Ready"}
PROPERTY FlagFalls
