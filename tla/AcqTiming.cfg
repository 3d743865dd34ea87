SPECIFICATION Spec
CONSTANTS
  Versions = {"TPX1"}
  Freqs = {100000, 200000}
  Times = {800}
  ShutterTimes = {}
  Frames = {300}
  PortLists <- TwoPorts
  Ports = {}
  Signals = {}
  TrigModes = {}
  Flats = {}
  Firmware = 3
  OldMCR1 = {{}, {0}}
  MaxFails = 1
  Delay = 7
INVARIANT RegistersAgree
INVARIANT CleanMeansReady
PROPERTY StartFits
