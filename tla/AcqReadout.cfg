SPECIFICATION Spec
CONSTANTS
  Versions = {}
  Freqs = {}
  Times = {}
  ShutterTimes = {300000}
  Frames = {456}
  PortLists <- Readouts
  Ports = {1, 5}
  Signals = {"m_shut_level", "m_shut_mode", "m_ready_level"}
  TrigModes = {}
  Flats = {3, 7}
  Firmware = 3
  OldMCR1 = {{}}
  MaxFails = 1
  Delay = 7
INVARIANT RegistersAgree
PROPERTY ShutterTimeKept
