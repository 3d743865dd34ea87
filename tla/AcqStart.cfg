SPECIFICATION Spec
CONSTANTS
  Versions = {"MPX2"}
  Freqs = {80000}
  Times = {2000}
  ShutterTimes = {}
  Frames = {1}
  PortLists = {}
  Ports = {}
  Signals = {"m_gate_mode", "m_gate_level", "m_trig_level"}
  TrigModes = {"ExtTrigMult", "ExtGate", "ExtStartStop"}
  Flats = {}
  Firmware = 8
  OldMCR1 = {{}}
  MaxFails = 0
  Delay = 7
PROPERTY ArmedAsAsked
