SPECIFICATION FairSpec
CONSTANTS
  Threads = {t1, t2}
  NoThread = NoThread
  Calls <- MatrixCalls
  MaxCalls = 1
  MaxLate = 1
  PowerUp <- LeftBefore
PROPERTY CallsReturn
