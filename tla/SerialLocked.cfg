SPECIFICATION Spec
CONSTANTS
  Threads = {t1, t2}
  NoThread = NoThread
  Calls <- LockedCalls
  MaxCalls = 2
  MaxLate = 1
  PowerUp <- LeftBefore
INVARIANT TypeOK
INVARIANT MutualExclusion
INVARIANT LineInStep
INVARIANT AnswerIsOwn
INVARIANT NoForeignData
PROPERTY ServiceImplemented
SYMMETRY ThreadSymmetry
