CONSTANTS
  Callers = {c1, c2, c3}
  Keys = {"roleA", "roleB"}
  None = None
  MaxCalls = 3
SPECIFICATION FairSpec
INVARIANTS TypeOK AloneWhileWriting OneClientPerKey GotFresh
PROPERTIES IsAtomic EveryCallReturns
CHECK_DEADLOCK FALSE
