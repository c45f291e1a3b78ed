CONSTANTS
  Messages = {m1, m2}
  Closes = {e1}
  Handlers = {h1, h2}
  Workers = {w1, w2}
  None = None
  MaxFaults = 1
SPECIFICATION Spec
INVARIANTS OneTurnPerMessage CloseIsJustified
PROPERTIES StaleSweepIsSilent 
CHECK_DEADLOCK FALSE
