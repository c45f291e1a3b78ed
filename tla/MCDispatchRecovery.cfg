CONSTANTS
  Handlers = {h1}
  Loops = {l1, l2}
  NoWorker = NoWorker
  MaxTurns = 1
  MaxAttempts = 2
  MaxFaults = 2
SPECIFICATION FairSpec
INVARIANTS AttemptsAreBounded
PROPERTIES StaleExecutionIsSilent ClaimsEnd
CHECK_DEADLOCK FALSE
