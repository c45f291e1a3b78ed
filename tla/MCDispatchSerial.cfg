CONSTANTS
  Handlers = {h1}
  Loops = {l1}
  NoWorker = NoWorker
  MaxTurns = 2
  MaxAttempts = 2
  MaxFaults = 1
SPECIFICATION Spec
INVARIANTS QueueIsSerial ProjectionFollowsDispatch
PROPERTIES ReplyIsFinal SettledStaysSettled ImplementsTurnQueue
CHECK_DEADLOCK FALSE
