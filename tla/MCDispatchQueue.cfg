CONSTANTS
  Handlers = {h1}
  Loops = {l1}
  NoWorker = NoWorker
  MaxTurns = 2
  MaxAttempts = 2
  MaxFaults = 0
SPECIFICATION FairSpec
PROPERTIES QueuedTurnIsTaken
CHECK_DEADLOCK FALSE
