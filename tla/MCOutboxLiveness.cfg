CONSTANTS
  Workers = {w1}
  NoWorker = NoWorker
  Provider = "intercom"
  MaxTurns = 2
  MaxRows = 4
  MaxAttempts = 2
  MaxFaults = 1
SPECIFICATION FairSpec
PROPERTIES RowsSettle
CHECK_DEADLOCK FALSE
