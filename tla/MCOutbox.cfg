CONSTANTS
  Workers = {w1, w2}
  NoWorker = NoWorker
  Provider = "intercom"
  MaxTurns = 2
  MaxRows = 4
  MaxAttempts = 2
  MaxFaults = 1
SPECIFICATION Spec
SYMMETRY Symmetry
INVARIANTS QueueIsSound
PROPERTIES ImplementsDelivery ManualDeliveryIsCurrent StaleCloseIsUndone
CHECK_DEADLOCK FALSE
