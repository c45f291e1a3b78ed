CONSTANTS
  Events = {1}
  Handlers = {h1, h2}
  Pollers = {p1}
  None = None
  PostAnswers = {"pending", "succeeded"}
  MaxFaults = 2
SPECIFICATION Spec
INVARIANTS NewsIsKept
PROPERTIES EventuallyAcknowledged FailureIsLearned ImplementsLedger
CHECK_DEADLOCK FALSE
