CONSTANTS
  Commands = {a, b}
  NoCommand = NoCommand
  Workers = {w1, w2}
  NoWorker = NoWorker
  MaxAttempts = 2
  MaxFaults = 1
SPECIFICATION Spec
SYMMETRY Symmetry
INVARIANTS OnePerSubscription AnswersAgree CompletedIsAnswered
PROPERTIES OneCredit
CHECK_DEADLOCK FALSE
