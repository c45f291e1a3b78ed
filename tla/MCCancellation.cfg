CONSTANTS
  Workers = {w1, w2}
  NoWorker = NoWorker
  Authorities = {"explicit", "unclear", "escalate"}
  EarlierEffects = {"none", "earlier"}
  MaxFaults = 1
SPECIFICATION FairSpec
INVARIANTS AnswersAgree
PROPERTIES OneCancellation DoubtEnds
CHECK_DEADLOCK FALSE
