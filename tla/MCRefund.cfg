CONSTANTS
  Workers = {w1, w2}
  NoWorker = NoWorker
  PostAnswers = {"pending", "succeeded"}
  MaxFaults = 1
SPECIFICATION Spec
SYMMETRY Symmetry
INVARIANTS AtMostOneRefund LedgerIsSound ToldAsPaid
PROPERTIES ImplementsLedger
CHECK_DEADLOCK FALSE
