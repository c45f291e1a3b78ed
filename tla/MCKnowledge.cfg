CONSTANTS
  a = a
  b = b
  Admins = {a1, a2}
  Cases = {c1}
  Sources = {a, b}
  Last <- MCLast
  Withdrawn <- MCWithdrawn
  Expiring <- MCExpiring
  Generations = {g1, g2, g3}
  MaxRevision = 3
  None = None
  Vector = TRUE
SPECIFICATION Spec
SYMMETRY Symmetric
INVARIANTS PublicationIsSound FreshServing CitedWasServed
PROPERTIES ReaderNeverReplaces EffectIsFresh
CHECK_DEADLOCK FALSE
