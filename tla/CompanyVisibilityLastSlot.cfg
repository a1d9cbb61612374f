SPECIFICATION Spec
CONSTANTS
  Users = {u1}
  Companies = {c1, c2}
  Workers = {w1}
  SuggestLimit = 1
  SearchLimit = 1
  ResultLimit = 1
  None = None
  LIMITS <- MCLIMITS
  Copies <- MCCopies
SYMMETRY Symmetry
INVARIANTS
  ExceededMeansRefused
