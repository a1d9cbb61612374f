SPECIFICATION Spec
CONSTANTS
  Users = {u1}
  Companies = {c1, c2}
  Workers = {w1, w2}
  SuggestLimit = 1
  SearchLimit = 2
  ResultLimit = 2
  None = None
  LIMITS <- MCLIMITS
  Copies <- MCCopies
SYMMETRY Symmetry
INVARIANTS
  OvershootBound
  DuplicateBound
  GrantIsRecorded
  SeenStaysVisible
  SuggestionIsComplete
PROPERTIES
  ImplementsQuota
