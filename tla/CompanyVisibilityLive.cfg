SPECIFICATION SuggestOnlySpec
CONSTANTS
  Users = {u1}
  Companies = {c1, c2}
  Workers = {w1, w2}
  SuggestLimit = 2
  SearchLimit = 1
  ResultLimit = 1
  None = None
  LIMITS <- MCLIMITS
  Copies <- MCCopies
PROPERTIES
  RequestsAreAnswered
  ResetGivesRoom
