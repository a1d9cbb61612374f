SPECIFICATION MCSpec
CONSTANTS
  Ids = {1, 2, 3}
  Workers = {w1, w2}
  Unmatched = Unmatched
  None = None
  NoDate = NoDate
  Months <- MCMonths
  Names <- MCNames
  Starts <- MCStarts
  Ends <- MCEnds
  Sids <- MCSids
SYMMETRY Symmetry
INVARIANTS
  ForDateCovers
  NamesDenoteSids
  WeeksAreWorkingWeeks
  BrowserNeverStricter
PROPERTIES
  LookupAddsNoDuplicate
