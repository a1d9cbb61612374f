SPECIFICATION DurationSpec
CONSTANTS
  Unmatched = Unmatched
  NoDate = NoDate
  Starts <- MCStarts
  Ends <- MCEnds
  Sids <- MCSids
INVARIANTS
  BrowserAgrees
