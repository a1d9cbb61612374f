SPECIFICATION Spec
CONSTANTS
  Users = {u1, a1}
  Admins = {a1}
  i1 = i1
  i2 = i2
  i3 = i3
  Everything = Everything
  Specific = Specific
  Internships = {i1, i2, i3}
  Searches = {Everything, Specific}
  Workers = {w1, w2}
  INTERNSHIP_LIMIT = 2
  None = None
  Match <- MCMatch
  Past <- MCPast
  Recent <- MCRecent
  Copies <- MCCopies
SYMMETRY MCSymmetry
INVARIANTS
  ListsExactlySeenMatches
PROPERTIES
  FullUserIsTold
  ImplementsQuota
