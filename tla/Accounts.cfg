SPECIFICATION Spec
CONSTANTS
  Accounts = {e1}
  StudentAccounts = {e1}
  UserIds = {1, 2}
  StudentIds = {1, 2, 3}
  Workers = {w1, w2}
  None = None
SYMMETRY Symmetry
INVARIANTS
  DuplicateStudentBound
PROPERTIES
  SuccessMeansAssociated
  StudentIsKept
