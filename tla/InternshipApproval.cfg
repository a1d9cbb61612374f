SPECIFICATION Spec
CONSTANTS
  Students = {s1, s2}
  Internships = {i1}
  Addresses = {a1}
  RegistrationStates = {registered}
  FormColumns = {"working_hours"}
  OfficerColumns = {}
  Texts = {t1, t2}
  Workers = {w1, w2}
  NotYet = NotYet
  Gone = Gone
  None = None
SYMMETRY Symmetry
INVARIANTS
  LateEditsBounded
PROPERTIES
  EditsOnlyOwnOpen
  SuccessMeansSaved
