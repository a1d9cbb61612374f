SPECIFICATION Spec
CONSTANTS
  Students = {s1}
  Internships = {i1}
  Addresses = {a1, a2}
  RegistrationStates = {registered}
  FormColumns = {"dates"}
  OfficerColumns = {"dates"}
  Texts = {t1, t2}
  Workers = {w1}
  NotYet = NotYet
  Gone = Gone
  None = None
SYMMETRY Symmetry
PROPERTIES
  AddressOnlyWhileOpen
