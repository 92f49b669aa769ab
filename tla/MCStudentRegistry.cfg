CONSTANTS
  Requests = {r1, r2}
  Emails = {e1, e2}
  Numbers = {n1, n2}
  Ids = {i1, i2}
  Faces <- FacesDefinition
  NoFace = NoFace
  None = None
  Threshold = 1
  MaxUploads = 2
  MaxLogins = 1
  MaxFaults = 1
SPECIFICATION Spec
SYMMETRY Symmetry
INVARIANTS PhotoMatchesFace AttendanceJustified RegistryInv
PROPERTY WrittenOnce
