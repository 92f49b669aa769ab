CONSTANTS
  Users = {u1, u2}
  Faces <- FacesDefinition
  NoFace = NoFace
  Identical = 86
  Threshold = 45
  Unit = 5
  TopK = {1, 2}
  Asked <- AskedDefinition
  UseRedis = TRUE
  MaxOps = 3
  MaxFaults = 2
  Unreachable = Unreachable
  Refused = Refused
  Garbled = Garbled
  Nothing = Nothing
SPECIFICATION Spec
SYMMETRY Symmetry
INVARIANTS    LookupsSound
