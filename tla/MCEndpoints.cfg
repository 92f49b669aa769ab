CONSTANTS
  Requests = {r1, r2}
  Workers = {w1, w2}
  MaxFaults = 2
  None = None
  Devices = {d1, d2}
  Settings = {s1, s2}
  PerSecond = 2
  AccessTTL = 3
  RefreshTTL = 4
  MaxNow = 4
  MaxIssued = 2
  MaxLapses = 1
  Photos = {"p1", "p2"}
  ApiKey = "key"
  Secret = "secret"
  Folder = "attendance"
  Decimal <- DecimalDefinition
  MaxClock = 1
  Events <- EventsDefinition
  DeviceOf <- DeviceDefinition
  UserOf <- UserDefinition
  WhenOf <- WhenDefinition
  Limits <- LimitsDefinition
  Any = "any"
  Absent = Absent
  DefaultLimit = 3
  Emails = {e1}
  Numbers = {n1}
  Ids = {i1}
  Faces <- FacesDefinition
  NoFace = NoFace
  Threshold = 1
  MaxUploads = 1
  MaxLogins = 1
  MaxErrors = 1
SPECIFICATION FairSpec
INVARIANTS LifetimeExact RefreshStored ListingExact UploadsRight EndpointsInv
PROPERTIES  ServicesReturn LoginMarks
CHECK_DEADLOCK FALSE
