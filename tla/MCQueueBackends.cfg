CONSTANTS
  Publishers = {p1, p2, p3}
  Impatient = {p3}
  Instances = {q}
  PublishTo = q
  ConsumeFrom = q
  Messages = {m1, m2}
  None = None
  Size = 2
  MaxPublished = 5
  Chars = {x}
  Bar = Bar
  Texts <- TextsDefinition
  MaxQueued = 2
  MaxOut = 1
  MaxFaults = 1
SPECIFICATION BackendSpec
PROPERTIES ImplementsQueue   ShutdownDelivers 
CHECK_DEADLOCK FALSE
