CONSTANTS
  c1 = c1
  c2 = c2
  c3 = c3
  op = op
  repo = repo
  name = name
  Commands = {c1, c2, c3}
  Operations = {op}
  Names = {name}
  Paths = {repo}
  Absent = Absent
  Blank = Blank
  NoLock = NoLock
  Nobody = Nobody
  NoStats = NoStats
  Envelope <- SharedRepo
  Lines = {}
  MaxInFlightCommands = 2
  MaxRetainedTerminal = 1
  StreamsEndInTime = TRUE
  MaxIncarnations = 1
  MaxEvents = 2
  AckSequences = {}
SPECIFICATION Spec
PROPERTIES TimedOutNeverDone
