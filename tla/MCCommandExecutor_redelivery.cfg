CONSTANTS
  c1 = c1
  c2 = c2
  c3 = c3
  op = op
  repo = repo
  name = name
  Commands = {c1, c3}
  Operations = {op}
  Names = {name}
  Paths = {repo}
  Absent = Absent
  Blank = Blank
  NoLock = NoLock
  Nobody = Nobody
  NoStats = NoStats
  Envelope <- SharedRepo
  Lines <- LinesUsed
  MaxInFlightCommands = 1
  MaxRetainedTerminal = 1
  StreamsEndInTime = TRUE
  MaxIncarnations = 2
  MaxEvents = 2
  AckSequences = {2}
SPECIFICATION Spec
INVARIANTS BufferCoversUnacked TerminalEventIsLast RunsWithinCapacity
PROPERTIES ImplementsService
