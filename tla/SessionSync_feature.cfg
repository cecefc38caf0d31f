CONSTANTS
  Sessions = {1, 2}
  Oversized = {1}
  MaxChunks = 2
  IncrementalBatch = 2
  BackfillBatch = 2
  MaxTimeouts = 2
  MaxRateLimited = 2
  MaxClock = 2
  MaxEvents = 2
SPECIFICATION Spec
PROPERTIES
  ReconnectEndsPause

