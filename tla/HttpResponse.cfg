CONSTANTS
  BufferSize = 2
  MaxBytes = 5
  Lengths = {0, 2, 4}
  Statuses = {200, 204}
SPECIFICATION HSpec
INVARIANTS
  FramingMatches
  BodyIsWhatWasWritten
PROPERTY
  FinishedOnce
CHECK_DEADLOCK FALSE
