\* The code's own times, in seconds; songs below, at and above the lengths
\* where its two rules part.
CONSTANTS
  Lengths = {30, 45, 61, 480, 600}
  Sleep = 5
  CycleTime = 1
  EnrichTime = 15
  FirstSeen = {0, 20, 235, 290}
  QueueDelay = 10
  CallTime = 5
  MinLength = 30
  PlayCap = 240
  ScrobbleRetry = 30
  GateLength = 30
SPECIFICATION Spec
INVARIANTS
  TypeOK
  NotBeforeThreshold
  FirstAskPasses
PROPERTIES
  PlayedThroughIsScrobbled
