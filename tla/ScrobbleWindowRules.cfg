\* A ten-minute song, the one of the repository's own test.
CONSTANTS
  Lengths = {600}
  Sleep = 5
  CycleTime = 1
  EnrichTime = 15
  FirstSeen = {0, 235}
  QueueDelay = 10
  CallTime = 5
  MinLength = 30
  PlayCap = 240
  ScrobbleRetry = 30
  GateLength = 30
SPECIFICATION Spec
PROPERTIES
  ThresholdIsEnough
