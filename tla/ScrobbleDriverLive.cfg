CONSTANTS
  NumTargets = 1
  NowPlayingAttempts = 3
  MaxPlays = 3
  None = None
SPECIFICATION FairSpec
PROPERTIES
  ImplementsJobQueue
  ScrobbleNeverForgotten
  NowPlayingSettles
CHECK_DEADLOCK FALSE
