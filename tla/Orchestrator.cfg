\* Time in poll intervals or a little more; lengths on both sides of what a
\* repeat needs to be seen.
CONSTANTS
  Songs = {1, 2}
  NoSong = 0
  Length <- Lengths
  PollInterval = 2
  EnrichLimit = 2
  RestartThreshold = 2
  Limit = 64
  SecondTicks = 2
  Lag = 1
  MaxTicks = 6
SPECIFICATION FairSpec
INVARIANTS
  TypeOK
  OneSongPerPlay
  PresenceIsTrue
  TimingsAgree
PROPERTIES
  NoFalseRestart
  RepeatIsNewPlay
  PauseStampKept
  ToastMeansChange
  PresenceCatchesUp
