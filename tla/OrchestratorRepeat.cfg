\* One song, longer than the restart threshold, shorter than the threshold
\* and a poll interval.
CONSTANTS
  Songs = {2}
  NoSong = 0
  Length <- Lengths
  PollInterval = 2
  EnrichLimit = 2
  RestartThreshold = 2
  Limit = 64
  SecondTicks = 2
  Lag = 1
  MaxTicks = 6
SPECIFICATION Spec
PROPERTIES
  EveryRepeatIsNewPlay
