\* Two scrobblers and two plays: a call of the first play can be queued,
\* running or answered when the second begins, for either slot of either target.
CONSTANTS
  NumTargets = 2
  NowPlayingAttempts = 2
  MaxPlays = 2
  None = None
SPECIFICATION Spec
INVARIANTS
  TypeOK
  AskedOneThingAtATime
  InFlightMeansOutstanding
  AtMostOneScrobble
  NowPlayingBudget
PROPERTIES
  ImplementsLedger
CHECK_DEADLOCK FALSE
