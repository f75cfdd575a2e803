\* A debug build.
CONSTANTS
  Tips = {t1, t2}
  NoTip = none
  CycleSleep = 5
  Grace = 2
  LoginTries = 3
  Debug = TRUE
SPECIFICATION FairSpec
PROPERTIES
  InterruptEnds
\* The process ends.
CHECK_DEADLOCK FALSE
