\* A release build: the menu is the only way out.
CONSTANTS
  Tips = {t1, t2}
  NoTip = none
  CycleSleep = 5
  Grace = 2
  LoginTries = 3
  Debug = FALSE
SPECIFICATION FairSpec
PROPERTIES
  SleeperWindsDown
\* The process ends.
CHECK_DEADLOCK FALSE
