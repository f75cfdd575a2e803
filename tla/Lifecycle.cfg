\* The code's sleep and grace period; three tries stand for the sixty.
CONSTANTS
  Tips = {t1, t2}
  NoTip = none
  CycleSleep = 5
  Grace = 2
  LoginTries = 3
  Debug = TRUE
SPECIFICATION FairSpec
INVARIANTS
  TypeOK
  TipOnItsWay
PROPERTIES
  EndsOnceQuit
  LoginSettles
\* The process ends.
CHECK_DEADLOCK FALSE
