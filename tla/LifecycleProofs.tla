-------------------------- MODULE LifecycleProofs ---------------------------
(***************************************************************************)
(* Safety of Lifecycle for any sleeps, grace periods and number of login   *)
(* tries, in debug and release builds.  That the process ends, and that    *)
(* the login does, is left to the model checker.                           *)
(***************************************************************************)
EXTENDS Lifecycle, TLAPS

(* The poll thread is done before WinMain's locals go, and with them the   *)
(* session key is stored.                                                  *)
Joined ==
  /\ ui \in {"joining", "exiting"} => poll = "done"
  /\ ui = "exiting" => (authed => stored)

(* Before it starts nothing was set.                                       *)
NotStarted ==
  /\ ui \in {"starting", "asking", "calling", "waiting", "ready", "created"} => poll = "none"
  /\ poll = "none" => shownTip = pendingTip

(* The last try sets the flag that stops the next one.                     *)
TriesLeft ==
  /\ tries = LoginTries => escaped
  /\ ui \in {"calling", "waiting"} => tries < LoginTries

IInv == TypeOK /\ Joined /\ NotStarted /\ TriesLeft /\ TipOnItsWay /\ ReturnKeepsLogin

LEMMA ConstantFacts ==
  /\ CycleSleep \in Nat /\ Grace \in Nat /\ LoginTries \in Nat /\ LoginTries > 0
  /\ 0 \in 0..CycleSleep /\ 0 \in 0..Grace /\ 0 \in 0..LoginTries
  /\ NoTip \in TipOrNone /\ Tips \subseteq TipOrNone
  BY TimesAssumption DEF TipOrNone

LEMMA InvInit == Init => IInv
  <1> SUFFICES ASSUME Init PROVE IInv
    OBVIOUS
  <1>1. /\ running \in BOOLEAN /\ tray \in BOOLEAN /\ window \in BOOLEAN
        /\ escaped \in BOOLEAN /\ authed \in BOOLEAN /\ stored \in BOOLEAN
    BY DEF Init
  <1>2. TypeOK
    BY <1>1, ConstantFacts DEF Init, TypeOK, UiSteps, PollSteps
  <1>3. Joined /\ NotStarted /\ TriesLeft /\ TipOnItsWay /\ ReturnKeepsLogin
    BY ConstantFacts DEF Init, Joined, NotStarted, TriesLeft, TipOnItsWay, ReturnKeepsLogin
  <1> QED
    BY <1>2, <1>3 DEF IInv

(* Logging in, before there is a window or a poll thread to speak of.      *)
LEMMA LoginStep == IInv /\ (Login \/ Escape) => IInv'
  <1> SUFFICES ASSUME IInv, Login \/ Escape PROVE IInv'
    OBVIOUS
  <1>1. /\ UNCHANGED <<running, tray, window, posted, stored, graceUsed, poll, slept, tooltip,
                       console, outcome, refresh>>
        /\ ui \in {"starting", "asking", "calling", "waiting"}
        /\ ui' \in {"starting", "asking", "calling", "waiting", "ready"}
    BY DEF Login, KeyValidated, NoLastFm, AskUser, AskSession, SessionGranted, NotYetGranted,
       AskAgain, LoginCancelled, LoggedInOrNot, Escape, login
  <1>2. authed' \in BOOLEAN
    BY DEF IInv, TypeOK, Login, KeyValidated, NoLastFm, AskUser, AskSession, SessionGranted,
       NotYetGranted, AskAgain, LoginCancelled, LoggedInOrNot, Escape, login
  <1>3. escaped' \in BOOLEAN
    BY DEF IInv, TypeOK, Login, KeyValidated, NoLastFm, AskUser, AskSession, SessionGranted,
       NotYetGranted, AskAgain, LoginCancelled, LoggedInOrNot, Escape, login
  <1>4. tries' \in 0..LoginTries /\ TriesLeft'
    <2>1. /\ tries \in Nat /\ tries <= LoginTries /\ LoginTries \in Nat
          /\ tries = LoginTries => escaped
          /\ ui \in {"calling", "waiting"} => tries < LoginTries
      BY ConstantFacts DEF IInv, TypeOK, TriesLeft
    <2>2. CASE AskAgain
      <3>1. ui = "waiting" /\ ui' = "asking" /\ tries' = tries + 1
        BY <2>2 DEF AskAgain
      <3>2. tries' \in 0..LoginTries
        BY <2>1, <3>1
      <3>3. tries' = LoginTries => escaped'
        BY <2>2, Zenon DEF AskAgain
      <3> QED
        BY <3>1, <3>2, <3>3 DEF TriesLeft
    <2>3. CASE AskSession
      BY <2>1, <2>3 DEF AskSession, TriesLeft, login
    <2>4. CASE KeyValidated \/ NoLastFm \/ SessionGranted \/ LoginCancelled
      BY <2>1, <2>4 DEF KeyValidated, NoLastFm, SessionGranted, LoginCancelled, LoggedInOrNot,
         TriesLeft
    <2>5. CASE AskUser \/ NotYetGranted
      BY <2>1, <2>5 DEF AskUser, NotYetGranted, TriesLeft, login
    <2>6. CASE Escape
      BY <2>1, <2>6 DEF Escape, TriesLeft
    <2> QED
      BY <2>2, <2>3, <2>4, <2>5, <2>6 DEF Login
  <1> QED
    BY <1>1, <1>2, <1>3, <1>4 DEF IInv, TypeOK, UiSteps, Joined, NotStarted, TipOnItsWay, ReturnKeepsLogin,
       tooltip, refresh

(* Asking for the end only wakes the poll thread and posts messages.       *)
LEMMA QuitStep == IInv /\ (ChooseExit \/ Interrupt \/ InterruptQuits) => IInv'
  <1> SUFFICES ASSUME IInv, ChooseExit \/ Interrupt \/ InterruptQuits PROVE IInv'
    OBVIOUS
  <1>1. /\ UNCHANGED <<ui, tray, window, login, graceUsed, slept, tooltip, outcome, refresh>>
        /\ ui # "ended"
        /\ running' = running \/ running' = FALSE
        /\ poll' = poll \/ (poll = "blocked" /\ poll' = "woken")
        /\ posted' = posted \/ posted' = posted \union {"close"}
        /\ console' \in {"none", "called", "returned"}
    BY DEF ChooseExit, Interrupt, InterruptQuits, Stop, PostClose, IInv, TypeOK
  <1>2. running' \in BOOLEAN
    <2>1. running \in BOOLEAN
      BY DEF IInv, TypeOK
    <2> QED
      BY <1>1, <2>1, Zenon
  <1>3. poll' \in PollSteps /\ posted' \subseteq {"close", "tip"}
    BY <1>1 DEF IInv, TypeOK, PollSteps
  <1>4. TypeOK'
    BY <1>1, <1>2, <1>3 DEF IInv, TypeOK, login, tooltip, refresh
  <1>5. Joined' /\ NotStarted' /\ TriesLeft' /\ TipOnItsWay' /\ ReturnKeepsLogin'
    BY <1>1 DEF IInv, TypeOK, Joined, NotStarted, TriesLeft, TipOnItsWay, ReturnKeepsLogin, login, tooltip, refresh
  <1> QED
    BY <1>4, <1>5 DEF IInv

(* The UI thread from the tray on; nothing is torn down before the poll    *)
(* thread is done.                                                         *)
LEMMA UiStep ==
  ASSUME IInv, StartRefresher \/ CreateTray \/ PublishTray \/ StartPolling \/ DispatchTip
               \/ DispatchClose \/ SignalWorker \/ WorkerFinished \/ TearDown \/ VaultRefuses
               \/ StopRefresher \/ JoinRefresher \/ ForceExit
  PROVE  IInv'
  <1>1. CASE CreateTray
    <2>1. window' \in BOOLEAN
      BY <1>1, Zenon DEF CreateTray
    <2>2. shownTip = pendingTip /\ poll = "none"
      BY <1>1 DEF CreateTray, IInv, NotStarted
    <2> QED
      BY <1>1, <2>1, <2>2 DEF CreateTray, IInv, TypeOK, UiSteps, Joined, NotStarted, TriesLeft, TipOnItsWay,
         ReturnKeepsLogin, login, tooltip, refresh
  <1>8. CASE PublishTray
    <2>1. tray' \in BOOLEAN
      BY <1>8, Zenon DEF PublishTray
    <2> QED
      BY <1>8, <2>1 DEF PublishTray, IInv, TypeOK, Joined, NotStarted, TriesLeft, TipOnItsWay,
         ReturnKeepsLogin, login, tooltip, refresh
  <1>9. CASE StartRefresher
    BY <1>9 DEF StartRefresher, IInv, TypeOK, Joined, NotStarted, TriesLeft, TipOnItsWay,
       ReturnKeepsLogin, login, tooltip
  <1>10. CASE StopRefresher
    <2>1. refreshing' \in BOOLEAN
      BY <1>10, Zenon DEF StopRefresher
    <2> QED
      BY <1>10, <2>1 DEF StopRefresher, IInv, TypeOK, Joined, NotStarted, TriesLeft, TipOnItsWay,
         ReturnKeepsLogin, login, tooltip
  <1>11. CASE JoinRefresher
    BY <1>11 DEF JoinRefresher, IInv, TypeOK, UiSteps, Joined, NotStarted, TriesLeft, TipOnItsWay,
       ReturnKeepsLogin, login, tooltip, refresh
  <1>0. CASE StartPolling
    <2>1. /\ UNCHANGED <<running, tray, window, posted, tries, escaped, authed, stored, graceUsed,
                         slept, tip, pendingTip, shownTip, console, outcome,
                         refreshing, refresher>>
          /\ ui = "created" /\ ui' = "looping" /\ poll' = "testing"
      BY <1>0 DEF StartPolling, login, tooltip, refresh
    <2>2. TypeOK'
      BY <2>1 DEF IInv, TypeOK, UiSteps, PollSteps
    <2>3. Joined' /\ NotStarted' /\ TriesLeft' /\ TipOnItsWay' /\ ReturnKeepsLogin'
      BY <2>1 DEF IInv, TypeOK, Joined, NotStarted, TriesLeft, TipOnItsWay, ReturnKeepsLogin
    <2> QED
      BY <2>2, <2>3 DEF IInv
  <1>2. CASE DispatchTip
    BY <1>2 DEF DispatchTip, IInv, TypeOK, Joined, NotStarted, TriesLeft, TipOnItsWay, ReturnKeepsLogin, login, refresh
  <1>3. CASE DispatchClose
    <2>1. TypeOK'
      BY <1>3 DEF DispatchClose, IInv, TypeOK, UiSteps, login, tooltip, refresh
    <2>2. Joined' /\ NotStarted' /\ TriesLeft'
      BY <1>3 DEF DispatchClose, IInv, Joined, NotStarted, TriesLeft, login, tooltip
    <2>3. TipOnItsWay' /\ ReturnKeepsLogin'
      BY <1>3 DEF DispatchClose, IInv, TipOnItsWay, ReturnKeepsLogin, login
    <2> QED
      BY <2>1, <2>2, <2>3 DEF IInv
  <1>4. CASE SignalWorker
    <2>1. /\ UNCHANGED <<window, posted, tries, escaped, authed, stored, graceUsed, slept, tip,
                         pendingTip, shownTip, console, outcome, refreshing, refresher>>
          /\ ui = "left" /\ ui' = "grace"
          /\ poll' = poll \/ (poll = "blocked" /\ poll' = "woken")
      BY <1>4 DEF SignalWorker, Stop, login, tooltip, refresh
    <2>2. running' \in BOOLEAN /\ tray' \in BOOLEAN
      BY <1>4 DEF SignalWorker, Stop
    <2>3. TypeOK'
      BY <2>1, <2>2 DEF IInv, TypeOK, UiSteps, PollSteps
    <2>4. Joined' /\ NotStarted' /\ TriesLeft' /\ TipOnItsWay' /\ ReturnKeepsLogin'
      BY <2>1 DEF IInv, TypeOK, Joined, NotStarted, TriesLeft, TipOnItsWay, ReturnKeepsLogin
    <2> QED
      BY <2>3, <2>4 DEF IInv
  <1>5. CASE WorkerFinished
    BY <1>5 DEF WorkerFinished, IInv, TypeOK, UiSteps, Joined, NotStarted, TriesLeft, TipOnItsWay,
       ReturnKeepsLogin, login, tooltip, refresh
  <1>6. CASE TearDown
    <2>1. stored' \in BOOLEAN /\ (authed => stored')
      BY <1>6 DEF TearDown, IInv, TypeOK
    <2> QED
      BY <1>6, <2>1 DEF TearDown, IInv, TypeOK, UiSteps, Joined, NotStarted, TriesLeft, TipOnItsWay,
         ReturnKeepsLogin, tooltip, refresh
  <1>7. CASE ForceExit
    BY <1>7 DEF ForceExit, IInv, TypeOK, UiSteps, Joined, NotStarted, TriesLeft, TipOnItsWay,
       ReturnKeepsLogin, login, tooltip, refresh
  <1>12. CASE VaultRefuses
    BY <1>12 DEF VaultRefuses, IInv, TypeOK, UiSteps, Joined, NotStarted, TriesLeft, TipOnItsWay,
       ReturnKeepsLogin, login, tooltip, refresh
  <1> QED
    BY <1>0, <1>1, <1>2, <1>3, <1>4, <1>5, <1>6, <1>7, <1>8, <1>9, <1>10, <1>11, <1>12

(* The poll thread changes the tooltip and posts it in the next step.      *)
LEMMA PollThreadStep == IInv /\ (PollThread \/ CycleEnds \/ CycleThrows) => IInv'
  <1> SUFFICES ASSUME IInv, PollThread \/ CycleEnds \/ CycleThrows PROVE IInv'
    OBVIOUS
  <1> USE DEF PollStep, login, tooltip, refresh
  <1>1. CASE TestRunning \/ TestBeforeSleep \/ Wake \/ TimeOut
    <2>1. /\ UNCHANGED <<ui, running, tray, window, posted, tries, escaped, authed, stored,
                         graceUsed, slept, tip, pendingTip, shownTip, console, outcome,
                         refreshing, refresher>>
          /\ ui # "ended" /\ poll \notin {"none", "posting", "done"}
          /\ poll' \in {"cycle", "done", "blocking", "testing", "blocked"}
      BY <1>1 DEF TestRunning, TestBeforeSleep, Wake, TimeOut
    <2>2. TypeOK'
      BY <2>1 DEF IInv, TypeOK, PollSteps
    <2>3. Joined' /\ NotStarted' /\ TriesLeft' /\ TipOnItsWay' /\ ReturnKeepsLogin'
      BY <2>1 DEF IInv, TypeOK, Joined, NotStarted, TriesLeft, TipOnItsWay, ReturnKeepsLogin
    <2> QED
      BY <2>2, <2>3 DEF IInv
  <1>2. CASE Block
    BY <1>2, ConstantFacts DEF Block, IInv, TypeOK, UiSteps, PollSteps, Joined, NotStarted, TriesLeft,
       TipOnItsWay, ReturnKeepsLogin
  <1>3. CASE CycleEnds
    BY <1>3, ConstantFacts DEF CycleEnds, IInv, TypeOK, UiSteps, PollSteps, Joined, NotStarted, TriesLeft,
       TipOnItsWay, ReturnKeepsLogin
  <1>4. CASE SetTooltip
    BY <1>4 DEF SetTooltip, IInv, TypeOK, UiSteps, PollSteps, Joined, NotStarted, TriesLeft,
       TipOnItsWay, ReturnKeepsLogin
  <1>5. CASE PostTip
    BY <1>5 DEF PostTip, IInv, TypeOK, UiSteps, PollSteps, Joined, NotStarted, TriesLeft,
       TipOnItsWay, ReturnKeepsLogin
  <1>6. CASE CycleThrows
    BY <1>6 DEF CycleThrows, IInv, TypeOK, UiSteps, Joined, NotStarted, TriesLeft, TipOnItsWay,
       ReturnKeepsLogin
  <1> QED
    BY <1>1, <1>2, <1>3, <1>4, <1>5, <1>6 DEF PollThread

LEMMA RefreshStep == IInv /\ RefreshLoop => IInv'
  BY DEF RefreshLoop, IInv, TypeOK, Joined, NotStarted, TriesLeft, TipOnItsWay, ReturnKeepsLogin, login,
     tooltip

LEMMA SecondStep == IInv /\ Second => IInv'
  <1> SUFFICES ASSUME IInv, Second PROVE IInv'
    OBVIOUS
  <1>1. slept' \in 0..CycleSleep /\ graceUsed' \in 0..Grace
    BY ConstantFacts DEF Second, IInv, TypeOK
  <1> QED
    BY <1>1 DEF Second, IInv, TypeOK, Joined, NotStarted, TriesLeft, TipOnItsWay, ReturnKeepsLogin, login,
       tooltip, refresh

LEMMA Invariance == Spec => []IInv
  <1>1. IInv /\ UNCHANGED vars => IInv'
    BY DEF vars, login, tooltip, refresh, IInv, TypeOK, Joined, NotStarted, TriesLeft, TipOnItsWay, ReturnKeepsLogin
  <1>2. IInv /\ [Next]_vars => IInv'
    BY <1>1, LoginStep, QuitStep, UiStep, PollThreadStep, RefreshStep, SecondStep DEF Next, UiThread
  <1> QED
    BY <1>2, InvInit, PTL DEF Spec

(* Every variable keeps its type, and WinMain returns only once its poll   *)
(* thread is done.                                                         *)
THEOREM LifecycleTypes == Spec => []TypeOK
  <1>1. IInv => TypeOK
    BY DEF IInv
  <1> QED
    BY <1>1, Invariance, PTL

(* While the window lives, the tooltip last set is shown or on its way.    *)
THEOREM NoTipLost == Spec => []TipOnItsWay
  <1>1. IInv => TipOnItsWay
    BY DEF IInv
  <1> QED
    BY <1>1, Invariance, PTL

(* A return from WinMain, unlike a forced exit, keeps the session key.     *)
THEOREM LoginKept == Spec => []ReturnKeepsLogin
  <1>1. IInv => ReturnKeepsLogin
    BY DEF IInv
  <1> QED
    BY <1>1, Invariance, PTL
=============================================================================
