----------------------------- MODULE Lifecycle ------------------------------
(***************************************************************************)
(* src/main.cpp: how the program starts, runs and ends.  The UI thread     *)
(* logs in to Last.fm (LastFm's constructor and authenticateUser), creates *)
(* the tray, starts the poll thread, pumps the tray's messages until it is *)
(* asked to quit, and gives the poll thread a grace period before it       *)
(* either tears everything down or leaves with std::_Exit.  The poll       *)
(* thread hands its tooltip to the UI thread and sleeps on a condition     *)
(* variable; in debug builds a console handler may ask for the end on a    *)
(* thread of its own, whatever the others are doing.  Discord's callbacks  *)
(* run on one more thread, which a static's destructor stops and joins     *)
(* after WinMain has returned.                                             *)
(*                                                                         *)
(* Time passes, in seconds, while the poll thread sleeps or works and      *)
(* while the UI thread waits; the steps between take none.                 *)
(*                                                                         *)
(* Abstracted: what a cycle does, any of which may block for good          *)
(* (Orchestrator models it); a tooltip is a member of Tips; the stores to  *)
(* running and the notify_all after them are one step, since a waiter      *)
(* between the two either sees the flag or is woken.                       *)
(***************************************************************************)
EXTENDS Naturals

CONSTANTS
  Tips,        \* texts of the tooltip
  NoTip,       \* the tooltip of a new tray
  CycleSleep,  \* the poll thread's sleep, 5 s
  Grace,       \* kShutdownGrace, 2 s
  LoginTries,  \* times getNewSession is asked, one each 5 s for 5 minutes
  Debug        \* the build has a console and its handler

ASSUME TipAssumption == NoTip \notin Tips
ASSUME TimesAssumption == CycleSleep \in Nat /\ Grace \in Nat /\ LoginTries \in Nat \ {0}
ASSUME DebugAssumption == Debug \in BOOLEAN

VARIABLES
  ui,          \* where the UI thread is
  running,     \* the atomic flag
  tray,        \* g_tray is set
  window,      \* the tray's window is alive
  posted,      \* messages posted to it and not dispatched
  tries,       \* getNewSession calls made so far
  escaped,     \* authenticateUser's cancelled flag
  authed,      \* LastFm::_authenticated
  stored,      \* the credential store holds a session key
  graceUsed,   \* how long the UI thread has waited for the poll thread
  poll,        \* where the poll thread is
  slept,       \* how long it has slept
  tip,         \* the tooltip it is about to set
  pendingTip,  \* Tray::Impl::pendingTip
  shownTip,    \* what the icon shows
  refreshing,  \* DiscordRefresher::running
  refresher,   \* where the Discord callbacks thread is
  console,     \* the console handler: "none", "called", "returned"
  outcome      \* how the process ended: "none", "returned", "forced", "terminated"

login == <<tries, escaped, authed, stored>>
tooltip == <<tip, pendingTip, shownTip>>
refresh == <<refreshing, refresher>>
vars == <<ui, running, tray, window, posted, login, graceUsed, poll, slept, tooltip,
          console, outcome, refresh>>

UiSteps == {"starting", "asking", "calling", "waiting", "ready", "created", "looping", "left",
            "grace", "joining", "exiting", "ended"}
PollSteps == {"none", "testing", "cycle", "telling", "posting", "locking", "blocking",
              "blocked", "woken", "done"}
TipOrNone == Tips \union {NoTip}

(* The poll thread is there from "looping" on, and gone once it is joined; *)
(* no thread runs on when the process returns.                             *)
TypeOK ==
  /\ ui \in UiSteps
  /\ running \in BOOLEAN
  /\ tray \in BOOLEAN
  /\ window \in BOOLEAN
  /\ posted \subseteq {"close", "tip"}
  /\ tries \in 0..LoginTries
  /\ escaped \in BOOLEAN
  /\ authed \in BOOLEAN
  /\ stored \in BOOLEAN
  /\ graceUsed \in 0..Grace
  /\ poll \in PollSteps
  /\ slept \in 0..CycleSleep
  /\ tip \in TipOrNone
  /\ pendingTip \in TipOrNone
  /\ shownTip \in TipOrNone
  /\ console \in {"none", "called", "returned"}
  /\ outcome \in {"none", "returned", "forced", "terminated"}
  /\ refreshing \in BOOLEAN
  /\ refresher \in {"none", "testing", "calling", "done"}
  /\ ui = "ended" <=> outcome # "none"
  /\ outcome = "returned" => poll = "done" /\ refresher = "done"

Init ==
  /\ ui = "starting"
  /\ running = TRUE
  /\ tray = FALSE
  /\ window = FALSE
  /\ posted = {}
  /\ tries = 0
  /\ escaped = FALSE
  /\ authed = FALSE
  /\ stored \in BOOLEAN
  /\ graceUsed = 0
  /\ poll = "none"
  /\ slept = 0
  /\ tip = NoTip
  /\ pendingTip = NoTip
  /\ shownTip = NoTip
  /\ refreshing = TRUE
  /\ refresher = "none"
  /\ console = "none"
  /\ outcome = "none"

-----------------------------------------------------------------------------
(* Logging in.                                                             *)

LoggedInOrNot(b) ==
  /\ ui' = "ready"
  /\ authed' = b
  /\ UNCHANGED <<running, tray, window, posted, tries, stored, graceUsed, poll, slept,
                 tooltip, console, outcome, refresh>>

(* LastFm::LastFm: a stored key that user.getInfo answers for.             *)
KeyValidated ==
  /\ ui = "starting"
  /\ stored
  /\ UNCHANGED escaped
  /\ LoggedInOrNot(TRUE)

(* No key, or one that could not be validated; authenticateUser may fail   *)
(* to get a token, too.                                                    *)
NoLastFm ==
  /\ ui = "starting"
  /\ UNCHANGED escaped
  /\ LoggedInOrNot(FALSE)

AskUser ==
  /\ ui = "starting"
  /\ ui' = "asking"
  /\ UNCHANGED <<running, tray, window, posted, login, graceUsed, poll, slept, tooltip,
                 console, outcome, refresh>>

(* The watcher thread saw Esc, which a call already made does not heed.    *)
Escape ==
  /\ ui \in {"asking", "calling", "waiting"}
  /\ escaped' = TRUE
  /\ UNCHANGED <<ui, running, tray, window, posted, tries, authed, stored, graceUsed, poll,
                 slept, tooltip, console, outcome, refresh>>

AskSession ==
  /\ ui = "asking"
  /\ ~escaped
  /\ ui' = "calling"
  /\ UNCHANGED <<running, tray, window, posted, login, graceUsed, poll, slept, tooltip,
                 console, outcome, refresh>>

SessionGranted ==
  /\ ui = "calling"
  /\ UNCHANGED escaped
  /\ LoggedInOrNot(TRUE)

NotYetGranted ==
  /\ ui = "calling"
  /\ ui' = "waiting"
  /\ UNCHANGED <<running, tray, window, posted, login, graceUsed, poll, slept, tooltip,
                 console, outcome, refresh>>

(* Five seconds later: give up after five minutes, or ask again.           *)
BadAskAgain ==                       \* never gives up
  /\ ui = "waiting"
  /\ ui' = "asking"
  /\ UNCHANGED <<running, tray, window, posted, login, graceUsed, poll, slept, tooltip,
                 console, outcome, refresh>>

AskAgain ==
  /\ ui = "waiting"
  /\ ui' = "asking"
  /\ tries' = tries + 1
  /\ escaped' = (escaped \/ tries' = LoginTries)
  /\ UNCHANGED <<running, tray, window, posted, authed, stored, graceUsed, poll, slept,
                 tooltip, console, outcome, refresh>>

LoginCancelled ==
  /\ ui = "asking"
  /\ escaped
  /\ UNCHANGED escaped
  /\ LoggedInOrNot(FALSE)

Login == KeyValidated \/ NoLastFm \/ AskUser \/ AskSession \/ SessionGranted \/ NotYetGranted \/ AskAgain
         \/ LoginCancelled

-----------------------------------------------------------------------------
(* Asking for the end.  Faulty variants, used only to show that a property *)
(* can fail, are named Bad... and stand before what they would replace.    *)

(* running.store(false); sleep_cv.notify_all()                             *)
Stop ==
  /\ running' = FALSE
  /\ poll' = IF poll = "blocked" THEN "woken" ELSE poll

(* Tray::requestQuit: PostMessage to a window that may be gone.            *)
PostClose == posted' = IF window THEN posted \union {"close"} ELSE posted

(* The tray's menu, on the UI thread.                                      *)
ChooseExit ==
  /\ ui = "looping"
  /\ window
  /\ Stop
  /\ PostClose
  /\ UNCHANGED <<ui, tray, window, login, graceUsed, slept, tooltip, console, outcome, refresh>>

(* consoleCtrlHandler: the flag first, then the tray, if there is one yet. *)
Interrupt ==
  /\ Debug
  /\ console = "none"
  /\ ui # "ended"
  /\ Stop
  /\ console' = "called"
  /\ UNCHANGED <<ui, tray, window, posted, login, graceUsed, slept, tooltip, outcome, refresh>>

InterruptQuits ==
  /\ console = "called"
  /\ ui # "ended"
  /\ IF tray THEN PostClose ELSE UNCHANGED posted
  /\ console' = "returned"
  /\ UNCHANGED <<ui, running, tray, window, login, graceUsed, poll, slept, tooltip, outcome, refresh>>

-----------------------------------------------------------------------------
(* The UI thread from the tray on.                                         *)

(* RichPresence's constructor starts the one Discord callbacks thread.     *)
StartRefresher ==
  /\ ui = "ready"
  /\ refresher = "none"
  /\ refresher' = "testing"
  /\ UNCHANGED <<ui, running, tray, window, posted, login, graceUsed, poll, slept, tooltip,
                 console, outcome, refreshing>>

(* Tray::Impl::Impl: without a window there is no icon and no menu.        *)
CreateTray ==
  /\ ui = "ready"
  /\ refresher # "none"
  /\ ui' = "created"
  /\ window' \in BOOLEAN
  /\ UNCHANGED <<running, tray, posted, login, graceUsed, poll, slept, tooltip, console,
                 outcome, refresh>>

PublishTray ==
  /\ ui = "created"
  /\ ~tray
  /\ tray' = TRUE
  /\ UNCHANGED <<ui, running, window, posted, login, graceUsed, poll, slept, tooltip, console,
                 outcome, refresh>>

StartPolling ==
  /\ ui = "created"
  /\ tray
  /\ ui' = "looping"
  /\ poll' = "testing"
  /\ UNCHANGED <<running, tray, window, posted, login, graceUsed, slept, tooltip, console,
                 outcome, refresh>>

(* Tray::Impl::applyPendingTooltip *)
DispatchTip ==
  /\ ui = "looping"
  /\ "tip" \in posted
  /\ posted' = posted \ {"tip"}
  /\ shownTip' = pendingTip
  /\ UNCHANGED <<ui, running, tray, window, login, graceUsed, poll, slept, tip, pendingTip,
                 console, outcome, refresh>>

(* WM_CLOSE destroys the window, whose WM_DESTROY ends the message loop.   *)
BadDispatchClose ==                  \* without PostQuitMessage
  /\ ui = "looping"
  /\ "close" \in posted
  /\ window' = FALSE
  /\ posted' = {}
  /\ UNCHANGED <<ui, running, tray, login, graceUsed, poll, slept, tooltip, console, outcome, refresh>>

DispatchClose ==
  /\ ui = "looping"
  /\ "close" \in posted
  /\ window' = FALSE
  /\ posted' = {}
  /\ ui' = "left"
  /\ UNCHANGED <<running, tray, login, graceUsed, poll, slept, tooltip, console, outcome, refresh>>

SignalWorker ==
  /\ ui = "left"
  /\ Stop
  /\ ui' = "grace"
  /\ tray' = FALSE
  /\ UNCHANGED <<window, posted, login, graceUsed, slept, tooltip, console, outcome, refresh>>

(* workerFinished is ready within the grace period: WinMain returns, and   *)
(* its locals go in reverse order: the poll thread is joined, then the     *)
(* orchestrator's driver waits for its worker, and with it goes LastFm.    *)
BadWorkerFinished ==                 \* whatever wait_for said
  /\ ui = "grace"
  /\ ui' = "joining"
  /\ UNCHANGED <<running, tray, window, posted, login, graceUsed, poll, slept, tooltip,
                 console, outcome, refresh>>

WorkerFinished ==
  /\ ui = "grace"
  /\ poll = "done"
  /\ ui' = "joining"
  /\ UNCHANGED <<running, tray, window, posted, login, graceUsed, poll, slept, tooltip,
                 console, outcome, refresh>>

TearDown ==
  /\ ui = "joining"
  /\ ui' = "exiting"
  /\ stored' = (stored \/ authed)
  /\ UNCHANGED <<running, tray, window, posted, tries, escaped, authed, graceUsed, poll,
                 slept, tooltip, console, outcome, refresh>>

(* ~LastFm: if the vault refuses the key, writeCredential throws, and what *)
(* leaves a destructor ends the program.                                   *)
VaultRefuses ==
  /\ ui = "joining"
  /\ authed
  /\ ui' = "ended"
  /\ outcome' = "terminated"
  /\ UNCHANGED <<running, tray, window, posted, login, graceUsed, poll, slept, tooltip,
                 console, refresh>>

(* DiscordRefresher's destructor, after WinMain: stop, then join.          *)
StopRefresher ==
  /\ ui = "exiting"
  /\ refreshing
  /\ refreshing' = FALSE
  /\ UNCHANGED <<ui, running, tray, window, posted, login, graceUsed, poll, slept, tooltip,
                 console, outcome, refresher>>

JoinRefresher ==
  /\ ui = "exiting"
  /\ ~refreshing
  /\ refresher = "done"
  /\ ui' = "ended"
  /\ outcome' = "returned"
  /\ UNCHANGED <<running, tray, window, posted, login, graceUsed, poll, slept, tooltip,
                 console, refresh>>

ForceExit ==
  /\ ui = "grace"
  /\ poll # "done"
  /\ graceUsed = Grace
  /\ ui' = "ended"
  /\ outcome' = "forced"
  /\ UNCHANGED <<running, tray, window, posted, login, graceUsed, poll, slept, tooltip,
                 console, refresh>>

UiThread == Login \/ StartRefresher \/ CreateTray \/ PublishTray \/ StartPolling
            \/ DispatchTip \/ DispatchClose \/ SignalWorker \/ WorkerFinished \/ TearDown
            \/ VaultRefuses \/ StopRefresher \/ JoinRefresher \/ ForceExit

(* DiscordRefresher::loop: whatever RunCallbacks throws is caught.         *)
RefreshLoop ==
  /\ ui # "ended"
  /\ \/ refresher = "testing" /\ refresher' = IF refreshing THEN "calling" ELSE "done"
     \/ refresher = "calling" /\ refresher' = "testing"
  /\ UNCHANGED <<ui, running, tray, window, posted, login, graceUsed, poll, slept, tooltip,
                 console, outcome, refreshing>>

-----------------------------------------------------------------------------
(* The poll thread.                                                        *)

PollStep(from, to) ==
  /\ ui # "ended"
  /\ poll = from
  /\ poll' = to
  /\ UNCHANGED <<ui, running, tray, window, login, graceUsed, shownTip, console, outcome, refresh>>

TestRunning ==
  /\ PollStep("testing", IF running THEN "cycle" ELSE "done")
  /\ UNCHANGED <<slept, posted, tip, pendingTip>>

(* Orchestrator::run returned.                                             *)
CycleEnds ==
  /\ PollStep("cycle", IF running THEN "telling" ELSE "done")
  /\ tip' \in Tips
  /\ UNCHANGED <<slept, posted, pendingTip>>

(* Orchestrator::run threw: nothing on the thread catches it.              *)
CycleThrows ==
  /\ ui # "ended"
  /\ poll = "cycle"
  /\ ui' = "ended"
  /\ outcome' = "terminated"
  /\ UNCHANGED <<running, tray, window, posted, login, graceUsed, poll, slept, tooltip,
                 console, refresh>>

(* Tray::Impl::setTooltip: nothing to post if the text is the same.        *)
SetTooltip ==
  /\ PollStep("telling", IF tip = pendingTip THEN "locking" ELSE "posting")
  /\ pendingTip' = tip
  /\ UNCHANGED <<slept, posted, tip>>

BadPostTip ==                        \* never posts
  /\ PollStep("posting", "locking")
  /\ UNCHANGED <<slept, posted, tip, pendingTip>>

PostTip ==
  /\ PollStep("posting", "locking")
  /\ posted' = IF window THEN posted \union {"tip"} ELSE posted
  /\ UNCHANGED <<slept, tip, pendingTip>>

(* wait_for tests its predicate before it blocks, and when it is woken.    *)
TestBeforeSleep ==
  /\ PollStep("locking", IF running THEN "blocking" ELSE "testing")
  /\ UNCHANGED <<slept, posted, tip, pendingTip>>

Block ==
  /\ PollStep("blocking", "blocked")
  /\ slept' = 0
  /\ UNCHANGED <<posted, tip, pendingTip>>

Wake ==
  /\ PollStep("woken", IF running THEN "blocked" ELSE "testing")
  /\ UNCHANGED <<slept, posted, tip, pendingTip>>

TimeOut ==
  /\ slept = CycleSleep
  /\ PollStep("blocked", "testing")
  /\ UNCHANGED <<slept, posted, tip, pendingTip>>

PollThread == TestRunning \/ SetTooltip \/ PostTip \/ TestBeforeSleep \/ Block \/ Wake \/ TimeOut

(* A second goes by.  No thread is between two steps meanwhile, and no     *)
(* deadline is passed over.                                                *)
Second ==
  /\ ui \in {"looping", "grace"}
  /\ ui = "looping" => posted = {}
  /\ ui = "grace" => poll # "done" /\ graceUsed < Grace
  /\ poll \in {"cycle", "blocked", "done"}
  /\ poll = "blocked" => slept < CycleSleep
  /\ console # "called"
  /\ slept' = IF poll = "blocked" THEN slept + 1 ELSE slept
  /\ graceUsed' = IF ui = "grace" THEN graceUsed + 1 ELSE graceUsed
  /\ UNCHANGED <<ui, running, tray, window, posted, login, poll, tooltip, console, outcome, refresh>>

-----------------------------------------------------------------------------
Next ==
  \/ UiThread \/ PollThread \/ RefreshLoop \/ CycleEnds \/ CycleThrows \/ Second
  \/ Escape \/ ChooseExit \/ Interrupt \/ InterruptQuits

Spec == Init /\ [][Next]_vars

(* Threads run and time passes; RunCallbacks returns.  A cycle need never  *)
(* end, the user need never do anything.                                   *)
FairSpec ==
  /\ Spec
  /\ WF_vars(UiThread) /\ WF_vars(PollThread) /\ WF_vars(Second) /\ WF_vars(InterruptQuits)
  /\ WF_vars(RefreshLoop)

-----------------------------------------------------------------------------
(* The tooltip the poll thread last set is the one shown, or a message on  *)
(* its way to the UI thread will show it.                                  *)
TipOnItsWay ==
  window => shownTip = pendingTip \/ "tip" \in posted \/ poll = "posting"

(* Whatever a cycle is blocked in, the process ends once the tray was told *)
(* to quit.                                                                *)
EndsOnceQuit == ("close" \in posted) ~> (ui = "ended")

(* The login comes to an end, granted or not, so that the tray appears.    *)
LoginSettles == (ui = "asking") ~> (ui = "looping" \/ ui = "ended")

(* A process that returned from WinMain has kept its session key.          *)
ReturnKeepsLogin == outcome = "returned" /\ authed => stored

(* "Interrupt received. Shutting down...": the program ends.               *)
InterruptEnds == (console = "called") ~> (ui = "ended")

(* "The message loop has ended: signal the worker and let it wind down": a *)
(* poll thread that only sleeps is not forced.                             *)
SleeperWindsDown ==
  [][ForceExit => poll # "blocked"]_vars
=============================================================================
