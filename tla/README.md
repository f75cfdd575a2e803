# Verification of musicpp

musicpp watches Apple Music on Windows, shows the song on Discord and scrobbles
it to Last.fm. This directory holds TLA+ models of the parts of it that carry
state between calls or run concurrently, the TLC configurations that check
them, and proofs in the TLA+ proof system. Paths below are relative to the
repository.

## 1. Inventory

### The program at a glance

Three kinds of threads matter:

- the **UI thread** (`WinMain`): logs in, creates the tray, pumps its messages,
  ends the process;
- the **poll thread** (a `jthread` in `WinMain`): every five seconds
  `Orchestrator::run`, then the tooltip, then a sleep on a condition variable;
- the **scrobble worker** (a `jthread` in `Worker`): makes the Last.fm calls
  the scrobble driver queues, so that a slow service does not hold up a poll.

A console handler thread (debug builds), the login's watcher thread and the
Discord callback thread come and go beside them.

```
 player --poll--> Orchestrator --enrich--> Enricher --> sources, uploader
                     |   |                    `--> MetadataCache (LevelDB)
                     |   `--setPresence--> RichPresence --> Discord
                     `--reset/tick--> ScrobbleDriver --jobs--> Worker --> LastFm
                                          ^---- results (mutex) ----'
```

### Components

| Component | State | Operations | What makes it correct |
|---|---|---|---|
| Worker (`orchestrator/worker`) | deque of jobs, mutex, condition variable, stop token | `submit`, `drain`, destructor | no wakeup lost, FIFO, nothing dropped or run twice, drains before it ends |
| ScrobbleDriver (`orchestrator/scrobble_driver`) | per scrobbler two slots (phase, attempts, deadline), the play's stop source, list of results | `registerScrobbler`, `tick`, `reset`, the queued job, destructor | a call is outstanding at most once; nothing of an old play touches the new one; a scrobble is accepted at most once and retried until it is; attempts limited |
| Scrobble rules (`scrobbleThresholdMet`, `LastFm::scrobble`) | the track's start stamp and the clock | the driver's threshold, the client's own gate | no scrobble before the play earned it; a play that earned it is not refused |
| Orchestrator (`orchestrator/orchestrator`) | current track, position at the last poll, pause stamp | `run` and its helpers | a restart is one, a repeat is a new play, one song per play, a pause keeps its start, the presence follows the player |
| Enricher (`metadata/enricher`) | locals of a call | `enrich` | fetches only what is missing, keeps what is fresh, one link for each platform |
| MetadataCache (`metadata/cache`, `cache_codec`) | image and link rows on disk | `open`, `findEntry`, `writeEntry`, `sweepExpired` | links never expire, images do, sweeping is invisible |
| Lifecycle (`main.cpp`) | `running`, `g_tray`, the threads | start, poll loop, menu, console handler, shutdown | the process ends when told to; nothing earned is lost on a regular end |
| Tray (`ui/tray`) | pending tip, window | `setTooltip`, message loop, `requestQuit` | the last tip set is shown |
| Last.fm login (`sources/lastfm`, `security/credentials`) | session key, `authed`, cancelled flag | constructor, `authenticateUser`, destructor | the login ends; the key survives |
| AmWin poller (`players/amwin`) | none | `poll` | title, timeline and status describe one instant (they may not) |
| Track timing (`types/track`) | start and end stamps | `current`, `total`, `remaining`, `start`, `end`, comparison | the parts add up, nothing overflows, a song played on compares equal to itself |
| RichPresence (`discord/rp`) | the SDK's client | `setPresence`, `clearPresence` | the bar on show runs with the song |
| Matching (`metadata/matching`) | none | `levenshteinDistance`, `fuzzyMatch` | the distance is the least number of edits; what is appended to a name is judged by a known limit |
| Scraper, Imgur, curl wrapper | none between calls | searches, upload, one call | link and image belong to the item that matched; a failed call is an empty result |
| DiscordRefresher (`discord/refresh.hpp`) | running flag, its thread | the loop around `RunCallbacks`, `stop` | the thread ends before the process returns |
| Notifications, logging, paths, WinRT | | | input and output |

`PROJECT.json` lists them with the modules that model them, and under
`hazards` every place where a test would hardly reach what can go wrong.

### What is hard here

*Concurrency*: slots are marked in flight on one thread and freed by results
from another; a play's token may be retired between a job's test and its call;
notifications are sent without their mutex. *Ordering*: results come back after
their play ended; a poll's four reads may straddle a song change. *Time*: a
position is a start stamp against a running clock, which also runs during
pauses and enrichments. *Failure*: a call's answer may be lost, a write may
fail unnoticed, the process may be forced out or killed, the machine may lose
power. *Ending*: a cycle may block for good, an interrupt may come at any time.

## 2. Plan

In order of importance:

1. `JobQueue` and `Worker`; `ScrobbleLedger` and `ScrobbleDriver`: the core.
2. `Orchestrator`, which decides when a play begins and what is shown of it.
3. `ScrobbleWindow`: the two rules about when a play counts.
4. `Lifecycle`: the threads' beginning and end.
5. `MetadataCache` and `Enricher`: what outlives the process.
6. `Search`, `Matching`, `CacheCodec`, `TrackTiming`: what a source's answer, a
   row's bytes and a player's timeline are turned into.
7. Proofs of each stateful module's safety, then of what the functions compute.

All are done to the extent described below. Composition is by refinement
where a component uses another: `ScrobbleDriver` is checked against `JobQueue`
(what `Worker` implements) and `ScrobbleLedger` (what services may observe);
`Orchestrator` keeps the calls it makes to the driver as `ticked` and
`newPlay`; `Enricher` extends `MetadataCache` and takes its operations as the
steps' effects, and takes the answers of its sources from `Search`.

Left for later, in this order:

- the orchestrator and the driver in one module, the real `tick` and `reset`
  taking the place of the history variable `ticked`;
- the lost answer of a scrobble together with a drifting start stamp;
- items within items on a page, the popup menu's own message loop, the way
  `amwin.cpp` takes artist and album apart.

## 3. Modules

| Module | Code | Kind |
|---|---|---|
| `JobQueue` | `Worker`'s interface | abstract specification |
| `Worker` | `worker.cpp` | implements `JobQueue` |
| `ScrobbleLedger` | what Last.fm may observe | abstract specification |
| `ScrobbleDriver` | `scrobble_driver.cpp` | implements `ScrobbleLedger` and `JobQueue` |
| `Orchestrator`, `MCOrchestrator` | `orchestrator.cpp`, `AmWin::poll`, the timestamps of `rp.cpp`, the toasts of `main.cpp` | |
| `TrackTiming` | `track.cpp`, `parseTimeline` in `amwin.cpp` | functions; `MCOrchestrator` extends it |
| `ScrobbleWindow` | threshold in `scrobble_driver.cpp`, gate in `lastfm.cpp`, `track.cpp` | |
| `Lifecycle` | `main.cpp`, `tray.cpp`, `refresh.hpp`, `credentials.cpp`, login in `lastfm.cpp` | |
| `MetadataTypes`, `MetadataCache`, `Enricher`, `MCEnricher` | `cache.cpp`, merging and expiry in `cache_codec.cpp`, `enricher.cpp` | |
| `Search` | `scraper.cpp`, `imgur.cpp`, the search in `lastfm.cpp`, outcomes of `curlWrapper.cpp` | functions; `Enricher` extends it |
| `Matching` | `matching.cpp` | functions |
| `CacheCodec` | bytes and keys in `cache_codec.cpp` | functions |
| `MCEnricherProofs` | theorems about `Search`, `Matching` and `CacheCodec`, and what `MCEnricher` states of them | proofs |
| other `...Proofs` | theorems about the module they are named after | proofs |

Definitions named `Bad...` are faulty variants of the definition after them.
Nothing uses them; putting one in the place of its definition makes a property
fail, which shows that the property can.

### Worker

One action for each step between which another thread can run: `submit` is
`SubmitLock`, `SubmitPush`, `SubmitNotify`, because it notifies after
unlocking; the interruptible wait is `NothingQueued`, then `Block` or
`DrainReturn`, as the standard defines it, with spurious wakeups. The
destructor is `RequestStop`, `StopCallback`, `Join`. The program submits from
one thread only; the class allows more, and so does the model. The history
variable `done` keeps the jobs that have returned, so that `OnePlacePerJob` can
say of every job, from before it is submitted until after it returned, that it
is in exactly one place.

### ScrobbleDriver

The poll thread's `tick` is one step that drains and applies the results
(nothing else it touches is shared) and then one step for each slot, so that the
worker may run between two submissions. The worker takes a job, looks at its
token (`BailOut` or `PassTokenTest`), begins the call and posts the result in
separate steps. The token is not looked at again, so a reset or the destructor
between test and call lets that one call through for a play that is over. A play
is a number, and its token is stopped once another play is current or the
destructor began. Deadlines are due, later or never: the length of the wait
matters to nothing here. A track is whether it is playing and whether it met the
threshold. The worker is represented by `JobQueue`'s steps, and
`ImplementsJobQueue` checks that the driver uses it as such.

`ScrobbleLedger` says what a service may observe. A call is decided upon
(`Choose`), made (`Ask`) and answered, one at a time. It is about the play that
was current when it was decided upon, which may be over by the time it is made;
a scrobble is decided upon only after the threshold was met and never again once
accepted. It knows of no queue and no results. `Choose` is the driver's token
test, so after a play has ended at most one more call is made for it.

### Orchestrator

The environment is a player and its user, who may act at any instant: seek,
pause, change or repeat a song, close the player. A poll reads the song
(`PollSong`) and, in a later step, its timeline and status (`ContinueSong`,
`StartEnriching`), because `AmWin::poll` asks for them in separate calls; a
player closed in between makes it throw (`PollThrows`), which ends the process.
Time passes while the thread sleeps and while a song is enriched. What the
driver is told is kept as the set of songs ticked since its last reset. Status
`Unknown` is treated like `Stopped` by this code.

What Discord is sent is the song, the kind of timestamps that `setTimeline`
chooses, and, for a bar, how far the clock is past its start stamp: `bar` grows
with the clock, so an enrichment that takes seconds must not leave it behind.
`Announces` is the comparison after which `main.cpp` shows a toast. Two timings
are equal when they began at the same instant; for a paused player the stamp is
derived again in every cycle from a position that stands still, so a paused song
never compares equal and is announced every cycle. `ToastMeansChange` therefore
speaks of a song that plays.

### TrackTiming

What the positions of `Orchestrator` stand on: a timing is a pair of stamps of
the steady clock, with the least and the greatest stamp for one never set, in
arithmetic of a fixed width. Wall time comes of reading both clocks anew at each
call, up to `Lag` apart, so two timings of one play differ by what the player's
position was off and by the lags, and truncation to seconds may turn that into
one second more. `TimingsAgree` says that the parts of a timing add up and that
nothing overflows, that two timings are equal as long as jitter and lag stay
within a second together, whatever the wall clock was set to, and that they
differ once the song moved by two seconds and a lag. A start that falls on the
very origin of the steady clock reads as one not set; the property says so.

### ScrobbleWindow

Time in real seconds. A position of *n* stands for any instant strictly between
*n* and *n*+1, so that `>=` half and `>` half, which the two rules use, are the
same comparison. A cycle that finds a new song (`PollNext`) enriches it before the
song is handed to its first tick (`NextPlay`): it was found anywhere in it, playing
or paused, and its `current()` has run on with the clock since, whatever the
player did. Later cycles poll the position anew. A job waits in the queue for up
to `QueueDelay`, while `current()` of the copy it holds runs on as well. `from`
keeps where the song was found. Nothing is sought while a song is polled: with
seeks a play may meet the threshold and lose it again, and neither rule speaks of it.

### Lifecycle

The UI thread, the poll thread and the console handler, each step by step, with
messages posted to the window and the grace period counted in seconds. A cycle
of the orchestrator may end, throw or never end. The stores to `running` and
the notification after them are one step: a waiter between the two either sees
the flag or is woken. The tray is created and published in two steps, between
which the console handler may run, and its window may fail to be created.
`LastFm`'s start, login and destructor belong here because they decide what the
UI thread waits for and what a forced exit loses; the destructor's write may be
refused by the credential vault, and what a destructor throws ends the program.
The Discord callbacks thread is started with the rich presence and joined by a
static's destructor after `WinMain` has returned, so a process has only returned
when both threads are gone. Its calls may throw, which the loop catches.

### MetadataCache and Enricher

A row of the cache is an image with the second it was written, and a set of
links. Order and bytes are abstracted: no property here depends on the order of
links, though `rp.cpp` shows the first two as buttons; a track is its key; a row
that cannot be parsed is `Malformed`. An image is represented by the second it
was supplied, which is what its age is measured from. A write changes the
open database at once and the disk at some later time, all in the order
written; a power failure takes the database back to the disk, the death of the
process does not. A write may also fail with nobody looking at its status.
An enrichment asks source by source, each taking time.
What a source may answer is not any image and any link, but what `Search` makes
of the answers a server can give.

Assumed: LevelDB reads back what it holds; while an enrichment runs the clock
only advances, and by no more than `Slowness`; between enrichments it may be set
to anything.

### Search, Matching and CacheCodec

Functions without state. `Search` goes from the outcome of one request (curl not
set up, failed, or an answer with a status code and a body) to what the caller
gets. A page is its items in document order, each with the parts it has or
lacks, and a mark where a new list begins: `findDescendantWithAttr` is handed a
node and goes on through that node's later siblings, so an item without a link
or image takes the one of a later item in its list. `FirstMatchTaken` states
what holds when no item lacks a part. `Matching` is the table of
`levenshteinDistance` as a function over pairs of lengths, and the reference it
is compared with is the definition of an edit distance by what is kept of two
texts, which mentions no table. `CacheCodec` writes and reads rows as sequences
of bytes; a number has `Width` bytes of base `Base`, so that every row up to a
length can be tried. Memory is `Room`, the longest list that can be reserved: a
count past it makes `parseUrlValue` throw (`Thrown`). `EntriesReadBack` says what
is read of rows as they were written, of rows cut short and of any bytes at all.

`MCEnricher` checks these for all bounded inputs, once, in the run of the module
that uses them; `MCEnricherProofs` proves them for inputs of any size.

## 4. Runs

Distinct states are those of the runs as configured.

| Run | Bounds | Shows |
|---|---|---|
| `worker` | 2 submitters, 3 jobs | `NoLostWakeup`, `OnePlacePerJob`, refinement of `JobQueue` with its liveness, `DestructorReturns` |
| `driver_safety` | 2 scrobblers, 2 attempts, 2 plays; 4.4 million states | `AskedOneThingAtATime`, `InFlightMeansOutstanding`, `AtMostOneScrobble`, `NowPlayingBudget`, refinement of `ScrobbleLedger` |
| `driver_live` | 1 scrobbler, 3 attempts, 3 plays, fair | `ScrobbleNeverForgotten`, `NowPlayingSettles`, refinement of `JobQueue` |
| `orchestrator` | 2 songs of 5 and 3 units, poll 2, enrichment 2, threshold 2; fair; timings of at most 6 ticks, 2 to the second, a lag of 1, 7 bits | `OneSongPerPlay`, `NoFalseRestart`, `RepeatIsNewPlay`, `PauseStampKept`, `PresenceIsTrue`, `ToastMeansChange`, `PresenceCatchesUp`; `TimingsAgree` |
| `orchestrator_repeat` | one song of 3 units | **fails**: `EveryRepeatIsNewPlay` |
| `window` | the code's seconds; songs of 30, 45, 61, 480 and 600 s, found at 0, 20, 235 and 290 s; enrichment 15, queue 10; 1.0 million states | `NotBeforeThreshold`, `FirstAskPasses`, `PlayedThroughIsScrobbled` |
| `window_rules` | one song of 600 s | **fails**: `ThresholdIsEnough` |
| `lifecycle` | 2 tips, sleep 5, grace 2, 3 login tries, debug build; fair; 84 thousand states | `TipOnItsWay`, `EndsOnceQuit`, `LoginSettles` |
| `lifecycle_interrupt` | the same | **fails**: `InterruptEnds` |
| `lifecycle_sleeper` | the same, release build | **fails**: `SleeperWindsDown` |
| `enricher` | 1 track, 2 sources, 2 urls, time to live 2, clock 0 to 7, slowness 1; pages of 2 items, texts of 4 letters out of 2 with a floor of 3, rows of 11 bytes, memory for 3 links | `OneLinkPerPlatform`, `StalenessBounded`, `LinksNeverExpire`, `SweepIsInvisible`, `FreshImageStands`; `VerdictsAreRight`, `FirstMatchTaken`, `EntriesReadBack` |
| `enricher_ttl` | the same, slowness 0 | **fails**: `TrustedForTtl` |

Each passing run also checks its module's type invariant, except `driver_live`,
whose module's is checked by `driver_safety`.

### Why the bounds are enough

- *Worker*: the wait has one waiter, so its races need one notifier in flight
  and one thread arriving; two submitters allow a notification that the thread
  has already outrun, three jobs allow an order to be wrong.
- *Driver*: a late result needs two plays; confusing targets needs two targets;
  the limit needs an attempt below it and one at it. Liveness needs a play
  after the one that leaves a call behind, and one more. The number of plays is
  the only bound that cuts behaviours off: after the last play no reset happens.
- *Orchestrator*: lengths on both sides of the one at which a repeat stops
  being seen; an enrichment as long as the threshold allows.
- *TrackTiming*: stamps on both sides of the origin and of now; songs and shifts
  of three seconds, one more than what must compare different; an even and an
  odd offset of the wall clock for truncation to fall on either side.
- *Window*: the code's own constants; lengths at and around each limit the two
  rules compare with. Songs are found at their start, in the first half of the
  short ones, 5 s before the limits of the long ones, so that an enrichment
  carries `current()` across them, and past the cap. The queue holds up to two
  calls of five seconds, one left over from the last play and a now-playing one.
- *Lifecycle*: the code's own sleep and grace; three tries stand for sixty, the
  last of them being the one that differs.
- *Enricher*: the clock runs past the age the bound on staleness allows with
  two sources; a third url would only be a third way to differ.
  The urls are symmetric: no temporal property distinguishes them, and no
  liveness is checked in this run.
- *Search, Matching, CacheCodec*: a link is borrowed from the next item, so two
  items show it; two texts of four letters pass through every case of a cell
  of the table, its borders included; two bytes of base three make lengths that
  run past the end of a row, and eleven bytes hold a count and two empty
  links, or one link of a character and another cut short. Memory for three
  links is more than any list written and less than a damaged count may say.
- The theorems below hold for every value of these constants.

### Fairness

`Worker`: a thread that can run does, and a job returns, because curl's calls
have time limits. Nobody need submit, destroy, or be woken spuriously.
`ScrobbleDriver`: the poll loop ticks until shutdown, the worker runs, time
passes; no service need ever accept and no track need change.
`Orchestrator`: the clock and the poll thread go on; the user owes nothing.
`Lifecycle`: the threads run and time passes; a cycle need never end, the user
need never choose anything, the login need never be granted; Discord's
`RunCallbacks` returns, as it only hands out what has arrived. No strong fairness
is assumed anywhere. Deadlock is checked where a stop would be a mistake, and
not where an idle worker rests, the driver has been destroyed or the process
has ended.

## 5. What the code does differently from what it says

1. **A repeat may not be noticed** (`orchestrator.cpp:30`): a restart is a fall
   of more than thirty seconds below the position of the last poll, and a song
   only a little longer than that may never be polled so far in, so its repeat
   is no restart, although `orchestrator.cpp:83` says the same track played again
   is a new play. `RepeatIsNewPlay` states the length from which it holds, and
   is proved.
2. **The two scrobble rules differ** (`lastfm.cpp:76`): above eight minutes the
   client refuses until half way what the driver's four-minute cap lets through,
   and under a minute until thirty seconds. The retries hide it unless the song
   is left in between. `FirstAskPasses` states where they agree, and is proved.
3. **An interrupt during the login does not end the program** (`main.cpp:50`):
   the handler finds no tray; the poll loop ends, the message loop never does.
   The same comes of a tray whose window could not be created (`tray.cpp:97`).
4. **A sleeping poll thread may be forced out** (`main.cpp:217`): the flag is
   stored and the condition notified without the mutex, so both notifications
   can fall between the test and the wait, and the sleep of five seconds is
   longer than the grace period of two. The forced exit runs no destructors.
5. **An image may be trusted past its time to live** (`enricher.cpp:78`): a new
   link writes the cached image back with the present stamp.
   `StalenessBounded` states what remains true: each source can do so once, so
   an image is let go after at most (time to live − 1 + slowness) for each
   source and once more; it is proved.

Met while modelling, and not a run of their own:

- `scraper.cpp:160` and `lastfm.cpp:349` hold artists to the ratio "to avoid
  pulling in "X" against "X Tribute"". The ratio accepts what is appended up to
  two thirds of the name, so " Tribute", eight characters, is only kept apart
  from names of less than twelve. `VerdictsAreRight` states the limit.
- `cache_codec.hpp:77` says that a url value is parsed so that it "stops cleanly at
  the first malformed entry rather than throwing". The count is reserved
  unchecked (`cache_codec.cpp:131`), and a damaged one may ask for more memory
  than there is: the model's `Thrown`. `NothingIsMadeUp` therefore allows the
  exception, and `CutRowsReadShort` says that a row which is only cut short never
  causes it, since its count is the one that was written.
- `cache_codec_test.cpp:49` calls a truncated image value "rejected rather than
  half-parsed". It is rejected if the cut is before the url. A cut inside the url
  is not noticed, since the url is whatever is left: a shorter url is read.
  `CutRowsReadShort` says exactly this, and is proved.
- `scrobble_driver.cpp:144` says that a scrobble "waits on playback, not the
  clock: the track must have been played far enough". While a new song is
  enriched its `current()` runs on with the clock (`track.cpp:15-23`), and the
  first tick has that position (`orchestrator.cpp:76`, `93-96`): a song found
  paused, or paused meanwhile, less than an enrichment (15 s) before its threshold
  is scrobbled without being played up to it. `NotBeforeThreshold` allows this
  much and no more.
- `scrobble_driver.cpp:166` looks at the play's token before the call and not
  again: one call may begin for a play that has just ended, also after the
  destructor began (line 19 speaks of attempts in the queue only).
  `ImplementsLedger` allows this one.
- `orchestrator.cpp` keeps a paused song's position while its start stamp is
  derived anew each cycle, so it is announced with a toast in every cycle.
- `amwin.cpp:55` calls the ends of a timeline nanoseconds since the unix epoch;
  they are readings of the steady clock, as `track.hpp` says of what is set.
- `discordStringBounds` in `rp.cpp` promises 2 to 128 characters, but trims
  texts longer than 128 without looking at what is left, and counts bytes.

## 6. Theorems

`PROJECT.json` lists 44 theorems in eight modules. Every proof is checked by
TLAPS down to its leaves, for all values of the constants that satisfy the
modules' `ASSUME`s. Most of those say that limits are natural numbers and that
names for "nothing" are not values. The others:

- `Orchestrator`: enriching a song takes no longer than the restart threshold
  (two sources and one uploader of five seconds each against thirty);
- `ScrobbleWindow`, `DelaysAssumption`: an attempt that is due reaches the
  service within thirty seconds, half of the shortest song `PlayedThrough`
  speaks of, be it due after an enrichment (15 s and 10 in the queue) or after a
  cycle (6 and 10); a refused one is repeated within the cap of 240 seconds,
  less than half of any song that is refused (the enrichment, two cycles, the
  retry of thirty seconds and the queue);
- `MCOrchestrator`, `MaxTicksAssumption`: stamps have room for five times the
  longest song and a lag (the code's have for 292 years);
- `MCEnricher`: numbers up to the greatest one written fit in the bytes of a row
  (`RowsAssumption`), and no list of items is the mark of a malformed page
  (`PagesAssumption`);
- `CacheCodec`: a byte has at least two values, memory is a natural number of
  links, and the two characters that keys tell apart differ; `Matching`: the
  generosity is a percentage.

**ScrobbleDriver.** Four layers, each using the ones before. `Typed` is the type
invariant with the attempts budget and two facts of control flow. `Tracked` adds
where each call is: at most one of queue, worker and results over all plays, and
a current slot is in flight exactly while its call is in one of them; without
"over all plays" a result of an old play could not be told to be harmless.
`Recorded` ties the count of accepted scrobbles to what still remembers them:
once a scrobble landed its slot is done, or its accepted result waits to be
applied, or the play is over. `Earned` ties a queued scrobble to a threshold met
in this play. From these: `TypesAndBudget`, `OneThingAtATime`,
`NeverAskedTwice`, `BudgetKept`, `AcceptedOnce`, and `LedgerImplemented`, which
maps each step to a step of `ScrobbleLedger` or to none: the token test to
`Choose`, for which the job's play is still the current one, and the start of
the call to `Ask`, for which it need not be. `UsesWorkerAsQueue` does the same
for `JobQueue`: every step of the driver uses its worker as the queue's owner
may, and the queue is empty once the driver has been destroyed. The worker's
`BehavesAsJobQueue` meets it at that interface.

**Worker.** `Typed` is the type invariant with what is being pushed. `Awake`
says why a blocked worker cannot miss what was queued: the thread has seen the
queue empty under the lock it holds until it blocks, and whoever changed that
since, or asked for the stop, is still to notify. `Placed` says where a job may
be: not yet submitted, with one submitter, at one place of the queue, with the
worker, or returned, at one of these and at no other. From these:
`TypeCorrect`, `NoWakeupLost`, `EveryJobInOnePlace`, and `BehavesAsJobQueue`: each
step of the locks and the thread is one of the FIFO queue's or none, for any
number of submitters and jobs.

**Orchestrator.** The invariant says, besides the types, what the position kept
from the last cycle has to do with where the player is now: a player that did
not go back is behind it by at most the time it took to enrich (`NotBack`), and
one left alone is ahead of it by the time passed, less one length if it repeated
(`Untouched`). From these: `RestartIsReal`, `RepeatIsSeen`, `StampKept`,
`OneSong`, `TypeCorrect`. For the presence: what is on show was taken from a
poll, and until the player is touched again clock and bar run together, also
while something else is enriched; from it `ShownIsTrue` and `ToastsAreNews`.

**ScrobbleWindow.** The invariant carries the driver's threshold to the moment
of the call: a queued attempt was asked at or past it by the track's own clock,
which is ahead of the player by an enrichment at most (`Earned`: the song was
played to its threshold, or was found less than an enrichment before it), and
neither clock runs back. From it and the arithmetic of the two rules:
`WindowTypes`, `QualifiedOnly`, `NeverRefused`. For `PlayedThrough` a second layer,
`Punctual`, says of a song found in its first half, in each phase of the scrobble,
how long ago it was not yet half through: at the last tick while it waits for its
first attempt, by the attempt's age and the longer of enrichment and cycle more
while one is queued, and, for a song long enough to be refused, by the wait until
the retry. In every phase but Done that is less than half a song ago,
so the song has not ended.

**TrackTiming.** `PartsAlwaysAddUp` and `NearTimingsAreEqual` hold for any set of
timings and instants whose differences fit the width; their premises say exactly
that, and `PartsFitAndAgree` shows them of the timings a poll takes. The first
needs that a difference that fits is not wrapped, the second that truncation to
seconds turns a distance of at most a second into at most one more.

**Lifecycle.** `LifecycleTypes`, `NoTipLost`, `LoginKept`, from where the poll
thread can be when the UI thread is where it is, and from the last login try
setting the flag that prevents another. `LoginKept`, that a process which
returned has kept its session key, is proved only: the run's other properties
say more for their cost.

**Enricher.** What `findEntry` found stays part of the result until it is
written (`Seeded`, `Kept`), nothing is in flight at rest, and uploaders are for
tracks without an image. From these `EnricherTypes`, `LinksStaySingle`,
`LinksAreKept`, `FreshImageKept`, `SweepsUnseen`. For `ImagesAreLetGo` a second
layer relates a row's stamp to the second its image was supplied: they differ by
at most one renewal for each link the row has, a renewal needs a new link, and
there are no more links than sources.

**Search, Matching, CacheCodec.** What these compute is recursive: a table, a
sum over bytes, a loop over links. The library's induction theorems take an
operator as a parameter, which no prover here can instantiate, so induction is
done on sets: the set of the numbers of which a statement holds contains zero
and with every number the next one (`SetInduction`, from the least element of a
set of naturals). That a recursive function exists at all is shown in the same
way, by the set of the numbers up to which one can be unrolled (`Recursion`,
`TableExists`). On these rest:

- `FirstMatchAlwaysTaken` (and `FirstMatch`): on a page where no item lacks a
  part, each item lends its parts to itself, so the first to match is taken;
- `KeysAlwaysTellApart`: after `normalize` the only bars in a key are the two that
  separate its parts, so the first of them is where both titles end;
- `RowsAlwaysReadBack`, `CutRowsAlwaysReadShort` and `NothingIsEverMadeUp` (and
  `EntriesRead`): a number below the weight of the byte past its last is read as it
  was written, and any bytes are written again as they were read; then by
  induction over the links, what was read so far is what the bytes up to the
  offset say, and of a row that was written and cut it is the links that stand
  before the cut. A cut leaves the count whole or is seen at once, so it never
  makes the code throw; a whole row is one cut at its end;
- `EditsAlwaysLeast`: a cell is at most the cost of any pairing of the characters
  before it, because a pairing without the last character of one text is a
  pairing of a neighbour, and one with both is a pairing of the third neighbour
  and a substitution; each choice of the minimum is in turn such a pairing. By
  induction on the sum of the indices every cell is the least cost;
- `DecorationsAlwaysMatch` (and `Verdicts`): keeping the whole of the shorter text
  costs what was appended, and no pairing costs less.

### Only model-checked

All liveness (`DestructorReturns`, `ScrobbleNeverForgotten`,
`NowPlayingSettles`, `PresenceCatchesUp`, `EndsOnceQuit`, `LoginSettles`) and the
fairness of the two refinements of `JobQueue`, whose steps are proved, because
the prover has no rule for fairness and `ENABLED`. Every invariant and every
property of steps that a run checks is the property of a theorem. No module
declares a RECURSIVE operator.

## 7. Not modelled

- Request signing, escaping and the addresses of searches; `rp.cpp`'s strings,
  picture and buttons; how `amwin.cpp` takes artist and album apart; printing:
  sequential conversions.
- Of a page, items within items; of the tray, the icon and the popup menu's own
  message loop, during which messages are dispatched all the same.
- `logGlobal.hpp`, `log.cpp`, `paths.cpp`, `notifications.cpp`, `winrt.hpp`, the
  `.env` file and the debug console: input and output that nothing reads back.
- Curl, libxml2, LevelDB, Discord's SDK, WinRT, the credential vault: outside the
  repository; their outcomes appear as the choices of the steps that use them.
  A database read that fails is outside the models' assumptions: `cache.cpp:112`
  takes it for an absent row, and the next write replaces the row.
- The thumbnail's bytes: which picture was uploaded is not told apart, so that a
  thumbnail read after the song changed (`amwin.cpp:142`) is not seen.
- A pause stamp is checked while a song stays paused and once it plays; that a
  restart found paused takes a new one is not a property.
- A poll that straddles a song change is mended by a later one
  (`PresenceCatchesUp`); that it restarts no play is not stated, because a
  changed song counts as one that went back.
- The sweep and `findEntry` read the clock at two moments; the models give both
  the same `now`.
- A scrobble whose answer is lost counts as rejected for the driver and is asked
  again; what the service then holds is the service's state, not modelled.
- A forced exit loses a session key obtained in this run, since `_Exit` runs no
  destructor (`main.cpp:229`); that is what the code says it does.
- A now-playing call made after the song was paused: only the end of the play is
  looked at (`scrobble_driver.cpp:166`), and the code says no more.
