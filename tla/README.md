# The information-publishing screen, modelled in TLA+

The program is a Windows kiosk client (MFC, `src/WeChatPrinter`). It signs in to
a platform over HTTP, receives commands through RabbitMQ (`RMQ.dll`), downloads
programmes and their materials, keeps them on disk, chooses by the time of day
what to show, and sends the chosen page to an embedded browser. It restarts
itself every day and when the platform falls silent.

All of it runs in one process, in one dialog class, with five threads and no
lock. The threads share global variables and work with the same files. They wake
each other with manual-reset events, which are reset *after* the work, and with
one-shot timers of the dialog, which any thread may set again. That is where the
hard behaviour is, and what the models are about.

## 1. Inventory

| Component | State | Operations | Hard behaviour | Module |
|---|---|---|---|---|
| Worker threads, shutdown (`OnInitDialog`, `OnDestroy`, the four `...ThreadContent`) | `m_bExit`, one event per worker | loop, wait, pass, reset; signal and join | a reset that undoes the last signal; a join that times out | `WorkerLifecycle` |
| Programme selection and commands (`ChooseProgramThreadContent`, `RMQ_DealCustomMsg`, `OnTimer`, `ExtendDeadline`) | `jrsp`, `jTemplate`, `jTemproary`, `jOverdue`, `jForIE`, `g_bIsTemproaryOn`, `bUnderSwitchMode`, `g_strItemid`, `m_nMode`, the timers | PUBLISH, DEFAULT, EXCHANGETIME, CONTROL, CONTROLRECOVERY; a pass; timers | three threads interleave; one timer id has two meanings; flags outlive their programme | `ProgramControl` |
| Programme store (`ChooseJson`, `LoadjsonFile`, `ParseNewTemplateOfH5` from 880, `CheckOldResource`, `DelateResource`) | `template.json`, `templateold.json`, `temporary.json`, materials | publish, extend, cancel, start | the process ends between two calls, or in a write; the next process starts before it has gone; cleaning deletes what is used | `ProgramStore`, `ProgramShelf` |
| Downloads and retries (`HTTP_Download2`, `DownLoadFile`, `CheckIncompleted`) | `*.download` files, `nCheckTimes`, a timer | download, rename, retry | early ends, exceptions, restarts, two threads at once | `Download` |
| Command link (`_Recv`, `RMQThreadContent`, `ReSignThreadContent`, `DeviceStatusThreadContent`) | `g_strRecvMsg`, three events, `TIMER_RESIGN`, `TIMER_RECV_MSG`, `TIMER_OFFLINEREBOT` | receive, sign in, report, restart | one-slot mailbox; a watchdog that races what it watches | `CommandLink` |
| Platform protocol (`Trade`, `HttpClient`) | last error | requests | outcomes only | in the above |
| Window arithmetic (`getHours`, `getDays`, `GetWaitTime`, `GetCloseTime`, `GetWeekDay`, and the loop over a list) | the countdowns of two timers | a pass, a timer, midnight | boundaries, midnight, days without windows, late timers | `Schedule` |
| Restart, memory monitor (`RobotProgamme`, `GetSystemMemoryInfo`) | start date | restart | at any moment; two processes for a while | an action in `CommandLink`, `Download`, `ProgramStore`, `Schedule` |
| Configuration, page display, network watch and `EasyTimer`, offline packet, image compression, administrator page, device control, program start | | | | not modelled, see section 7 |

How they interact. The mailbox hands a message to `RMQ_DealCustomMsg`
(`CommandLink` to `ProgramControl`). Its PUBLISH branch downloads (`Download`),
stores (`ProgramStore`), changes the programmes in memory and asks for a pass
(`ProgramControl`). The pass sets the timers that ask for the next one, for the
second that the window arithmetic says (`Schedule`).
`CheckIncompleted` calls the PUBLISH branch again, on the UI thread.

What makes each correct:
no worker is left behind by the shutdown; every programme stays where its release
mode belongs, the current one is one of those stored, and no announced change of
the screen is missed; a restart finds a whole programme and its materials; what
is on disk under its own name is complete, and what broke off is retried, but not
for ever; no item of a list outstays its window and no window is missed; the
newest message is handled, and the watchdog ends a process for silence of the
platform, or for that of its own RMQ thread, busy with another command while the
player is connected.

## 2. Plan

Done, in this order: `WorkerLifecycle`, `ProgramControl`, `ProgramStore` with its
abstract specification `ProgramShelf`, `Download`, `CommandLink`, `Schedule`, and
modules of proofs for each.

What is left:

1. `Player`: `CommandLink` and `ProgramControl` composed, so that a command lost
   in the mailbox and a pass lost in the event are seen together.
2. Two threads that publish on the programme files at once (the RMQ thread and
   `CheckIncompleted`), which `ProgramStore` leaves out.
3. How long a programme lost in the middle of a pass stays lost: it takes a bound
   on the passes to come, which only the platform gives.

## 3. Modules

Every module names variables and actions as the code does where TLA+ allows it.
Comments that begin with *Slip* mark operators that are not part of the
specification: they are an action with a plausible mistake in it (a dropped guard,
a missing reset, a forgotten timer) and show that the properties can tell the
difference. `PROJECT.json` pairs each with its property.

**WorkerLifecycle.** One record of control per worker, after the loop that all
four share: `LoopTest`, `Wake`, `ExitTest`, `FinishPass`/`LeaveLoop`, `Reset`.
`TimerWakes` and `Notify` raise events; `BeginDestroy`, `Signal` and `Join` are
`OnDestroy`. `Join` may follow from the end of the thread or from the timeout, so
it has no guard on the thread.

**ProgramControl.** A programme in memory is `[prog, expired, misread]`. The day is
divided into slots, and `Airs` says in which slots a page is inside one of its
windows; delays shorter than a slot are due at once. `ChooseDecide` has one disjunct
per branch of `ChooseProgramThreadContent`. Publication runs on the RMQ thread and,
from `CheckIncompleted`, on the UI thread, step by step: `PublishBegin` (or
`OnCheckFindsIncomplete`) clears `m_nMode`, `SetMode` puts the kind into it and asks
the platform, `ParseBegin` reads it again when the answer is there, then come
`ParseNewTemplateOfH5`, `PublishSucceeds` and `PublishReport`. There is one `m_nMode`,
as in the code. When the other thread has changed it, a single programme is parsed
as a list: it is stored as an ordinary programme whatever its release mode, has a
null datalist from then on (`misread`), and ends the process when a pass looks at it
(`ChooseThrows`). A list parsed as a single programme ends it at once
(`ParseThrows`). `up` is false then; a start from what the files hold is an initial
state (`Stored`). `ExtendDeadline` is split between its read of the current
programme and its writes. Commands and timers may fall into a pass at any point;
the history variable `during` remembers what came into the last one: a `"signal"`,
which the pass resets, or a `"change"` of something it may have read already.
`ScreenFollowsProgramme` says what the screen shows when the platform has fallen
silent, `ScreenSuitsProgramme` what it shows at every moment before that.
A timer set from a worker thread is taken to work as one set from the UI thread,
as the whole program relies on it.

**ProgramStore.** `pc` is the call a publication is about to make, `boot` the one
a start is about to make; the `j` variables are what the process that runs has
loaded, the `n` variables what the process that starts has. `Boot` starts a
process alone, `RobotProgamme` one beside a process that still runs: that one has
been told to close and begins nothing new, but finishes what it is in, and the
new one takes over (`TakeOver`) when it is gone. `LoadjsonFile` opens a file it
could not open a second time with `modeCreate`, which empties it when the other
process has closed it in between (`LoadTemplateAgain`, `LoadTemporaryAgain`).
`End` may take any call; `PowerLoss` takes both processes and may tear the file
that is being written, after which `json::parse` throws (`StartFails`).
`DownLoadFile` happens or not for each material; `DownloadsEnd` goes on in both
cases. The history variable `whole` remembers which programmes were published
with all of their materials; a start in the middle of an operation empties it, as
nothing is claimed for the materials then. Deadlines are not told apart here.
**ProgramShelf** says what a restart sees: one programme, replaced in one step by
`Open` and `Store`, lost only after a write was cut (`Lose`), torn only by a power
loss in a write (`Tear`), at risk when its own deadline is rewritten (`Rewrite`)
or a start ran beside an operation (`Trample`). It also says what a restart sees of
the emergency: withdrawn only between two operations, or by a start beside one
(`Withdraw`), so that no publication of an ordinary programme takes it away;
replaced not in one step but in two, the file being empty in between (`Overwrite`,
`StoreEmergency`). `Recovered`, "neither empty nor torn", `temporary.json`, and the
file being written are the refinement mapping.

**Schedule.** Times of day are the code's integers HHMMSS, and `Span` subtracts
them digit pair by digit pair as the code does. The model jumps from event to
event: `ChooseTimer`, `LoadPage`, a command that asks for a pass (`Ask`),
`Midnight`, and the `Restart` that the first memory check of a new day makes. A
timer may be up to `MaxLate` seconds late; a pass takes no time. `ChooseProgram`
is the loop over the items, first match first, and sets both timers. `Planned` is
the reference: the windows the platform planned for an item on a day, written
without the code's helpers. `NotShownLate` bounds, by `Slack`, how long a page may
outstay the window of its item: the 15 s of `TIMER_LOADPAGE`, the lateness of the
timers, and what each command can add by starting that timer anew.

**Download.** Per thread, the loop over the resources of a programme; per
`.download` file, whose bytes it has and who has it open. Two resources with the
same stem share one (`MarkerOf`, `TwinOnDisk`), files under `template/` are not looked for
(`Watched`). `ReadShort` is a connection closed early, which the code notices and
renames all the same; `ReadFails` is an exception, which skips the rename.

**CommandLink.** `_Recv` is two steps of assignment and one of arming; a copy made
between the first two is `Torn`. `DealStatus` is the OFFLINE and TURNSTATUS
branches, `DealOther` all the others, whose effect is in `ProgramControl`. The
watchdog is a number of ticks; a tick is longer than two adjacent calls and can
fall into any call that blocks, so none falls between the arming of the watchdog
and the `ResetEvent` after it. The 20 s of `TIMER_RESIGN` are over only when the
ReSign thread waits again. `End` stands for every other end of the process.

## 4. Runs

| Run | Instance | Shows |
|---|---|---|
| `lifecycle` | the four workers of the code | no worker waits on a reset event once signalled; all end |
| `control` | an ordinary programme, an emergency with a window, an all-day one, a weekly list of one item, an empty list, the default; 2 slots, 2 calls of `RMQ_DealCustomMsg`, each a command or a retry; starts that find a programme past its deadline, an emergency past it, or a misread programme; commands and timers at any point of a pass | every programme in its place but for the misread one; the countdowns are kept but for a signal inside the pass; the screen suits the current programme after every pass left in peace, and follows the schedule in the end |
| `store` | 3 ordinary programmes, 1 emergency, shared materials, 3 commands of any kind, 2 cuts by an end or a power loss, starts beside a running process | the refinement of `ProgramShelf`, for the ordinary programme and the emergency; memory agrees with disk; a start finds the programme; the stored programme keeps its materials |
| `download` | a programme with a film and its poster, which share a `.download` file, and a list with a background picture; 2 publications, 2 starts | complete files, retries that happen and that end |
| `link` | 2 messages of any kind, an `OfflineTime` of 2 ticks, one long check | mailbox and watchdog |
| `schedule` | 5 lists (one item with two windows; a daily one whose windows adjoin and overlap; one that crosses midnight; a weekly and a dated one), 4 starting times, 1 command, timers up to a second late, memory checks 0, 5 and 120 s after midnight | no item outstays its window, when chosen or, by more than `Slack`, on the screen; none is missed; every item with a window of its own comes back |
| `mode`, `flag`, `switch`, `cleanup`, `truncated`, `list_retry` | as above, smaller where that is enough | the disagreements of section 6 |

Why the bounds are enough. Two calls of `RMQ_DealCustomMsg` are needed for one to
fall into the handling of another, and for each of the races of two threads, that
over `m_nMode` among them; a third command in
`store` lets a publication follow one that was cut and one that was not, and
three ordinary programmes fill `template.json`, `templateold.json` and the new
one. Two slots have a window that opens and one that closes. Two
starts let a second process find what the first one left. `MaxChecks`, the limit
of retries, is 3 as in the code and not a bound of the model. Two ticks let the
watchdog be half expired. In `store`, one cut leaves an empty file and the second
falls into the publication that finds it. In `schedule`, one second of lateness is
enough for a pass to miss the last second of a window, and 120 s is the period of
the memory check; the clock runs through every day of a week and starts again.
No symmetry is used. Deadlock is checked in `schedule`, where time goes on for
ever; not where the bounds on commands let the system come to rest, which it
really does when the platform is silent.

## 5. Fairness

Weak fairness, in the specifications with a liveness property, on three kinds of
steps: threads run (which includes that blocking calls return: every HTTP call has
a timeout); a timer that is due is dispatched, since the message loop keeps running;
time passes. Nothing is assumed of the platform, of the connection, of downloads
succeeding or of the process ending. In `ProgramControl` one condition covers all
steps that no command is needed for, in whatever order, as the one-shot timers are
what decides; in `Schedule` one covers the two timers, midnight and the restart
together: time goes on; which of them comes first is for the countdowns to say.

What comes into a pass. A pass resets its event when it is through (line 2344): a
`TIMER_CHOOSEPROGAME` that fires before that is lost, and so may be the command that
set it. A pass also works with what it has read at its beginning (2101), and may
write `jDefault` over what a command has put there since (2124). The runs have all of
this. `CountdownKept` excepts just a signal inside the pass that announced the
countdown, `ScreenSuitsProgramme` and `ScreenFollowsProgramme` a signal or a change
inside the last pass: every pass that is left in peace makes them true again,
whatever earlier ones have lost. They also except a raised emergency flag, because of
the finding on that flag, and a process that an exception has ended.

`RetriedUntilGivenUp` has one exception as well: a resource that shares its
`.download` file with the one that broke off is on disk, so that the rename which put
it there may have taken the file away.

`NotShownLate` is for timers that are late by a second in the run `schedule`, and by
11 s at most in the theorem. A retry of a download occupies the UI thread, which
dispatches the timers, for as long as it takes, which may be longer than that. So
what these properties say of time holds while no such retry goes on.

`CutOffRestarts` is about a platform that falls silent: a bounded number of
messages is what makes it so.

## 6. Where the code disagrees with its documents

* `flag` - the flag "it is now the time of the temporary programme" stays up when
  an ordinary programme is published over an emergency; nothing is loaded for that
  programme, until DEFAULT or a restart.
* `mode` - an emergency is to be saved under a name of its own, apart from the
  ordinary programmes. But the kind of the programme is read from `m_nMode`, which the
  RMQ thread and a retry on the UI thread share, once more after the calls to the
  platform. When the other thread has changed it, the emergency is parsed as a list
  and stored as the ordinary programme, and the process ends whenever a pass looks at
  it, also after the next start.
* `switch` - the switch mode is to rank below a republication, but PUBLISH does
  not end it: it forgets the item and keeps the mode, and the pass for the new
  list neither loads a page nor arms a timer.
* `cleanup` - `DelateResource` is to delete materials that belong to nothing, and
  at every start deletes those only the stored emergency uses.
* `truncated` - a connection closed early leaves a short file under its final
  name, where neither `DownLoadFile` nor the check for `.download` files finds it.
* `download` (`RetriesBounded`) - the declaration of `nCheckTimes` says that after two
  times no more updating is tried; `nCheckTimes++ < 3` makes it three. The property
  holds with three and does not with two.
* `list_retry` - the check for `.download` files reads an item id that a
  programme list does not have; the exception ends the process.

## 7. Not modelled

* EXCHANGETIME's change of the windows themselves (only the deadline).
* Two threads publishing at once on the programme files. Their effect in memory,
  with the `m_nMode` they share, is in `ProgramControl`, that on `.download` files in
  `Download`. So the calls of two `ParseNewTemplateOfH5` are not interleaved: its
  changes of the programmes in memory are one step.
* What the platform answers to a request whose kind the other thread has cleared or
  changed between lines 1807 and 1810: `SetMode` sets the kind and sends it.
* Deletions and renamings that fail because the other process has the file open;
  the window is one `WriteFile` call, and the code ignores the result.
* `LoadOfflinePacket`: it looks on a USB stick under the organisation code, which
  only the later sign-in fills in.
* Image compression, which answers TRUE whatever it finds; the reminders about big
  videos, which nothing else reads; the configuration, read once; the browser;
  device control, which is system calls.
* The network watch: an icon in a window of its own, on `easyTimer`
  (`include/mytimer.h`). It shares no state with the rest, and its dialog lives
  until the process ends, so that the destructor of the timer, the delicate part
  (`setTimeout` again inside its own callback leaves the exit mutex to the thread
  before), does not run. `myTimer` of the same header is never used.
* Code that is not reached: `Adbshell.cpp`, `Shell.cpp` and `DBSqliteFun.cpp` are
  not compiled; `ProxyStart_http`, `HeartBeatThread` and `AvoidBigVideo` are never
  called.
* Vendored code. Of the 112 865 lines of the repository nearly all are headers of
  CEF, SQLite, nlohmann/json, cpp-httplib, TinyXML and CxImage. The program's own
  sources are about 5 650 lines, two fifths of which the models stand for; the
  rest is windows, drawing, logging, string handling and system calls.

`CommandLink` takes a crash on a torn copy of `g_strRecvMsg` as one of the ends of
the process.

## 8. Proofs

Each `...Proofs` module proves its module's theorems for every value of the
constants that the module's named assumption allows (`MaterialsProofs` is about
`ProgramStore`, `ScheduleShownProofs` about `Schedule`). Those about behaviours are
of the form `Spec => []Inv`, `Spec => [][A]_vars` or `Spec => ShelfSpec`, through an
inductive invariant; each step lemma has one case per action.

| Theorem | Inductive invariant, and why it is needed |
|---|---|
| `NeverStranded`, `ExitFlagBeforeSignals` | `StrandInv`: `ExitFlagFirst` says the flag is up before the first signal, so the reset of a pass in flight is followed by a loop test that fails |
| `EmergencyAlwaysLoaded`, `AlwaysStoredByReleaseMode`, `CurrentAlwaysStored`, `ProgrammesInPlace` | `ProgrammeInv`: they need each other, and `CopiesRespectMode` for the copies that a pass and `ExtendDeadline` hold between two steps |
| `CountdownAlwaysKept` | `CountdownArmed`: before its reset, a pass has a timer armed, or the timer has fired inside it. No assumption on when timers fire or commands come |
| `ScreenAlwaysSuits` | `ScreenInv`: after a pass that nothing came into, the page chosen suits the programme in every slot until the countdown ends, and is on the screen or due to be loaded. No assumption either; see below |
| `PublicationIsAtomic` | `StoreInv`: `FilesInStep` says where the files are at each call, `BootInStep` where the two processes can be at a time and that a torn file lets none of them past it. For every command, cut, power loss and overlapping start, and for the emergency as for the ordinary programme |
| `MemoryAlwaysOnDisk` | `MemoryInStep`, for a process whose start disturbed no operation: how far apart memory and disk are at each call, the emergency included; `StartInStep` for what a start has read |
| `StartAlwaysFindsProgramme` | `FoundInStep`: where the programme is that a start has not read yet, at each call of the publication it runs beside |
| `MaterialsAlwaysKept` | `MaterialsInv`, beside `StoreInv`; see below |
| `NeverPastItsWindow`, `NothingEverMissed` | the two properties with the types, which are inductive as they stand; see below |
| `FoundIsPlanned`, `WaitEndsAtNextBound`, `CloseEndsAtNextBound` | none, they are about operators: what `getDays`, `getHours`, `GetWaitTime` and `GetCloseTime` answer, for any windows, day and time |
| `FollowedToTheEnd`, `NeverShownLate` | `ShownInv`, for `PromptTimers`: `ChosenInTime`, `StaleInTime` and `DueOnTheMinute` follow the chosen item, the page on the screen and the pass that is due; see below |
| `CompleteAlways` | `Holding` (who has a `.download` file open is reading into it) and `Undisturbed` (what is renamed was read to its end) |
| `InterruptedIsRetried` | `MarkersLeft`: what broke off has left its `.download` file, unless another resource that shares it is on disk. For any sharing of the files |
| `RetriesAlwaysBounded` | `RetriesCounted`: while retries can follow, none went uncounted |
| `NewestAlwaysHandled` | `Underway`: at each point, where the newest message is |
| `WatchdogAlwaysMeansSilence` | `WatchdogBehind`: a report made after the last OFFLINE left the watchdog at least the time the silence has yet to last |
| `AlwaysWatched` | `LoginFirst`: messages, and so reports, come after the login |

Each specification has its `TypeCorrect` besides.

`MaterialsAlwaysKept`. `CheckOldResource` deletes the materials of a programme in
memory and spares those of the others in memory and of the one being published.
So the stored programme is safe if the process knows it: `KnownInStep` says that
the programme in `template.json` is the one in memory or the one being published,
`OldKnownInStep` the same of `templateold.json`. That is not always so. After two
cuts `templateold.json` may hold a programme that nobody has loaded, which is why
the property claims one cut only, and why `OldKnownInStep` and `KeptInStep` tell
"no cut yet" from "one cut, after which `templateold.json` is what a start plays".
`MissingInStep` covers the publication that finds no ordinary programme to
replace, `ReadInStep` and `CurrentInStep` what a start makes of the two files.

`Schedule`. The order of HHMMSS integers is the order of the seconds they stand
for, and `Span` is their difference (`TimeOrder`, `SpanFacts`); so `Following` is
the first bound not yet past and the countdown to it is at most that to any later
bound (`FollowingFacts`, `WaitEndsAtNextBound`, `CloseEndsAtNextBound`). A pass
establishes the two properties (`PassStep`), time that passes without a pass keeps
them (`LaterStep`), and at midnight the wait of a daily list, counted over the night, is carried over
(`MidnightStep`). For any lists, starting times, commands and lateness.

`NeverShownLate`. The page on the screen and the item chosen can differ from a pass
until `TIMER_LOADPAGE`, so the invariant follows both. The difficulty is that every
pass starts `TIMER_LOADPAGE` anew: a page whose window is over could be kept by one
pass after the other. It is not, because windows begin and end on full minutes. A
pass that no command asked for is due on a full minute (`DueOnTheMinute`) and late
by `MaxLate` at most, and the load it asks for is over within the same minute if
timers are late by 11 s at most (`PromptTimers`). So only a command can come in
between, and each costs at most `CommandCost`. The assumption is needed: with
windows a minute apart and timers later than that, passes can put off the load
for as long as the windows last. The model check of the run `schedule` has timers a
second late; the theorem covers every lateness up to the limit, and any number of
commands.

`ScreenAlwaysSuits`. No step of the player marks the moment a window ends: the clock
passes it, and the screen is wrong if no timer is due by then. The invariant
therefore speaks of all slots until the countdown ends (`PageFitsUntilDue`). A
pass establishes it because `CloseAt` jumps over no slot outside the windows of a
page and `WaitUntil` over none inside (`InWindowUntilClose`, `NoneUntilWait`, from
`NextInIsFirst`); a command or a timer that changes the programme or a flag asks for
a pass at once (`PassAsked`); and a pass works with the programme that is still
current when it is through (`CopyIsCurrent`), which is what an interrupted pass
loses. The invariant says nothing while `during` is not empty, and each pass begins
with an empty one: so it comes back by itself.

Only model-checked: the liveness properties (`ExitReachesEveryWorker`,
`ScreenFollowsProgramme`, `RetriesEnd`, `CutOffRestarts`, `SignInRetried`,
`ItemsShown`), which are outside what the prover does with fairness and ENABLED.
