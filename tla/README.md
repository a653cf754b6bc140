# Konative in TLA+

Konative runs a C++ application core inside an Android process: a shared
library whose `JNI_OnLoad` loads an embedded dex file, hands the process to
Kotlin (Activity callbacks, a Choreographer frame ticker, Compose) and receives
lifecycle events, frames and touches back. The C++ core is an EnTT world with
systems, an event dispatcher, a periodic durable snapshot and a hot-reloaded
configuration file. This directory models that program, checks the models with
TLC and proves theorems about them with TLAPS.

Paths below are relative to the repository.

## 1. Inventory

| Component | State it keeps | Operations | What is hard about it |
|---|---|---|---|
| Native load and handoff (`src/platform/android/jni_onload.cpp` `JNI_OnLoad`, `include/konative/jni/`, `embed/checked_blob.hpp`) | local/global references, the pending exception, the config directory | some thirty JNI calls in sixteen stages, each able to fail | required against optional failures, exceptions that must be cleared, references that must be released |
| Kotlin lifecycle and frame ticker (`KonativeEntryPoint.kt`) | `owner`, `nativeStarted`, `FrameTicker` fields, the state saved in the Bundle | seven Activity callbacks, `doFrame`, start/stop | callbacks of several Activity instances interleave; a pause and a resume between two vsyncs; a process that dies at any point |
| Compose UI and pointer input (`KonativeRootComposable`, the touch and query trampolines of `jni_onload.cpp`) | the displayed dot and touch count, the changes of the PointerEvent under way | pointer loop, resize callback, queries after a frame and after an event | one event tells of several fingers; calls into a native side that is not started, or not bound |
| Frame loop (`app/application.hpp`, `ecs/world.hpp`, `on_tick()`) | tick count, world, dispatcher | tick, systems, update, drain | the order of update and drain |
| Cross-thread event queues (`scheduling/*_event_queue.hpp`) | a moodycamel queue | post, drain_into | posts while a drain runs, from several threads |
| Durable ECS snapshot (`ecs/snapshot_file.hpp`, `on_started()`, `on_tick()`) | state file, temporary files, `snapshot_in_flight_` | serialize, hand over, write, rename, report, sweep, restore | a detached thread, file failures, a kill at any point |
| File-backed configuration (`app/config/json_config_file.hpp`, `reflect/meta_glaze_json.hpp`, `app/app_config.hpp`) | the file, `last_seen_mtime_`, the live `AppConfig` | provision, load, poll, clamp | a user editing the file at any moment, file times that collide, documents that are half valid |
| Follower dot (`app/pointer_follow*.hpp`, `spatial/approach.hpp`, touch and resize handlers) | position, target, `follower_has_user_target_` | aim, centre, glide, save, restore | touches, resizes and restarts in any order |
| KoReload modules (`src/koreload_modules/`, the `KONATIVE_ENABLE_KORELOAD` parts of `jni_onload.cpp`) | the next generation and the handle of each slot, the modules' own counters in the memory of each library | load, poll, tick, save, restore | loads and restores that fail, crashes between frames, one module calling the other; off by default |
| `NextEventAwaiter` (`events/next_event_awaiter.hpp`) | a sink, the last value and an event | next, on_event | the coroutine runs inside `set()`; a lazy task resets only when it is awaited; lifetime of the sink |
| Runtime resources (`KonativeResourcesLoader.kt`, `KonativeResourceStringOverride.kt`, their selection in `KonativeEntryPoint.kt`) | the captured buffer, a memfd, the loaders attached to each Activity | install, verify, undo, fall back | each of ten calls may throw, in or out of a `finally`; one buffer for every Activity |
| Reflection registration, task graph and thread pool wrappers, `Result`, logging, math types, self checks, interop macros, render stub | none or constant | | run once, or on one thread, or thin wrappers |

How they interact: `JNI_OnLoad` calls Kotlin's `install()` once. Afterwards all
of Kotlin and the frame loop run on the Android main thread: Activity callbacks
call `on_started()`, `on_resumed()` ... directly, `doFrame` calls
`Application::tick()`, touches and resizes trigger their handlers at once. The
only other thread of the application core is the snapshot writer, which
reaches the main thread through `snapshot_in_flight_` (an atomic) and the
event queue. The file system is shared with the user (the configuration file)
and with the processes before and after this one (both files).

What makes each part correct:

* **snapshot** - the state file is whole at every instant, never goes back, an
  event that says "persisted" is true, saving never blocks for good;
* **configuration** - the live configuration is always one whole valid
  document, and follows the file or says that it cannot;
* **frame ticker** - exactly one frame callback while resumed, one
  `on_started()` per process, a Compose host per Activity;
* **queues** - nothing lost, duplicated or overtaken, one frame of latency;
* **load** - an optional failure never costs the handoff, nothing leaks, no
  exception stays pending;
* **resources** - each Activity has exactly one mechanism, and it works;
* **dot** - it goes where the user last pointed, and a restart keeps it on its way there;
* **input** - every touch counts once, only one that was put or dragged aims, and
  the screen shows it;
* **awaiter** - `next()` is never stale and misses nothing while it waits;
* **modules** - a reload is invisible to the state it carries over, no path is
  opened twice, every generation after the first is tried.

## 2. Modules

| Module | Models | Kind |
|---|---|---|
| `DurableState` | what a durable store promises: a process that goes on from a stored value or a fresh one, a store that only moves to a later value, and what the application was told about it | abstract specification |
| `SnapshotPersistence` | snapshot, writer threads, state file, restart | component; refines `DurableState` |
| `SnapshotPersistence_proofs` | | theorems |
| `JsonConfigFile`, `MCJsonConfigFile` | configuration file | component; instance with `AppConfig`'s fields, defaults and floors |
| `JsonConfigFile_proofs` | | theorems |
| `ActivityFrames` | lifecycle callbacks, frame ticker | component |
| `ActivityFrames_proofs` | | theorems |
| `FrameMailbox` | what posting to the frame thread promises: a mailbox without bound, in each producer's order, one frame behind at most | abstract specification |
| `EventDelivery` | queues, dispatcher, frame loop | component; refines `FrameMailbox` |
| `NextEventAwaiter` | an awaiter connected to the dispatcher of `EventDelivery` | composition |
| `EventDelivery_proofs` | of `EventDelivery` and `NextEventAwaiter` | theorems |
| `JniOnLoad` | load and handoff | component |
| `RuntimeResources` | `JniOnLoad`, then the string resources of each Activity | composition |
| `RuntimeResources_proofs` | of `JniOnLoad` and `RuntimeResources` | theorems |
| `Follower` | the dot | component |
| `Follower_proofs` | | theorems |
| `KonativeApp` | Activities, frames, resizes, pointer events, the native follower and what is on the screen: `ActivityFrames` and `Follower` with the calls between them | composition; refines both |
| `KonativeApp_proofs` | | theorems |
| `KoReload` | `Follower` with the dot moved by two hot-reloaded modules | composition; refines `Follower` while the one that aims is not live |
| `KoReload_proofs` | | theorems |

Operators named `XxxUnguarded`, `XxxStale` and the like, each headed "Variant
with a bug", are plausible wrong versions of the operator they stand before.
The specifications do not use them; put in the place of the right one, each
makes TLC find one property violated, which shows that the property says
something about the code.

### SnapshotPersistence

The registry is abstracted to the total a `HeartbeatCounter` holds, which grows
by one per frame and survives a restore; a snapshot is that total and the
process that took it. `Tick` is `World::tick()` and `on_tick()` up to the
spawned thread: systems, `update()`, the configuration poll (the interval may
change on a polling frame), and `SnapshotDue`, the test-and-set of
`snapshot_in_flight_`. `Drain` is `drain_into()`, which ends `on_tick()`. The
detached thread is `OpenTemp`, `WriteTemp`, `RenameTemp`, `ClearInFlight` and
`PostSaved`; each file operation may fail, and after a failed rename the removal
of the temporary file may fail too. `Kill` may come between any two steps; it
takes threads, queue and flag, and leaves the files. `OnStarted` sweeps the
temporary files (each removal may fail) and restores all of the file or nothing.
A process whose files directory is unknown (`path` is false) runs the same
pipeline without a file.

`delivered` remembers the events `on_snapshot_saved()` was given, in this process
and in those whose state it goes on from: a kill does not empty it, only a process
that starts from a fresh registry does. So `SavedMeansDurable` relates what a process
that is long gone was told to the file and the registry of this one, and `told` of
`DurableState` is those of the delivered events that say "persisted".

A kill is a kill of the process; a power failure, which could lose a rename that
was not synced, is outside the code's promise (it never calls `fsync`).

### JsonConfigFile

The main thread's calls into the file system (`exists`, `write_file`,
`record_mtime`, the parse, the poll) are separate steps. A user may edit the
file in place (truncate, later finish), replace it or remove it between any two.
A write gets the current file time or the next. A document is the fields it sets
and its fault: `syntax`, `range` (a number `json_value_to_meta()` rejects),
`type` (a value that is no number, on which `get<double>()` throws through
everything). `Parse` works on a copy, and `Clamp` is `clamp_to_valid()`. Opening or
reading a file may fail whatever is in it; `parse_file_into()` then returns false as it
does for a document that is rejected, and by then the file's time has been recorded
(lines 111, 135), so that the read is not tried again until the file is written again.
`failedAt` remembers the recorded time of the failure last reported. `Checked`
is what `on_started()` makes of a load that failed: the defaults, clamped as well,
so that even defaults below their floor never become live.

`hidden` marks a last write that comparison of times cannot see: it fell between
`write_file()` and `record_mtime()`, or got the same time as the one before.
`UpToDate` and `EditTakesEffect` leave such a write out and say of every other that it
is live, or that its one failed read was reported (`Reported`).

### ActivityFrames

`Dispatch`, `HandleLifecycleEvent`, `StartNative`, `InstallHost`,
`FrameTickerStart` and `FrameTickerStop` are the code's own helpers; one action
per `ActivityLifecycleCallbacks` method calls them in the code's order. The
framework's part is `Advance` and `InForeground` (external): Activities move
through their lifecycle, one of them is resumed at a time, a new one may be
created when the others are at least paused. An Activity has many instances, one
after the other: a destroyed one may be created again, with the Bundle of its last
instance (a rotation) or without (a launch anew). `bundle` is whose host's state
`performSave()` put there. `overlapping` records which
instances were created before another one was destroyed. `bound` says whether
`RegisterNatives` succeeded; when it did not, every native call throws and is
caught, and everything else still runs. `ProcessKilled` ends the process at any
point and starts the next.

### KonativeApp

`ActivityFrames`' callbacks and `Follower`'s steps, unchanged, and the calls
between them. `Lifecycle` is a callback together with all of `on_started()` when
that is what the callback dispatches. `Frame`, `FrameSnapshot` and `FrameShown` are
one `doFrame()`: tick, perhaps a snapshot, queries. `PointerEvent` is what Compose
hands to the pointer loop, `VisitChange` the body of the loop for one change,
`TouchesShown` the query after it. `task` keeps the main thread in one of these
until it is done; only `Kill` may come in between. `Native` is a call that finds
neither systems nor sinks before `on_started()` has run.

The user has `Fingers`; an event tells of every finger on the screen, whether it
moved or rests, and a finger may be lifted away from where its last event had it.
`FingersCancelled` is a gesture that the system takes over. The changes of one event
are visited in any order (the code visits them in the order of the list).
`seen` and `dragged` remember what the user did, so that the properties relate
the screen to the user and not to the code's own counters.

### EventDelivery

The n-th event of a producer is the number n, and each container is one sequence
per producer because moodycamel's queue keeps order only within a producer. A
`try_dequeue()` that fails has looked at one producer after the other
(`LookAt`) while the others go on posting. With one producer the module is
`SpscEventQueue`, whose `post()` also allocates and never drops. `update()` is one
`Publish` per event and `UpdateEnds`, because a sink may act between two events.
To `FrameMailbox`, `Publish` is the sink's receipt, `UpdateEnds` the step to the next
frame, which may not come while something from before the last drain is on its way,
and a dequeue does not show.

### NextEventAwaiter

`next()` is a lazy task, so that its first line (`reset()`) runs when the task is
awaited and not when `next()` is called; `NextCalled` is that moment, and "strictly
after this call" in the header means after it. `Published` is `EventDelivery`'s
`Publish` with the sink's call of `on_event()` in it. `set()` resumes the
waiting coroutine inside that call, which may await the next event before
`on_event()` returns (`Returned`) or do something else first and await later.
`Destroyed` takes the awaiter away while nobody waits; nothing disconnects its sink.
In the repository the awaiter is attached to a dispatcher that its self check
triggers by hand; here it is attached to the one the cross-thread queue feeds,
which is what both headers say a dispatcher is for.

### JniOnLoad

The stages are data (`Stages`, `DexStages`), each with the JNI calls it makes in
order (`StaticCall`, `InstanceCall`, `UpgradeCalls`, `FilesDirCalls`), so that
three actions are enough: a call succeeds, fails, or is made with an exception
pending. `Fail` decides between "return" and "go on without".
`LeaveFeatures` says what a failed stage leaves, `Effect` what a stage that
succeeded gives. `HandoffReached` says of the handoff both that it happens and what
is handed over: a feature is missing exactly if its own stage failed.

### RuntimeResources

After `JNI_OnLoad` has returned and `install()` has registered its callbacks,
each `OnActivityCreated` runs `tryInstallGeneralResourcesLoader()` step by step:
`Read` (the copy of the buffer and `memfd_create`), the six calls of the inner
`try` (`TableCalls`), `CloseMemfd` (its `finally`), `Verify` (the lookup of one
field) and `UndoLoader`. Every call may throw; `throwing` is the exception on its
way through the `finally`. `Result` is the caller's choice of Context.
`sound` is the framework's part: whether the table that was loaded resolves the
field. A short `Os.write()` is possible, because its result is ignored; such a
table may or may not load. `faults` records what threw, for the one property
that excepts two calls after which the code can undo nothing.

### Follower

A line of pixels in place of the plane and one step in place of the snapshot.
`Approach` moves any part of the way; `Tick` with no movement is a frame of no
duration or one too short for a pixel.

### KoReload

`Follower`'s touches, resizes, snapshots, restarts and kills are its own actions,
used unchanged; the frame is `KoReloadTick`, in which `TickThunk` of
`pointer_follow` calls `DriveTargets` of `waypoint_cycler` when that one is live.
Every `PollInterval`-th frame `PollKoreloadModule` looks at both modules, one
after the other, and `LoadOrReload` loads a generation that was pushed. What a
load may come to (`Outcomes`) is what the host distinguishes: a module that runs,
a refusal that leaves the old one, a crash that leaves none. `Push` may come at
any moment, also while the process is down. Where generation 1 is missing when
`on_started()` looks for it, the slot waits for it or goes on to the second: that is
`ManagedModuleSlot`'s to choose, and the model has both. In the second case a first
generation that is pushed later is never opened, which `CatchesUp` says.

`memory` is what each library that was mapped remembers, by module and generation:
`reload_survival_ticks` modulo 2, and of `waypoint_cycler` the index that its elapsed
time shows; a frame may take the cycle any part of the way round (`DriveTargets`).
`RestoreState` hands over the live generation's, or the bytes are refused
(`restore_state()` returns false, and the new generation goes on from whatever was
read by then). A load into an empty slot hands over nothing (`ComesUp`): that it
starts with its initializers is not stated by the action, it follows if the path was
never opened before, because a library keeps the memory it was mapped with. `due`
is the history of what the live generation should remember, and `ReloadKeepsState`
compares the two; a path that names two generations, or a restore that is left out,
breaks it. `FollowsWithModules` compares the composition with
`Follower` step by step: all it adds is `CyclerFrame`, a frame in which
`waypoint_cycler` aims and the dot glides towards that aim.

## 3. Runs

| Run | Configuration | Asks |
|---|---|---|
| `snapshot` | 2 processes, 3 frames each, 2 writer threads, intervals 1 and 2 | is the state file whole and monotone, are reports true for as long as their descendants run and each in one place, does saving end, does it implement `DurableState` |
| `config_edits` | both `AppConfig` fields, 5 user documents, clock 3, reads that may fail | is the live configuration whole, valid and up to date whatever the user does, or is it reported that it is not |
| `app` | 1 Activity with any number of instances and processes, 2 fingers, 2 touches per process, 2 pixels | one frame callback, one start, no stale delta; hosts and Bundles; is every touch counted, shown and aimed; does the native side see a plain follower; does a restored dot keep its course; does the dot reach the finger |
| `event_delivery` | 2 producers, 2 events each, a coroutine that awaits | nothing lost or reordered, everything delivered; do queues and frames implement `FrameMailbox`; is `next()` fresh, gapless while it waits, and does it return |
| `startup` | every JNI call may fail, every resource call may throw, 2 Activities | handoff exactly when it should and with exactly the features that loaded, no leak, nothing pending on return; one working resource mechanism per Activity |
| `koreload` | 2 pixels, 2 generations of each module, a poll every third frame | does each module remember what it should over reloads, refused restores, crashes and kills, is a path opened twice, is every step one of `Follower`'s or a frame that chases its own aim, is every generation from the second on opened |
| `snapshot_orphan` | as `snapshot` | finding 1 |
| `config_torn_read` | as `config_edits` | finding 2 |
| `config_wrong_type` | a document with a wrong type | finding 3 |
| `activity_relaunch` | 2 Activities | finding 4 |
| `jni_pending` | every call may fail | finding 5 |
| `next_event_sink` | 1 producer, 1 event | finding 6 |

Deadlock checking is off where the modelled system really stops: no process is
left to start (snapshot), the clock is used up and the process is down
(configuration), `JNI_OnLoad` has failed or the last Activity has its Context
(startup). In the other runs it is on; in `app` a kill is always possible, so
that there it says nothing.

### Findings

1. **A failed write leaves its temporary file** (`snapshot_file.hpp:74`).
   The sweep's comment (202-205) says only a kill can. Harmless: the next start
   sweeps it.
2. **A torn read may stay** (`json_config_file.hpp:132`). When the end of an
   in-place write gets the file time the poll saw at its beginning, the edit is
   never read; the comment (125-127) says the time moves on.
3. **A wrong JSON type ends the process** (`meta_glaze_json.hpp:82`).
   `get<double>()` throws `std::bad_variant_access`, caught nowhere;
   `json_config_file.hpp:47-48` lists wrong field types under `kParseFailed`.
4. **A quick relaunch loses its Compose host** (`KonativeEntryPoint.kt:139`).
   The old instance's `onActivityDestroyed` acts on the one `owner` field, which
   is the new instance's by then.
5. **A JNI call with an exception pending** (`jni_onload.cpp:1360`). `||` skips
   `check_and_clear_exception` when `RegisterNatives` fails.
6. **The awaiter's sink outlives it** (`next_event_awaiter.hpp:49`). The constructor
   connects `on_event` and there is no destructor; lines 46-47 say "for as long as
   this object lives". The class is not part of the Android library.

A remark that is no run of its own: `scheduling/README.md:31-33` and
`dispatcher.hpp:12-15` say the queue is drained *before* `update()`; `on_tick()`
drains after `World::tick()` has run it (`jni_onload.cpp:780`), so an event waits
for the next frame, as the comment at `jni_onload.cpp:1046` says. The model has
the code's order; what holds is that an event is never a second frame late, which is
the guard of `FrameMailbox`'s `NewFrame` and the invariant `OneFrameLate`.

How far findings 1, 2, 3 and 5 reach is proved: each has a theorem (section 4,
"Bounds of the findings") with the hypothesis under which the quoted comment holds.

### Bounds

* `Writers`: two threads are enough, because a third would need two that have
  cleared the flag and not posted yet; the model blocks `Tick` when a snapshot
  is due and no thread identity is free. The theorems hold for any set.
* `MaxTicks`, `MaxBoots`: three frames give three snapshots at interval 1, so a
  writer can be overtaken by the frame loop twice; two processes give one
  restore of a file written by another process and one from a fresh registry.
* `MaxClock`: after it no edit and no process starts. What had started may still
  write twice, hence `LastClock`. Three file times allow an edit before, during
  and after a poll, with or without a shared time.
* `MaxPosts`: two events of each of two producers let one be in the queue, one in
  the dispatcher, and each producer be both ahead and behind; the coroutine can
  take one and miss, or not miss, the next.
* one Activity in `app`, over any number of instances and processes. Two
  Activities at once give too many states for a run of minutes together with fingers
  and frames; that they overlap is what `activity_relaunch` has, and the theorems
  about `KonativeApp` hold for any number. Two fingers and two touches
  let one rest while the other moves, and one be put while the other is lifted.
* `Width` 1 in `app`: the dot is at its aim or a frame away from it. The order of
  aims is what can go wrong, and the theorems hold for any width.
* `MaxActivities` of `startup`: two, one that may spoil something for the next.
* `MaxGen` 2: one load and one reload of each module, in every order with the
  other's; a process that starts with both generations on disk; a first
  generation that fails and a second that recovers. `PollInterval` 3 is prime to
  the counter's modulus, so a tick lost or counted twice shows. `Width` is 1:
  which way the dot is aimed is what `koreload` asks.

### Fairness

* snapshot: `WF_vars(Writer(w))` - the scheduler runs every thread and file
  operations return. Nothing is assumed of the frames, the user or the killer.
* configuration: `WF_vars(App)` - the main thread goes on, frames keep coming.
* app: `WF` of the rest of a task - a callback that has begun returns; `SF` of
  `Frame` while a callback is posted and, in it, of a movement if there is a
  distance - between tasks the posted frame gets its turn at each vsync, which
  Choreographer guarantees however much input there is, and a frame that lasts
  retains `exp(-rate * dt) < 1` of the distance, so finitely many of them cross a
  pixel. It must be strong because tasks disable `Frame` again and again. Nothing is
  assumed of the lifecycle, the fingers, snapshots or kills.
* events: `WF(FrameThread)` - frames keep coming and the frame thread goes on, the
  awaiter's `on_event()` included. Nothing is assumed of who posts or awaits.
* koreload: `WF(Main)` - the main thread goes on: frames keep coming and each
  one ends. Nothing is assumed of a load: it may fail every time.

## 4. Theorems

All are proved for every value of the constants under the assumptions each
module states.

**Snapshot** (`SnapshotPersistence_proofs`). `TypeCorrect`, `WholeFileAtPath`,
`WritersExclude`, `ReportsAreTrue`, `FileMonotone`, `ImplementsDurableState`,
`ReportedInOnePlace`, `NoneDropped`.
"The file is never torn" is not inductive: the rename that would tear it reads a
temporary file another step wrote. The inductive invariant adds what each
thread's temporary file holds at each of its stages (a whole snapshot of its own
job before the rename), that the threads before the flag is cleared are at most
one and the flag says so, that such a thread's snapshot is newer than the file
whenever the file is of this process or of the one it restored, and that no
snapshot is ahead of the registry. From it, file monotonicity and the refinement
follow step by step. That a report is in one place only needs, besides, that no two
threads carry the same snapshot (several may be past the flag and not have posted)
and that what left its thread is of a frame that is over, so that the
snapshot of a new thread is in none of the other places.
That a report stays true over restarts (`ReportsAreTrue`) needs that what was delivered
is of this process or, if it restored, of an earlier one: then the file, which is of the
same descent, only moves past it. `ToldSurvives` shows of `DurableState` alone that
what an application was told is durable survives every crash, and `SavedSurvives`
carries that over to the threads, files and flag through `ImplementsDurableState`.

**Configuration** (`JsonConfigFile_proofs`). `ConfigTyped`, `NeverBelowFloor`,
`FollowsTheFile`, `FailureReportedOnce`, `ChangesWhole`, for any fields, floors,
defaults (also ones below their floor) and documents. The invariant is about the
order of the times: recorded <= the file's <= the clock. Besides, what
`write_file()` has just left is there unless the history says that it was hidden,
a process that has not parsed yet has its defaults, and a reload has just moved the
recorded time, which leaves room for its one report. For `FollowsTheFile`: a
parse ends with what it read live or with its failure reported under the recorded time,
and a write of the user that leaves the two times equal is hidden.

**Frame driver** (`ActivityFrames_proofs`). `FramesTyped`,
`NeitherDoubledNorFrozen`, `StartsOncePerProcess`, `DeltasAreFresh`,
`FollowsWhenAlone`. The strengthening is that at most one instance is resumed and
that the native side is started before any instance leaves `none`. Hosts need that
`owner` is the only Activity between its creation and its destruction when none
has overlapped.

**The app** (`KonativeApp_proofs`). `AppImplementsFrames` and
`AppImplementsFollower`: the composition's steps are those of its halves or
stutters. The first is a matter of expanding each task; what `ActivityFrames_proofs`
shows carries over (`AppTicksOnce`, `AppFollows`). The second needs that the follower
is up exactly when `on_started()` was dispatched once, and that is where the
frame driver's invariant comes in. `EveryTouchTakesEffect` counts: touches seen are
those counted and those among the changes still to visit, whose number falls
by one with each that is felt. `AppTyped`. `DotKeepsCourse` is `CourseIsKept` of the follower, carried over by
the refinement. They hold for any number of
Activities, fingers and touches.

**Events** (`EventDelivery_proofs`). `EventsTyped`, `NothingLostOrReordered`,
`OneFrameOfLatency`, for any set of producers and any number of posts. Latency
needs a strengthening: while ticking, what was posted before the last drain
began is out of the queue; while draining, what is still due is in the queue.
`DeliveryImplementsMailbox` is the refinement of `FrameMailbox`: a publication is a
receipt of the next event because the pool goes on where the sink's events end, and a
frame may end because the pool is empty and everything due has left the queue.
Of the awaiter: `AwaiterImplementsDelivery` (an awaiter disturbs nothing),
`AwaiterTyped` and `NextIsFresh`.

**Dot** (`Follower_proofs`). `FollowerTyped` and `AimIsRight`. The flag must
be tied to the history: it is set exactly when this process was touched or
restored a follower. `CourseIsKept` (`RestoredStaysOnCourse`: a restored dot that
nobody touched is between where it was saved and where it was then aimed) needs that
no resize moves the target of such a dot, which is `AimIsRight`, and that a glide
towards the end of an interval stays in it.

**Load and resources** (`RuntimeResources_proofs`). `HandoffIsReached` and
`NothingHalfLeft` of `JNI_OnLoad`: the invariant says for each of the sixteen stages
what a process that got there holds, that a required stage that failed ended
it, and that the features it has are those whose stages are over and did not fail.
`ResourcesImplementLoad` shows that the Activities' resources take no step of the
load's, so that both hold there too (`LoadedThenResources`). `EitherTableOrOverride`, `NoMemfdLeft`, `WholeBlobForEach`,
`EveryRoleResolves`, `ResourcesAreTyped`, for any number of Activities. Their
invariant says, for each step of the function, what the memfd holds, whether an
exception is on its way, and that the Activity under way has no Context yet and its
loader only after the last call of the `try`; the buffer is never drained.
`EveryRoleResolves` joins the two: the function runs only in a process whose load
registered the callbacks.

**Modules** (`KoReload_proofs`). `ModulesTyped`, `NoPathTwice`, `StateSurvives`,
`ModulesKeepTheDot`, for any number of generations and any poll interval. That no
path repeats needs every opened path to be below the slot's next generation. That
a module remembers what it should needs that its live generation lies before the
next one to load, that those not loaded yet still have their initializers, and that a
process that is down remembers nothing.
`ModulesKeepTheDot` is a refinement up to the one module that has an aim of its own:
every step is `Follower`'s or a `CyclerFrame`. From it, `WithoutCycler`: while
`waypoint_cycler` is not live the composition implements `Follower`, the dot is
aimed by touch, restored aim or window (`AimWithoutCycler`), and a restored one keeps
its course (`CourseWithoutCycler`).

**Bounds of the findings.** A finding says that a comment does not hold of the code;
these theorems say under what hypothesis it does.

| Finding | Theorem | Hypothesis |
|---|---|---|
| 1 orphaned temporary files | `CleanedSavesLeaveNone` | a save that fails removes the file it wrote (`FailedSavesClean`); the code tries to after a failed rename, not after a failed write |
| 2 torn read | `DistinctTimesHeal` | every write of the user gets a file time of its own (`DistinctTimes`); then the end of a write that a poll met half way has a time the poll has not seen, and is tried |
| 3 wrong JSON type | `OnlyWrongTypeAborts` | no document has a value of the wrong type; syntax errors, numbers out of range and torn files never end the process |
| 5 pending exception | `OneCallWhilePending` | none: the exception reaches one call, the first of `get_files_dir_path()`, and only after `RegisterNatives` failed |

Finding 4 is bounded by `FollowsWhenAlone`: hosts follow their Activity while no two
instances overlap. Finding 6 has no such theorem: any event after the destruction does it.

So every invariant and every action property that a passing run checks is also a
theorem. Model-checked only are the liveness properties: `SavingEnds`,
`EditTakesEffect`, `EveryEventDelivered`, `AwaitIsAnswered`, `DotFollowsFinger` and
`CatchesUp` (statements under fairness are out of this prover's reach).

## 5. Not modelled

* **The KoReload library** (`ManagedModuleSlot`, `ModuleRegistry`) and
  moodycamel's queue are other repositories; their contracts are modelled from
  their use and marked external.
* **Reflection registration** runs once at start-up on one thread; what the
  configuration needs of it is `Merge` and the faults of `JsonConfigFile`.
* **Task graph and thread pool wrappers** forward to Taskflow and
  BS::thread_pool and are used by self checks only.
* **`Result`, logging, assertions, math and ECS aliases** keep no state.
* **Self checks** run a library on constants and log.
* **Of the Compose UI**: focus and key events, which are only logged, the tick count
  on the screen, and the drawing. A mouse that hovers has changes without a press; it
  aims as a drag does (`positionChanged()`), and is left out with mice altogether.
* **`KonativeApp` with the modules of KoReload**, and with the queue and the writer
  thread: each pair shares only what `Follower`'s `Snapshot` and `Tick` already are.
* **Interop macros, render stub, CMake, tools, CI, examples.**
* The bytes of archives, JSON text, log wording and the UI's layout.
* **Hazards without a property** (in `PROJECT.json`, each with its reason): a drain that
  never catches up with its producers (`cross_thread_event_queue.hpp:41`), a user's file
  created between `exists()` and `write_file()`, or written between `write_file()` and
  `record_mtime()` (`json_config_file.hpp:104` and `107`, modelled, but nothing promises
  otherwise), `Os.close()` throwing after `addLoaders()`
  (`KonativeResourcesLoader.kt:102`, modelled, but nothing could undo it), a duplicated
  descriptor that a finalizer closes (line 92), and a float that stops growing
  (`waypoint_cycler/module.cpp:51`).
* Power failures, a full file system (other than as a failed write), and a
  second process of the same application at the same time.

## 6. Plan

Order: what loses or corrupts data first, then what stops the frame loop, then
the features.

1. `SnapshotPersistence` over `DurableState` - done, proved.
2. `JsonConfigFile` - done, proved.
3. `ActivityFrames` - done, proved.
4. `EventDelivery` - done, proved; `NextEventAwaiter` over it - done, proved.
5. `JniOnLoad` - done, proved.
6. `Follower` - done, proved.
7. `RuntimeResources` over `JniOnLoad` - done, proved.
8. `KoReload` over `Follower` - done, proved.
9. `KonativeApp` over `ActivityFrames` and `Follower` - done, proved.
10. Left: a run of `KonativeApp` with two Activities that overlap, if its tasks can be
    made coarser without losing a kill in between; `SnapshotPersistence` in place of
    `Follower`'s `Snapshot`, with the queue of `EventDelivery` between the writer and
    the sink.
