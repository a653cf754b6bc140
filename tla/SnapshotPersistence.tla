------------------------ MODULE SnapshotPersistence ------------------------
(***************************************************************************)
(* The durable ECS snapshot of the Android application.                    *)
(*                                                                         *)
(* The main thread runs Application::tick() once per display frame: the    *)
(* systems advance the registry, the dispatcher delivers what earlier      *)
(* frames enqueued, and on_tick() may serialize the registry and hand the  *)
(* bytes to a detached thread.  That thread writes a temporary file,       *)
(* renames it over the state file, clears snapshot_in_flight_ and posts a  *)
(* SnapshotSavedEvent to the queue the main thread drains.  The process    *)
(* can be killed between any two of these steps; the next one sweeps the   *)
(* temporary files and restores the state file.                            *)
(*                                                                         *)
(* The registry is abstracted to its HeartbeatCounter total per entity: it *)
(* grows by one per frame, is part of every snapshot and carries over a    *)
(* restore, so it identifies what a snapshot holds.                        *)
(***************************************************************************)
EXTENDS Naturals, FiniteSets

CONSTANTS
    Writers,        \* the detached threads that can be alive at once (bound)
    Intervals,      \* values AppConfig::snapshot_interval_ticks takes
    PollTicks,      \* kConfigPollIntervalTicks
    MaxTicks,       \* frames of one process (bound)
    MaxBoots,       \* processes (bound)
    NoFile, Torn    \* no such file; a file holding less than a whole snapshot

Snapshots == [boot : Nat, ticks : Nat]

\* clamp_to_valid() keeps the interval positive (app_config.hpp).
ASSUME SnapshotAssumption ==
    /\ Intervals # {} /\ Intervals \subseteq Nat \ {0}
    /\ PollTicks \in Nat \ {0}
    /\ MaxTicks \in Nat /\ MaxBoots \in Nat
    /\ NoFile \notin Snapshots /\ Torn \notin Snapshots /\ NoFile # Torn

Suffixes == 1 .. MaxTicks
Stages == {"none", "open", "write", "rename", "clear", "post"}

VARIABLES
    mainPc,      \* "down", "frame" (between frames) or "drain" (in on_tick)
    boots,       \* processes started so far
    restored,    \* restored_from_disk
    path,        \* state_file_path_ is not empty
    interval,    \* AppConfig::snapshot_interval_ticks in registry().ctx()
    tickCount,   \* tick_count_
    heartbeat,   \* HeartbeatCounter::ticks of each entity of the registry
    inFlight,    \* snapshot_in_flight_
    pc, job,     \* the detached threads and what each captured by value
    queue,       \* snapshot_queue_: posts of different threads are unordered
    pending,     \* events the dispatcher holds until its next update()
    delivered,   \* (history) events on_snapshot_saved() was given, in this
                 \* process and in those whose state it goes on from
    file,        \* <files dir>/konative_state.bin
    temp         \* its .tmp<tick> siblings

mainVars   == <<boots, restored, path, interval, tickCount, heartbeat>>
threadVars == <<pc, job>>
eventVars  == <<queue, pending, delivered>>
diskVars   == <<file, temp>>
vars == <<mainPc, mainVars, inFlight, threadVars, eventVars, diskVars>>

NoJob == [snap |-> [boot |-> 0, ticks |-> 0], unique |-> 0, persisted |-> FALSE]
Jobs == [snap : Snapshots, unique : 0 .. MaxTicks, persisted : BOOLEAN]
Events == [snap : Snapshots, persisted : BOOLEAN]

Up == mainPc # "down"

\* The threads snapshot_in_flight_ stands for: spawned, not yet past its store.
Saving == {w \in Writers : pc[w] \in {"open", "write", "rename", "clear"}}

TypeOK ==
    /\ mainPc \in {"down", "frame", "drain"}
    /\ boots \in Nat /\ tickCount \in 0 .. MaxTicks /\ heartbeat \in Nat
    /\ restored \in BOOLEAN /\ path \in BOOLEAN /\ inFlight \in BOOLEAN
    /\ interval \in Intervals
    /\ pc \in [Writers -> Stages]
    /\ job \in [Writers -> Jobs]
    /\ \A w \in Writers : pc[w] # "none" => job[w].unique \in Suffixes
    /\ queue \subseteq Events /\ pending \subseteq Events /\ delivered \subseteq Events
    /\ file \in Snapshots \cup {NoFile, Torn}
    /\ temp \in [Suffixes -> Snapshots \cup {NoFile, Torn}]

Init ==
    /\ mainPc = "down"
    /\ boots = 0 /\ tickCount = 0 /\ heartbeat = 0
    /\ restored = FALSE /\ path = FALSE /\ inFlight = FALSE
    /\ interval \in Intervals
    /\ pc = [w \in Writers |-> "none"] /\ job = [w \in Writers |-> NoJob]
    /\ queue = {} /\ pending = {} /\ delivered = {}
    /\ file = NoFile /\ temp = [s \in Suffixes |-> NoFile]

-----------------------------------------------------------------------------
\* on_started() of a new process.

\* cleanup_orphaned_snapshot_temp_files(): best effort, any removal may fail.
SweepTemps ==
    \E kept \in SUBSET Suffixes :
        temp' = [s \in Suffixes |-> IF s \in kept THEN temp[s] ELSE NoFile]

\* Variant with a bug: the registry is cleared after a successful load too.
ReadSnapshotCleared ==
    \/ file \in Snapshots /\ restored' = TRUE /\ heartbeat' = 0
    \/ restored' = FALSE /\ heartbeat' = 0

\* read_snapshot_file(): all of the file, or an error (no file, an open or
\* header or version or archive error) that leaves the registry empty, after
\* which on_started() creates the entities afresh.
ReadSnapshot ==
    \/ file \in Snapshots /\ restored' = TRUE /\ heartbeat' = file.ticks
    \/ restored' = FALSE /\ heartbeat' = 0

OnStarted ==
    /\ mainPc = "down" /\ boots < MaxBoots
    /\ mainPc' = "frame"
    /\ boots' = boots + 1
    /\ tickCount' = 0
    /\ interval' \in Intervals
    /\ \/ path' = TRUE /\ SweepTemps /\ ReadSnapshot
       \/ path' = FALSE /\ restored' = FALSE /\ heartbeat' = 0 /\ UNCHANGED temp
    /\ delivered' = IF restored' THEN delivered ELSE {}
    /\ UNCHANGED <<inFlight, threadVars, queue, pending, file>>

-----------------------------------------------------------------------------
\* One frame of the main thread.

\* Variant with a bug: the suffix is the tick after the snapshot's own.
SpawnWriterNextTick(w) ==
    /\ pc[w] = "none"
    /\ inFlight' = TRUE
    /\ pc' = [pc EXCEPT ![w] = IF path THEN "open" ELSE "clear"]
    /\ job' = [job EXCEPT ![w] =
                 [snap |-> [boot |-> boots, ticks |-> heartbeat'],
                  unique |-> tickCount' + 1, persisted |-> FALSE]]

\* The serialized registry goes by value to a new thread, which starts with
\* the file unless there is no path to write to.
SpawnWriter(w) ==
    /\ pc[w] = "none"
    /\ inFlight' = TRUE
    /\ pc' = [pc EXCEPT ![w] = IF path THEN "open" ELSE "clear"]
    /\ job' = [job EXCEPT ![w] =
                 [snap |-> [boot |-> boots, ticks |-> heartbeat'],
                  unique |-> tickCount', persisted |-> FALSE]]

\* Variant with a bug: no snapshot_in_flight_ (the code before 2026-07-25).
SnapshotDueUnguarded == tickCount' % interval' = 0

\* tick_count_ % snapshot_interval_ticks == 0 && !snapshot_in_flight_.exchange(true)
SnapshotDue == tickCount' % interval' = 0 /\ ~inFlight

\* Variant with a bug: clear() instead of update().
UpdateCleared ==
    /\ UNCHANGED delivered
    /\ pending' = {}

\* Dispatcher::update(): every pending event reaches on_snapshot_saved().
Update ==
    /\ delivered' = delivered \cup pending
    /\ pending' = {}

Tick ==
    /\ mainPc = "frame" /\ tickCount < MaxTicks
    /\ heartbeat' = heartbeat + 1
    /\ Update
    /\ tickCount' = tickCount + 1
    /\ interval' \in IF tickCount' % PollTicks = 0 THEN Intervals ELSE {interval}
    /\ IF SnapshotDue THEN \E w \in Writers : SpawnWriter(w)
                      ELSE UNCHANGED <<inFlight, threadVars>>
    /\ mainPc' = "drain"
    /\ UNCHANGED <<boots, restored, path, queue, diskVars>>

\* Variant with a bug: the queue is copied, not dequeued.
DrainCopied ==
    /\ mainPc = "drain"
    /\ pending' = pending \cup queue
    /\ queue' = queue
    /\ mainPc' = "frame"
    /\ UNCHANGED <<mainVars, inFlight, threadVars, delivered, diskVars>>

\* snapshot_queue_.drain_into(world().events()), the last act of on_tick().
Drain ==
    /\ mainPc = "drain"
    /\ pending' = pending \cup queue
    /\ queue' = {}
    /\ mainPc' = "frame"
    /\ UNCHANGED <<mainVars, inFlight, threadVars, delivered, diskVars>>

-----------------------------------------------------------------------------
\* The detached thread: write_snapshot_bytes_file(), then the two last calls.

Goto(w, stage) == pc' = [pc EXCEPT ![w] = stage]

\* Variant with a bug: the flag is cleared as soon as the thread runs.
OpenTempUnflagged(w) ==
    /\ pc[w] = "open"
    /\ inFlight' = FALSE
    /\ \/ Goto(w, "write") /\ temp' = [temp EXCEPT ![job[w].unique] = Torn]
       \/ Goto(w, "clear") /\ UNCHANGED temp
    /\ UNCHANGED <<mainPc, mainVars, job, eventVars, file>>

\* Opening truncates or creates the temporary file, or fails (kOpenFailed).
OpenTemp(w) ==
    /\ pc[w] = "open"
    /\ \/ Goto(w, "write") /\ temp' = [temp EXCEPT ![job[w].unique] = Torn]
       \/ Goto(w, "clear") /\ UNCHANGED temp
    /\ UNCHANGED <<mainPc, mainVars, inFlight, job, eventVars, file>>

\* Variant with a bug: stream.good() is not looked at before the rename.
WriteTempUnchecked(w) ==
    /\ pc[w] = "write"
    /\ \/ Goto(w, "rename") /\ temp' = [temp EXCEPT ![job[w].unique] = job[w].snap]
       \/ Goto(w, "rename") /\ UNCHANGED temp
    /\ UNCHANGED <<mainPc, mainVars, inFlight, job, eventVars, file>>

\* Variant with a bug: a failed write leaves without clearing the flag.
WriteTempFlagged(w) ==
    /\ pc[w] = "write"
    /\ \/ Goto(w, "rename") /\ temp' = [temp EXCEPT ![job[w].unique] = job[w].snap]
       \/ Goto(w, "post") /\ UNCHANGED temp
    /\ UNCHANGED <<mainPc, mainVars, inFlight, job, eventVars, file>>

\* Header, bytes and flush; on a bad stream (kWriteFailed) the temporary file
\* stays as it is.
WriteTemp(w) ==
    /\ pc[w] = "write"
    /\ \/ Goto(w, "rename") /\ temp' = [temp EXCEPT ![job[w].unique] = job[w].snap]
       \/ Goto(w, "clear") /\ UNCHANGED temp
    /\ UNCHANGED <<mainPc, mainVars, inFlight, job, eventVars, file>>

\* Variant with a bug: persisted although the rename failed.
RenameTempTrusted(w) ==
    /\ pc[w] = "rename"
    /\ Goto(w, "clear")
    /\ job' = [job EXCEPT ![w].persisted = TRUE]
    /\ temp' = [temp EXCEPT ![job[w].unique] = NoFile]
    /\ file' = temp[job[w].unique] \/ UNCHANGED file
    /\ UNCHANGED <<mainPc, mainVars, inFlight, eventVars>>

\* The rename replaces the state file, or fails (kRenameFailed) and the
\* temporary file is removed if that works.
RenameTemp(w) ==
    /\ pc[w] = "rename"
    /\ Goto(w, "clear")
    /\ \/ /\ file' = temp[job[w].unique]
          /\ temp' = [temp EXCEPT ![job[w].unique] = NoFile]
          /\ job' = [job EXCEPT ![w].persisted = TRUE]
       \/ /\ \/ temp' = [temp EXCEPT ![job[w].unique] = NoFile]
             \/ UNCHANGED temp
          /\ UNCHANGED <<file, job>>
    /\ UNCHANGED <<mainPc, mainVars, inFlight, eventVars>>

\* in_flight->store(false), before the post.
ClearInFlight(w) ==
    /\ pc[w] = "clear"
    /\ Goto(w, "post")
    /\ inFlight' = FALSE
    /\ UNCHANGED <<mainPc, mainVars, job, eventVars, diskVars>>

\* queue->post(SnapshotSavedEvent{...}); the thread ends.
PostSaved(w) ==
    /\ pc[w] = "post"
    /\ queue' = queue \cup {[snap |-> job[w].snap, persisted |-> job[w].persisted]}
    /\ Goto(w, "none")
    /\ job' = [job EXCEPT ![w] = NoJob]
    /\ UNCHANGED <<mainPc, mainVars, inFlight, pending, delivered, diskVars>>

Writer(w) ==
    OpenTemp(w) \/ WriteTemp(w) \/ RenameTemp(w) \/ ClearInFlight(w) \/ PostSaved(w)

\* The process is killed: the threads, the queue and the flag are gone, the
\* files are as they are.
Kill ==
    /\ Up
    /\ mainPc' = "down"
    /\ inFlight' = FALSE
    /\ pc' = [w \in Writers |-> "none"] /\ job' = [w \in Writers |-> NoJob]
    /\ queue' = {} /\ pending' = {}
    /\ UNCHANGED <<mainVars, delivered, diskVars>>

Next == OnStarted \/ Tick \/ Drain \/ Kill \/ \E w \in Writers : Writer(w)

Spec == Init /\ [][Next]_vars

\* The scheduler runs every thread and every file operation returns.
FairSpec == Spec /\ \A w \in Writers : WF_vars(Writer(w))

-----------------------------------------------------------------------------
\* Safety.

\* The state file is never observed half written, whatever a write, a rename
\* or a kill leaves behind (write_snapshot_bytes_file's promise).
PathNeverTorn == file # Torn

\* At most one thread is between being spawned and clearing the flag, and the
\* flag is set exactly then, so a skipped snapshot always has a writer ahead of
\* it and no writer ever races another one's rename.
OneWriter ==
    /\ \A v, w \in Saving : v = w
    /\ inFlight <=> Saving # {}

\* An event that says "persisted" is true, however late it is posted, drained
\* or delivered, and stays true after that: whatever crashes, the state file
\* holds that snapshot or a later one, and the process that goes on from the
\* file has it too.
Reports == queue \cup pending \cup delivered \cup
           {[snap |-> job[w].snap, persisted |-> job[w].persisted] : w \in Writers}
SavedMeansDurable ==
    \A e \in Reports : e.persisted =>
        /\ file \in Snapshots
        /\ file.boot >= e.snap.boot /\ file.ticks >= e.snap.ticks
        /\ heartbeat >= e.snap.ticks

\* No completed snapshot goes unreported and none is reported twice: an event
\* is in one place only on its way from the thread to on_snapshot_saved().
InThreads == {job[w].snap : w \in {v \in Writers : pc[v] # "none"}}
InQueue == {e.snap : e \in queue}
InDispatcher == {e.snap : e \in pending}
Delivered == {e.snap : e \in delivered}
OnePlace ==
    /\ InThreads \cap (InQueue \cup InDispatcher \cup Delivered) = {}
    /\ InQueue \cap (InDispatcher \cup Delivered) = {}
    /\ InDispatcher \cap Delivered = {}

\* Renames never go back: what replaces the state file is newer than what this
\* process restored from it or wrote to it before.
FileNeverGoesBack ==
    [][(file' # file /\ file \in Snapshots /\ (restored \/ file.boot = boots))
          => (file' \in Snapshots /\ file'.ticks > file.ticks)]_vars

\* A snapshot that reached a thread is reported unless the process dies first:
\* its event is where delivery picks it up, never dropped on the way.
NoReportDropped ==
    [][\A s \in InThreads \cup InQueue \cup InDispatcher :
          \/ s \in InThreads' \cup InQueue' \cup InDispatcher' \cup Delivered'
          \/ mainPc' = "down"]_vars

\* A leftover temporary file is explained by a kill (snapshot_file.hpp:202-205:
\* "the only way one can exist is a process kill/crash ...").
OrphanMeansKill ==
    boots = 1 /\ Up => \A s \in Suffixes : temp[s] # NoFile =>
        \E w \in Writers : pc[w] \in {"write", "rename"} /\ job[w].unique = s

\* Liveness: periodic saving is never blocked for good by one failed save.
SavingEnds == inFlight ~> ~inFlight

-----------------------------------------------------------------------------
\* The state file, the registry and the process implement DurableState.
ToldDurable == {e.snap.ticks : e \in {d \in delivered : d.persisted}}
Durable == INSTANCE DurableState
             WITH durable <- file, up <- Up, live <- heartbeat, told <- ToldDurable
DurableSpec == Durable!Spec
=============================================================================
