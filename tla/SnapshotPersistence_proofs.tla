--------------------- MODULE SnapshotPersistence_proofs ---------------------
(***************************************************************************)
(* Proofs about SnapshotPersistence, for any number of detached threads,   *)
(* any intervals and any bounds on ticks and processes.                    *)
(***************************************************************************)
EXTENDS SnapshotPersistence, TLAPS

\* The state file is one this process restored from or wrote itself.
Ancestor == file # NoFile /\ (restored \/ file.boot = boots)

Unsaved == {"none", "open", "write", "rename"}

-----------------------------------------------------------------------------
\* The inductive invariant, as a conjunction of named parts.

\* A process that is down has no threads and no events.
DownIsEmpty ==
    mainPc = "down" =>
        /\ \A w \in Writers : pc[w] = "none"
        /\ queue = {} /\ pending = {} /\ inFlight = FALSE

\* A thread about to rename has its whole snapshot in its temporary file.
RenameReady ==
    \A w \in Writers : pc[w] = "rename" => temp[job[w].unique] = job[w].snap

\* What threads carry was serialized by this process.
JobsAreOurs ==
    \A w \in Writers : pc[w] # "none" =>
        /\ job[w].snap.boot = boots
        /\ job[w].snap.ticks \in 1 .. heartbeat

\* The state file comes from this process or an earlier one, and is no newer
\* than the registry it is an ancestor of.
FileAge ==
    /\ file # NoFile => file.boot <= boots
    /\ Ancestor => file.ticks <= heartbeat

\* A snapshot on its way to the state file is newer than what is there.
OnTheWayIsNewer ==
    \A w \in Writers : pc[w] \in {"open", "write", "rename"} /\ Ancestor
        => file.ticks < job[w].snap.ticks

EventsAreOurs == \A e \in queue \cup pending : e.snap.boot = boots

\* What was delivered is of this process or, if it restored, of an earlier one.
ToldIsOfDescent ==
    \A e \in delivered : e.snap.boot <= boots /\ (restored \/ e.snap.boot = boots)

PersistedOnlyAfterRename ==
    \A w \in Writers : pc[w] \in Unsaved => job[w].persisted = FALSE

IInv ==
    /\ TypeOK /\ PathNeverTorn /\ OneWriter /\ SavedMeansDurable
    /\ DownIsEmpty /\ RenameReady /\ JobsAreOurs /\ FileAge
    /\ OnTheWayIsNewer /\ PersistedOnlyAfterRename /\ EventsAreOurs /\ ToldIsOfDescent

-----------------------------------------------------------------------------
LEMMA ReportsAreTyped ==
    ASSUME TypeOK, NEW e \in Reports PROVE e.snap.boot \in Nat /\ e.snap.ticks \in Nat
<1>1. \A w \in Writers : job[w].snap \in Snapshots
  BY DEF TypeOK, Jobs
<1>2. \A d \in queue \cup pending \cup delivered : d.snap \in Snapshots
  BY DEF TypeOK, Events
<1>3. e.snap \in Snapshots
  BY <1>1, <1>2 DEF Reports
<1> QED
  BY <1>3 DEF Snapshots

\* A report that says "persisted" is of the descent the state file is of.
LEMMA PersistedIsOfDescent ==
    ASSUME IInv, NEW e \in Reports, e.persisted PROVE Ancestor /\ e.snap.boot <= boots
<1>1. e.snap.boot <= boots /\ (restored \/ e.snap.boot = boots)
  <2>1. CASE e \in delivered
    BY <2>1 DEF IInv, ToldIsOfDescent
  <2>2. CASE e \in queue \cup pending
    BY <2>2 DEF IInv, TypeOK, EventsAreOurs
  <2>3. CASE \E w \in Writers : e = [snap |-> job[w].snap, persisted |-> job[w].persisted]
    BY <2>3 DEF IInv, TypeOK, PersistedOnlyAfterRename, JobsAreOurs, Unsaved
  <2> QED
    BY <2>1, <2>2, <2>3 DEF Reports
<1>2. file \in Snapshots /\ file # NoFile /\ file.boot >= e.snap.boot /\ file.boot <= boots
  BY SnapshotAssumption DEF IInv, SavedMeansDurable, FileAge
<1>3. file.boot \in Nat /\ boots \in Nat
  BY <1>2 DEF IInv, TypeOK, Snapshots
<1> QED
  BY <1>1, <1>2, <1>3 DEF Ancestor

\* While the state file stays, only a report that newly says "persisted" could
\* be wrong.
LEMMA SavedStays ==
    ASSUME IInv, file' = file, heartbeat' = heartbeat \/ heartbeat' = heartbeat + 1,
           \A e \in Reports' : e \in Reports \/ e.persisted = FALSE
    PROVE  SavedMeansDurable'
<1> SUFFICES ASSUME NEW e \in Reports', e.persisted
             PROVE  /\ file \in Snapshots
                    /\ file.boot >= e.snap.boot /\ file.ticks >= e.snap.ticks
                    /\ heartbeat' >= e.snap.ticks
  BY DEF SavedMeansDurable
<1>1. e \in Reports
  OBVIOUS
<1>2. /\ file \in Snapshots
      /\ file.boot >= e.snap.boot /\ file.ticks >= e.snap.ticks
      /\ heartbeat >= e.snap.ticks
  BY <1>1 DEF IInv, SavedMeansDurable
<1>3. e.snap.ticks \in Nat /\ heartbeat \in Nat
  BY <1>1, ReportsAreTyped DEF IInv, TypeOK
<1>4. heartbeat' >= e.snap.ticks
  BY <1>2, <1>3
<1> QED
  BY <1>2, <1>4

LEMMA NoJobIsAJob == NoJob \in Jobs
<1>1. 0 \in 0 .. MaxTicks
  BY SnapshotAssumption
<1> QED
  BY <1>1 DEF NoJob, Jobs, Snapshots

LEMMA InitIInv == Init => IInv
<1> SUFFICES ASSUME Init PROVE IInv
  OBVIOUS
<1> USE SnapshotAssumption DEF Init
<1>1. TypeOK
  <2>1. job \in [Writers -> Jobs] /\ pc \in [Writers -> Stages]
    BY NoJobIsAJob DEF Stages
  <2>2. temp \in [Suffixes -> Snapshots \cup {NoFile, Torn}]
    OBVIOUS
  <2>3. tickCount \in 0 .. MaxTicks
    OBVIOUS
  <2>4. \A w \in Writers : pc[w] = "none"
    OBVIOUS
  <2> HIDE DEF Init
  <2>5. /\ mainPc = "down" /\ boots = 0 /\ heartbeat = 0 /\ file = NoFile
        /\ restored = FALSE /\ path = FALSE /\ inFlight = FALSE
        /\ interval \in Intervals
        /\ queue = {} /\ pending = {} /\ delivered = {}
    BY DEF Init
  <2> QED
    BY <2>1, <2>2, <2>3, <2>4, <2>5 DEF TypeOK
<1>2. PathNeverTorn /\ OneWriter
  BY DEF PathNeverTorn, OneWriter, Saving
<1>3. SavedMeansDurable
  BY DEF SavedMeansDurable, Reports, NoJob
<1>4. DownIsEmpty /\ RenameReady /\ JobsAreOurs
  BY DEF DownIsEmpty, RenameReady, JobsAreOurs
<1>5. FileAge /\ OnTheWayIsNewer /\ PersistedOnlyAfterRename
  BY DEF FileAge, OnTheWayIsNewer, PersistedOnlyAfterRename, Ancestor, NoJob
<1>6. EventsAreOurs /\ ToldIsOfDescent
  BY DEF EventsAreOurs, ToldIsOfDescent
<1> QED
  BY <1>1, <1>2, <1>3, <1>4, <1>5, <1>6 DEF IInv

LEMMA OnStartedIInv == ASSUME IInv, OnStarted PROVE IInv'
<1> USE SnapshotAssumption DEF OnStarted, threadVars
<1>1. /\ \A w \in Writers : pc[w] = "none" /\ pc'[w] = "none"
      /\ queue' = {} /\ pending' = {} /\ inFlight' = FALSE
  BY DEF IInv, DownIsEmpty
<1>2. /\ restored' \in BOOLEAN /\ heartbeat' \in Nat
      /\ path' \in BOOLEAN
      /\ temp' \in [Suffixes -> Snapshots \cup {NoFile, Torn}]
      /\ restored' => file \in Snapshots /\ heartbeat' = file.ticks
  <2>1. CASE path' = TRUE /\ SweepTemps /\ ReadSnapshot
    <3>1. temp' \in [Suffixes -> Snapshots \cup {NoFile, Torn}]
      <4>1. PICK kept \in SUBSET Suffixes :
              temp' = [s \in Suffixes |-> IF s \in kept THEN temp[s] ELSE NoFile]
        BY <2>1 DEF SweepTemps
      <4>2. \A s \in Suffixes : temp[s] \in Snapshots \cup {NoFile, Torn}
        BY DEF IInv, TypeOK
      <4> QED
        BY <4>1, <4>2
    <3>3. /\ restored' \in BOOLEAN /\ heartbeat' \in Nat
          /\ restored' => file \in Snapshots /\ heartbeat' = file.ticks
      <4>1. CASE file \in Snapshots /\ restored' = TRUE /\ heartbeat' = file.ticks
        <5>1. file.ticks \in Nat
          BY <4>1 DEF Snapshots
        <5> QED
          BY <4>1, <5>1
      <4>2. CASE restored' = FALSE /\ heartbeat' = 0
        BY <4>2
      <4> QED
        BY <2>1, <4>1, <4>2 DEF ReadSnapshot
    <3>4. path' \in BOOLEAN
      BY <2>1
    <3> QED
      BY <3>1, <3>3, <3>4
  <2>2. CASE path' = FALSE /\ restored' = FALSE /\ heartbeat' = 0 /\ UNCHANGED temp
    BY <2>2 DEF IInv, TypeOK
  <2> QED
    BY <2>1, <2>2
<1>3. TypeOK'
  BY <1>1, <1>2 DEF IInv, TypeOK
<1>4. PathNeverTorn' /\ OneWriter'
  BY <1>1 DEF IInv, PathNeverTorn, OneWriter, Saving
<1>5. SavedMeansDurable'
  <2> SUFFICES ASSUME NEW e \in Reports', e.persisted
               PROVE  /\ file \in Snapshots
                      /\ file.boot >= e.snap.boot /\ file.ticks >= e.snap.ticks
                      /\ heartbeat' >= e.snap.ticks
    BY DEF SavedMeansDurable
  <2>1. \A w \in Writers : job'[w].persisted = FALSE
    BY <1>1 DEF IInv, PersistedOnlyAfterRename, Unsaved
  <2>2. e \in delivered' /\ restored'
    BY <1>1, <2>1 DEF Reports
  <2>3. e \in Reports /\ heartbeat' = file.ticks
    BY <1>2, <2>2 DEF Reports
  <2> QED
    BY <2>3 DEF IInv, SavedMeansDurable
<1>6. DownIsEmpty' /\ RenameReady' /\ JobsAreOurs' /\ OnTheWayIsNewer'
  BY <1>1 DEF DownIsEmpty, RenameReady, JobsAreOurs, OnTheWayIsNewer
<1>7. FileAge'
  <2>1. file # NoFile => file.boot \in Nat /\ file.ticks \in Nat /\ file.boot <= boots
    BY DEF IInv, TypeOK, PathNeverTorn, FileAge, Snapshots
  <2> QED
    BY <2>1, <1>2 DEF IInv, TypeOK, FileAge, Ancestor
<1>8. PersistedOnlyAfterRename' /\ EventsAreOurs'
  BY <1>1 DEF IInv, PersistedOnlyAfterRename, EventsAreOurs
<1>9. ToldIsOfDescent'
  <2>1. \A e \in delivered : e.snap.boot \in Nat /\ e.snap.boot <= boots
    BY ReportsAreTyped DEF IInv, ToldIsOfDescent, Reports
  <2> QED
    BY <2>1 DEF IInv, TypeOK, ToldIsOfDescent
<1> QED
  BY <1>3, <1>4, <1>5, <1>6, <1>7, <1>8, <1>9 DEF IInv

\* What a new thread does to the invariant, and what skipping a snapshot does.
LEMMA TickIInv == ASSUME IInv, Tick PROVE IInv'
<1> USE SnapshotAssumption
<1>1. /\ mainPc = "frame" /\ mainPc' = "drain"
      /\ heartbeat \in Nat /\ heartbeat' = heartbeat + 1
      /\ tickCount' \in Suffixes /\ tickCount' = tickCount + 1
      /\ UNCHANGED <<boots, restored, path, queue, file, temp>>
      /\ pending' = {} /\ delivered' = delivered \cup pending /\ interval' \in Intervals
  BY DEF Tick, Update, IInv, TypeOK, Suffixes, diskVars
<1>2. delivered' \subseteq Events /\ ToldIsOfDescent'
  BY <1>1 DEF IInv, TypeOK, ToldIsOfDescent, EventsAreOurs
<1>3. file # NoFile => file.boot \in Nat /\ file.ticks \in Nat
  BY DEF IInv, TypeOK, PathNeverTorn, Snapshots
<1>4. CASE UNCHANGED <<inFlight, threadVars>>
  <2>1. UNCHANGED <<inFlight, pc, job>>
    BY <1>4 DEF threadVars
  <2>2. TypeOK'
    BY <1>1, <1>2, <2>1 DEF IInv, TypeOK, Suffixes
  <2>3. PathNeverTorn' /\ OneWriter' /\ RenameReady' /\ PersistedOnlyAfterRename'
    BY <1>1, <2>1 DEF IInv, PathNeverTorn, OneWriter, Saving, RenameReady,
                      PersistedOnlyAfterRename
  <2>4. SavedMeansDurable'
    <3>1. \A e \in Reports' : e \in Reports \/ e.persisted = FALSE
      BY <1>1, <2>1 DEF Reports
    <3> QED
      BY <1>1, <3>1, SavedStays
  <2>5. DownIsEmpty' /\ JobsAreOurs' /\ EventsAreOurs'
    BY <1>1, <2>1 DEF IInv, DownIsEmpty, JobsAreOurs, EventsAreOurs
  <2>6. FileAge' /\ OnTheWayIsNewer'
    BY <1>1, <1>3, <2>1 DEF IInv, FileAge, OnTheWayIsNewer, Ancestor
  <2> QED
    BY <1>2, <2>2, <2>3, <2>4, <2>5, <2>6 DEF IInv
<1>5. ASSUME ~inFlight, NEW w \in Writers, SpawnWriter(w) PROVE IInv'
  <2> DEFINE new == [snap |-> [boot |-> boots, ticks |-> heartbeat'],
                     unique |-> tickCount', persisted |-> FALSE]
  <2>1. /\ pc[w] = "none" /\ inFlight' = TRUE
        /\ pc' = [pc EXCEPT ![w] = IF path THEN "open" ELSE "clear"]
        /\ job' = [job EXCEPT ![w] = new]
    BY <1>5 DEF SpawnWriter
  <2>2. /\ pc'[w] \in {"open", "clear"} /\ job'[w] = new
        /\ \A v \in Writers : v # w => pc'[v] = pc[v] /\ job'[v] = job[v]
    BY <2>1 DEF IInv, TypeOK
  <2>3. new \in Jobs
    BY <1>1 DEF Jobs, Snapshots, IInv, TypeOK, Suffixes
  <2>4. TypeOK'
    <3>1. pc' \in [Writers -> Stages] /\ job' \in [Writers -> Jobs]
      BY <2>1, <2>3 DEF IInv, TypeOK, Stages
    <3>2. \A v \in Writers : pc'[v] # "none" => job'[v].unique \in Suffixes
      BY <1>1, <2>2 DEF IInv, TypeOK
    <3> QED
      BY <1>1, <1>2, <2>1, <3>1, <3>2 DEF IInv, TypeOK, Suffixes
  <2>5. \A v \in Writers : v # w => pc[v] \notin {"open", "write", "rename", "clear"}
    BY <1>5 DEF IInv, OneWriter, Saving
  <2>6. PathNeverTorn' /\ OneWriter'
    BY <1>1, <2>1, <2>2, <2>5 DEF IInv, PathNeverTorn, OneWriter, Saving
  <2>7. SavedMeansDurable'
    <3>1. \A e \in Reports' : e \in Reports \/ e.persisted = FALSE
      BY <1>1, <2>2 DEF Reports
    <3> QED
      BY <1>1, <3>1, SavedStays
  <2>8. DownIsEmpty' /\ RenameReady' /\ PersistedOnlyAfterRename'
    BY <1>1, <2>2 DEF IInv, DownIsEmpty, RenameReady, PersistedOnlyAfterRename, Unsaved
  <2>9. JobsAreOurs' /\ EventsAreOurs'
    BY <1>1, <2>2 DEF IInv, TypeOK, JobsAreOurs, EventsAreOurs
  <2>10. FileAge' /\ OnTheWayIsNewer'
    BY <1>1, <1>3, <2>2 DEF IInv, FileAge, OnTheWayIsNewer, Ancestor
  <2> QED
    BY <1>2, <2>4, <2>6, <2>7, <2>8, <2>9, <2>10 DEF IInv
<1> QED
  BY <1>4, <1>5 DEF Tick, SnapshotDue

LEMMA DrainIInv == ASSUME IInv, Drain PROVE IInv'
<1> USE DEF Drain, mainVars, threadVars, diskVars
<1>1. TypeOK'
  BY DEF IInv, TypeOK
<1>2. PathNeverTorn' /\ OneWriter' /\ RenameReady' /\ PersistedOnlyAfterRename'
  BY DEF IInv, PathNeverTorn, OneWriter, Saving, RenameReady, PersistedOnlyAfterRename
<1>3. SavedMeansDurable'
  <2>1. \A e \in Reports' : e \in Reports \/ e.persisted = FALSE
    BY DEF Reports
  <2> QED
    BY <2>1, SavedStays
<1>4. DownIsEmpty' /\ JobsAreOurs' /\ FileAge' /\ OnTheWayIsNewer'
  BY DEF IInv, DownIsEmpty, JobsAreOurs, FileAge, OnTheWayIsNewer, Ancestor
<1>5. EventsAreOurs' /\ ToldIsOfDescent'
  BY DEF IInv, EventsAreOurs, ToldIsOfDescent
<1> QED
  BY <1>1, <1>2, <1>3, <1>4, <1>5 DEF IInv

LEMMA KillIInv == ASSUME IInv, Kill PROVE IInv'
<1> USE SnapshotAssumption DEF Kill, mainVars, diskVars
<1>1. \A w \in Writers : pc'[w] = "none" /\ job'[w] = NoJob
  OBVIOUS
<1>2. TypeOK'
  <2>1. job' \in [Writers -> Jobs]
    BY NoJobIsAJob
  <2> QED
    BY <1>1, <2>1 DEF IInv, TypeOK, Stages
<1>3. PathNeverTorn' /\ OneWriter' /\ RenameReady'
  BY <1>1 DEF IInv, PathNeverTorn, OneWriter, Saving, RenameReady
<1>4. SavedMeansDurable' /\ PersistedOnlyAfterRename'
  <2>1. \A e \in Reports' : e \in Reports \/ e.persisted = FALSE
    BY <1>1 DEF Reports, NoJob
  <2>2. PersistedOnlyAfterRename'
    BY <1>1 DEF PersistedOnlyAfterRename, NoJob
  <2> QED
    BY <2>1, <2>2, SavedStays
<1>5. DownIsEmpty' /\ JobsAreOurs' /\ FileAge' /\ OnTheWayIsNewer'
  BY <1>1 DEF IInv, DownIsEmpty, JobsAreOurs, FileAge, OnTheWayIsNewer, Ancestor
<1>6. EventsAreOurs' /\ ToldIsOfDescent'
  BY DEF IInv, EventsAreOurs, ToldIsOfDescent
<1> QED
  BY <1>2, <1>3, <1>4, <1>5, <1>6 DEF IInv

-----------------------------------------------------------------------------
\* The steps of a detached thread.

\* The only thread that may be saving is the one that takes the step.
LEMMA OthersNotSaving ==
    ASSUME IInv, NEW w \in Writers, pc[w] \in {"open", "write", "rename", "clear"}
    PROVE  \A v \in Writers : v # w => pc[v] \in {"none", "post"}
BY DEF IInv, TypeOK, OneWriter, Saving, Stages

LEMMA OpenTempIInv == ASSUME IInv, NEW w \in Writers, OpenTemp(w) PROVE IInv'
<1>1. /\ pc[w] = "open" /\ UNCHANGED <<mainPc, boots, restored, path, interval,
           tickCount, heartbeat, inFlight, job, queue, pending, delivered, file>>
  BY DEF OpenTemp, mainVars, eventVars
<1>2. /\ pc'[w] \in {"write", "clear"} /\ pc' \in [Writers -> Stages]
      /\ \A v \in Writers : v # w => pc'[v] = pc[v]
  BY DEF OpenTemp, Goto, IInv, TypeOK, Stages
<1>3. temp' \in [Suffixes -> Snapshots \cup {NoFile, Torn}]
  BY DEF OpenTemp, IInv, TypeOK
<1>4. \A v \in Writers : v # w => pc[v] \in {"none", "post"}
  BY <1>1, OthersNotSaving
<1>5. TypeOK'
  BY <1>1, <1>2, <1>3 DEF IInv, TypeOK
<1>6. PathNeverTorn' /\ OneWriter'
  BY <1>1, <1>2 DEF IInv, PathNeverTorn, OneWriter, Saving
<1>7. SavedMeansDurable'
  BY <1>1 DEF IInv, SavedMeansDurable, Reports
<1>8. DownIsEmpty' /\ JobsAreOurs' /\ EventsAreOurs' /\ ToldIsOfDescent'
  BY <1>1, <1>2 DEF IInv, DownIsEmpty, JobsAreOurs, EventsAreOurs, ToldIsOfDescent
<1>9. RenameReady'
  BY <1>1, <1>2, <1>4 DEF RenameReady
<1>10. FileAge' /\ OnTheWayIsNewer' /\ PersistedOnlyAfterRename'
  BY <1>1, <1>2 DEF IInv, FileAge, OnTheWayIsNewer, PersistedOnlyAfterRename,
                    Ancestor, Unsaved
<1> QED
  BY <1>5, <1>6, <1>7, <1>8, <1>9, <1>10 DEF IInv

LEMMA WriteTempIInv == ASSUME IInv, NEW w \in Writers, WriteTemp(w) PROVE IInv'
<1>1. /\ pc[w] = "write" /\ UNCHANGED <<mainPc, boots, restored, path, interval,
           tickCount, heartbeat, inFlight, job, queue, pending, delivered, file>>
  BY DEF WriteTemp, mainVars, eventVars
<1>2. /\ pc'[w] \in {"rename", "clear"} /\ pc' \in [Writers -> Stages]
      /\ \A v \in Writers : v # w => pc'[v] = pc[v]
  BY DEF WriteTemp, Goto, IInv, TypeOK, Stages
<1>3. job[w].snap \in Snapshots /\ job[w].unique \in Suffixes
  BY <1>1 DEF IInv, TypeOK, Jobs
<1>4. /\ temp' \in [Suffixes -> Snapshots \cup {NoFile, Torn}]
      /\ pc'[w] = "rename" => temp'[job[w].unique] = job[w].snap
  <2>1. CASE /\ Goto(w, "rename")
             /\ temp' = [temp EXCEPT ![job[w].unique] = job[w].snap]
    BY <1>3, <2>1 DEF IInv, TypeOK
  <2>2. CASE Goto(w, "clear") /\ UNCHANGED temp
    BY <2>2 DEF Goto, IInv, TypeOK
  <2> QED
    BY <2>1, <2>2 DEF WriteTemp
<1>5. \A v \in Writers : v # w => pc[v] \in {"none", "post"}
  BY <1>1, OthersNotSaving
<1>6. TypeOK'
  BY <1>1, <1>2, <1>4 DEF IInv, TypeOK
<1>7. PathNeverTorn' /\ OneWriter'
  BY <1>1, <1>2 DEF IInv, PathNeverTorn, OneWriter, Saving
<1>8. SavedMeansDurable'
  BY <1>1 DEF IInv, SavedMeansDurable, Reports
<1>9. DownIsEmpty' /\ JobsAreOurs' /\ EventsAreOurs' /\ ToldIsOfDescent'
  BY <1>1, <1>2 DEF IInv, DownIsEmpty, JobsAreOurs, EventsAreOurs, ToldIsOfDescent
<1>10. RenameReady'
  BY <1>1, <1>2, <1>4, <1>5 DEF RenameReady
<1>11. FileAge' /\ OnTheWayIsNewer' /\ PersistedOnlyAfterRename'
  BY <1>1, <1>2 DEF IInv, FileAge, OnTheWayIsNewer, PersistedOnlyAfterRename,
                    Ancestor, Unsaved
<1> QED
  BY <1>6, <1>7, <1>8, <1>9, <1>10, <1>11 DEF IInv

\* What the rename puts at the state file's path.
LEMMA RenamePutsSnapshot ==
    ASSUME IInv, NEW w \in Writers, RenameTemp(w), file' # file
    PROVE  /\ file' = job[w].snap /\ file' \in Snapshots
           /\ file'.boot = boots /\ file'.ticks \in 1 .. heartbeat
           /\ Ancestor => file \in Snapshots /\ file.ticks < file'.ticks
<1>1. pc[w] = "rename"
  BY DEF RenameTemp
<1>2. file' = job[w].snap
  BY <1>1 DEF RenameTemp, IInv, RenameReady
<1>3. job[w].snap \in Snapshots
  BY DEF IInv, TypeOK, Jobs
<1>4. job[w].snap.boot = boots /\ job[w].snap.ticks \in 1 .. heartbeat
  BY <1>1 DEF IInv, JobsAreOurs
<1>5. Ancestor => file \in Snapshots /\ file.ticks < job[w].snap.ticks
  BY <1>1 DEF IInv, OnTheWayIsNewer, TypeOK, PathNeverTorn, Ancestor
<1> QED
  BY <1>2, <1>3, <1>4, <1>5

LEMMA RenameTempIInv == ASSUME IInv, NEW w \in Writers, RenameTemp(w) PROVE IInv'
<1>1. /\ pc[w] = "rename" /\ UNCHANGED <<mainPc, boots, restored, path, interval,
           tickCount, heartbeat, inFlight, queue, pending, delivered>>
  BY DEF RenameTemp, mainVars, eventVars
<1>2. /\ pc'[w] = "clear" /\ pc' \in [Writers -> Stages]
      /\ \A v \in Writers : v # w => pc'[v] = pc[v]
  BY DEF RenameTemp, Goto, IInv, TypeOK, Stages
<1>3. /\ job' \in [Writers -> Jobs]
      /\ job'[w].snap = job[w].snap /\ job'[w].unique = job[w].unique
      /\ \A v \in Writers : v # w => job'[v] = job[v]
  <2>1. job[w] \in Jobs /\ job \in [Writers -> Jobs]
    BY DEF IInv, TypeOK
  <2>2. CASE job' = [job EXCEPT ![w].persisted = TRUE]
    BY <2>1, <2>2 DEF Jobs
  <2>3. CASE UNCHANGED job
    BY <2>1, <2>3
  <2> QED
    BY <2>2, <2>3 DEF RenameTemp
<1>4. temp' \in [Suffixes -> Snapshots \cup {NoFile, Torn}]
  BY DEF RenameTemp, IInv, TypeOK
<1>5. \A v \in Writers : v # w => pc[v] \in {"none", "post"}
  BY <1>1, OthersNotSaving
<1>6. /\ job[w].persisted = FALSE
      /\ job[w].snap \in Snapshots
      /\ job[w].snap.boot = boots /\ job[w].snap.ticks \in 1 .. heartbeat
  BY <1>1 DEF IInv, TypeOK, Jobs, PersistedOnlyAfterRename, Unsaved, JobsAreOurs
<1>7. \/ UNCHANGED file /\ job' = job
      \/ file' = job[w].snap
  BY <1>1 DEF RenameTemp, IInv, RenameReady
<1>8. file' \in Snapshots \cup {NoFile} /\ PathNeverTorn'
  BY <1>6, <1>7, SnapshotAssumption DEF IInv, TypeOK, PathNeverTorn
<1>9. TypeOK'
  BY <1>1, <1>2, <1>3, <1>4, <1>8 DEF IInv, TypeOK
<1>10. OneWriter'
  BY <1>1, <1>2 DEF IInv, OneWriter, Saving
<1>11. SavedMeansDurable'
  <2>1. CASE file' = file /\ job' = job
    <3>1. \A e \in Reports' : e \in Reports \/ e.persisted = FALSE
      BY <1>1, <2>1 DEF Reports
    <3> QED
      BY <1>1, <2>1, <3>1, SavedStays
  <2>2. CASE file' = job[w].snap
    <3> SUFFICES ASSUME NEW e \in Reports', e.persisted
                 PROVE  /\ job[w].snap.boot >= e.snap.boot
                        /\ job[w].snap.ticks >= e.snap.ticks
                        /\ heartbeat >= e.snap.ticks
      BY <1>1, <1>6, <2>2 DEF SavedMeansDurable
    <3>1. boots \in Nat /\ heartbeat \in Nat
      BY DEF IInv, TypeOK
    <3>2. CASE e = [snap |-> job'[w].snap, persisted |-> job'[w].persisted]
      BY <1>3, <1>6, <3>1, <3>2
    <3>3. CASE e # [snap |-> job'[w].snap, persisted |-> job'[w].persisted]
      <4>1. e \in Reports
        BY <1>1, <1>3, <3>3 DEF Reports
      <4>2. /\ file \in Snapshots /\ file.ticks >= e.snap.ticks
            /\ heartbeat >= e.snap.ticks
        BY <4>1 DEF IInv, SavedMeansDurable
      <4>3. Ancestor /\ e.snap.boot <= boots
        BY <4>1, PersistedIsOfDescent
      <4>4. e.snap.boot \in Nat /\ e.snap.ticks \in Nat /\ file.ticks \in Nat
        BY <4>1, <4>2, ReportsAreTyped DEF IInv, Snapshots
      <4>5. file.ticks < job[w].snap.ticks
        BY <1>1, <4>3 DEF IInv, OnTheWayIsNewer
      <4> QED
        BY <1>6, <3>1, <4>2, <4>3, <4>4, <4>5
    <3> QED
      BY <3>2, <3>3
  <2> QED
    BY <1>7, <2>1, <2>2
<1>12. DownIsEmpty' /\ JobsAreOurs' /\ EventsAreOurs' /\ ToldIsOfDescent'
  BY <1>1, <1>2, <1>3 DEF IInv, DownIsEmpty, JobsAreOurs, EventsAreOurs, ToldIsOfDescent
<1>13. RenameReady'
  BY <1>2, <1>5 DEF RenameReady
<1>14. FileAge'
  BY <1>1, <1>6, <1>7 DEF IInv, TypeOK, FileAge, Ancestor
<1>15. OnTheWayIsNewer' /\ PersistedOnlyAfterRename'
  BY <1>2, <1>3, <1>5 DEF IInv, OnTheWayIsNewer, PersistedOnlyAfterRename, Unsaved
<1> QED
  BY <1>8, <1>9, <1>10, <1>11, <1>12, <1>13, <1>14, <1>15 DEF IInv

LEMMA ClearInFlightIInv ==
    ASSUME IInv, NEW w \in Writers, ClearInFlight(w) PROVE IInv'
<1>1. /\ pc[w] = "clear" /\ inFlight' = FALSE
      /\ UNCHANGED <<mainPc, boots, restored, path, interval, tickCount, heartbeat,
                     job, queue, pending, delivered, file, temp>>
  BY DEF ClearInFlight, mainVars, eventVars, diskVars
<1>2. /\ pc'[w] = "post" /\ pc' \in [Writers -> Stages]
      /\ \A v \in Writers : v # w => pc'[v] = pc[v]
  BY DEF ClearInFlight, Goto, IInv, TypeOK, Stages
<1>3. \A v \in Writers : v # w => pc[v] \in {"none", "post"}
  BY <1>1, OthersNotSaving
<1>4. TypeOK'
  BY <1>1, <1>2 DEF IInv, TypeOK
<1>5. PathNeverTorn' /\ OneWriter'
  BY <1>1, <1>2, <1>3 DEF IInv, PathNeverTorn, OneWriter, Saving
<1>6. SavedMeansDurable'
  BY <1>1 DEF IInv, SavedMeansDurable, Reports
<1>7. DownIsEmpty' /\ JobsAreOurs' /\ EventsAreOurs' /\ ToldIsOfDescent'
  BY <1>1, <1>2 DEF IInv, DownIsEmpty, JobsAreOurs, EventsAreOurs, ToldIsOfDescent
<1>8. RenameReady' /\ OnTheWayIsNewer' /\ PersistedOnlyAfterRename' /\ FileAge'
  BY <1>1, <1>2 DEF IInv, RenameReady, OnTheWayIsNewer, PersistedOnlyAfterRename,
                    FileAge, Ancestor, Unsaved
<1> QED
  BY <1>4, <1>5, <1>6, <1>7, <1>8 DEF IInv

LEMMA PostSavedIInv == ASSUME IInv, NEW w \in Writers, PostSaved(w) PROVE IInv'
<1> DEFINE new == [snap |-> job[w].snap, persisted |-> job[w].persisted]
<1>1. /\ pc[w] = "post" /\ queue' = queue \cup {new}
      /\ UNCHANGED <<mainPc, boots, restored, path, interval, tickCount, heartbeat,
                     inFlight, pending, delivered, file, temp>>
  BY DEF PostSaved, mainVars, diskVars
<1>2. /\ pc'[w] = "none" /\ pc' \in [Writers -> Stages]
      /\ \A v \in Writers : v # w => pc'[v] = pc[v]
  BY DEF PostSaved, Goto, IInv, TypeOK, Stages
<1>3. /\ job'[w] = NoJob /\ job' \in [Writers -> Jobs]
      /\ \A v \in Writers : v # w => job'[v] = job[v]
  BY NoJobIsAJob DEF PostSaved, IInv, TypeOK
<1>4. new \in Events /\ new \in Reports
  BY DEF IInv, TypeOK, Jobs, Events, Reports
<1>5. TypeOK'
  BY <1>1, <1>2, <1>3, <1>4 DEF IInv, TypeOK
<1>6. PathNeverTorn' /\ OneWriter'
  BY <1>1, <1>2 DEF IInv, PathNeverTorn, OneWriter, Saving
<1>7. SavedMeansDurable'
  <2>1. \A e \in Reports' : e \in Reports \/ e.persisted = FALSE
    BY <1>1, <1>3, <1>4 DEF Reports, NoJob
  <2> QED
    BY <1>1, <2>1, SavedStays
<1>8. DownIsEmpty' /\ JobsAreOurs'
  BY <1>1, <1>2, <1>3 DEF IInv, DownIsEmpty, JobsAreOurs
<1>9. EventsAreOurs' /\ ToldIsOfDescent'
  BY <1>1 DEF IInv, EventsAreOurs, JobsAreOurs, ToldIsOfDescent
<1>10. RenameReady' /\ OnTheWayIsNewer' /\ PersistedOnlyAfterRename' /\ FileAge'
  BY <1>1, <1>2, <1>3 DEF IInv, RenameReady, OnTheWayIsNewer, FileAge, Ancestor,
                          PersistedOnlyAfterRename, NoJob
<1> QED
  BY <1>5, <1>6, <1>7, <1>8, <1>9, <1>10 DEF IInv

-----------------------------------------------------------------------------
LEMMA StutterIInv == ASSUME IInv, UNCHANGED vars PROVE IInv'
<1> USE DEF vars, mainVars, threadVars, eventVars, diskVars
<1>1. TypeOK' /\ PathNeverTorn' /\ OneWriter'
  BY DEF IInv, TypeOK, PathNeverTorn, OneWriter, Saving
<1>2. SavedMeansDurable' /\ DownIsEmpty' /\ RenameReady' /\ JobsAreOurs'
  BY DEF IInv, SavedMeansDurable, Reports, DownIsEmpty, RenameReady, JobsAreOurs
<1>3. FileAge' /\ OnTheWayIsNewer' /\ PersistedOnlyAfterRename'
  BY DEF IInv, FileAge, OnTheWayIsNewer, PersistedOnlyAfterRename, Ancestor
<1>4. EventsAreOurs' /\ ToldIsOfDescent'
  BY DEF IInv, EventsAreOurs, ToldIsOfDescent
<1> QED
  BY <1>1, <1>2, <1>3, <1>4 DEF IInv

LEMMA NextIInv == IInv /\ [Next]_vars => IInv'
<1> SUFFICES ASSUME IInv, [Next]_vars PROVE IInv'
  OBVIOUS
<1>1. CASE OnStarted
  BY <1>1, OnStartedIInv
<1>2. CASE Tick
  BY <1>2, TickIInv
<1>3. CASE Drain
  BY <1>3, DrainIInv
<1>4. CASE Kill
  BY <1>4, KillIInv
<1>5. ASSUME NEW w \in Writers, Writer(w) PROVE IInv'
  BY <1>5, OpenTempIInv, WriteTempIInv, RenameTempIInv, ClearInFlightIInv,
     PostSavedIInv DEF Writer
<1>6. CASE UNCHANGED vars
  BY <1>6, StutterIInv
<1> QED
  BY <1>1, <1>2, <1>3, <1>4, <1>5, <1>6 DEF Next

\* The inductive invariant holds in every reachable state: on it rest the
\* promises of write_snapshot_bytes_file and of snapshot_in_flight_.
THEOREM Inductive == Spec => []IInv
BY InitIInv, NextIInv, PTL DEF Spec

-----------------------------------------------------------------------------
\* Every variable of the model has its type in every reachable state.
THEOREM TypeCorrect == Spec => []TypeOK
<1>1. IInv => TypeOK
  BY DEF IInv
<1> QED
  BY <1>1, Inductive, PTL

\* "A crash or a concurrent reader can never observe a half-written state file
\* at path itself" (write_snapshot_bytes_file), for kills of the process.
THEOREM WholeFileAtPath == Spec => []PathNeverTorn
<1>1. IInv => PathNeverTorn
  BY DEF IInv
<1> QED
  BY <1>1, Inductive, PTL

\* snapshot_in_flight_ keeps writers apart, and is never set without one.
THEOREM WritersExclude == Spec => []OneWriter
<1>1. IInv => OneWriter
  BY DEF IInv
<1> QED
  BY <1>1, Inductive, PTL

\* persisted_to_disk is true of the state file, from the rename on and for as
\* long as a process goes on from what this one held.
THEOREM ReportsAreTrue == Spec => []SavedMeansDurable
<1>1. IInv => SavedMeansDurable
  BY DEF IInv
<1> QED
  BY <1>1, Inductive, PTL

-----------------------------------------------------------------------------
\* Only a rename changes the state file.
LEMMA OnlyRenameReplaces ==
    ASSUME Next, file' # file PROVE \E w \in Writers : RenameTemp(w)
BY DEF Next, OnStarted, Tick, Drain, Kill, Writer, OpenTemp, WriteTemp,
       ClearInFlight, PostSaved, diskVars

\* The state file is only replaced by a newer snapshot of the same descent.
THEOREM FileMonotone == Spec => FileNeverGoesBack
<1> DEFINE Newer == file' # file /\ file \in Snapshots /\ (restored \/ file.boot = boots)
                      => file' \in Snapshots /\ file'.ticks > file.ticks
<1>1. ASSUME IInv, Next PROVE Newer
  <2> SUFFICES ASSUME file' # file, file \in Snapshots, restored \/ file.boot = boots
               PROVE  file' \in Snapshots /\ file'.ticks > file.ticks
    OBVIOUS
  <2>1. PICK w \in Writers : RenameTemp(w)
    BY <1>1, OnlyRenameReplaces
  <2>2. file # NoFile
    BY SnapshotAssumption
  <2>3. file' \in Snapshots /\ file.ticks < file'.ticks
    BY <1>1, <2>1, <2>2, RenamePutsSnapshot DEF Ancestor
  <2>4. file.ticks \in Nat /\ file'.ticks \in Nat
    BY <2>3 DEF Snapshots
  <2> QED
    BY <2>3, <2>4
<1>2. IInv /\ [Next]_vars => [Newer]_vars
  BY <1>1
<1> QED
  BY <1>2, Inductive, PTL DEF Spec, FileNeverGoesBack

-----------------------------------------------------------------------------
\* SnapshotPersistence implements DurableState.

LEMMA ToldAre ==
    \A t : t \in ToldDurable <=> \E e \in delivered : e.persisted /\ t = e.snap.ticks
BY DEF ToldDurable

LEMMA ToldAreNext ==
    \A t : t \in ToldDurable' <=> \E e \in delivered' : e.persisted /\ t = e.snap.ticks
BY DEF ToldDurable

LEMMA InitRefines == Init => Durable!Init
BY DEF Init, Durable!Init, Up, ToldDurable

\* A frame delivers reports of this process, each of them true.
LEMMA NewsIsOwn ==
    ASSUME IInv, Tick
    PROVE  \E news \in SUBSET Durable!OwnDurable : ToldDurable' = ToldDurable \cup news
<1> DEFINE News == {e.snap.ticks : e \in {d \in pending : d.persisted}}
<1>1. delivered' = delivered \cup pending
  BY DEF Tick, Update
<1>2. \A t : t \in News <=> \E e \in pending : e.persisted /\ t = e.snap.ticks
  OBVIOUS
<1>3. ASSUME NEW e \in pending, e.persisted PROVE e.snap.ticks \in Durable!OwnDurable
  <2>1. e \in Reports /\ e.snap.boot = boots
    BY <1>3 DEF Reports, IInv, EventsAreOurs
  <2>2. file \in Snapshots /\ file.boot >= boots /\ file.ticks >= e.snap.ticks
    BY <1>3, <2>1 DEF IInv, SavedMeansDurable
  <2>3. file # NoFile /\ file.boot <= boots
    BY <2>2, SnapshotAssumption DEF IInv, FileAge
  <2>4. /\ e.snap.ticks \in Nat /\ boots \in Nat
        /\ file.boot \in Nat /\ file.ticks \in Nat
    BY <2>1, <2>2, ReportsAreTyped DEF IInv, TypeOK, Snapshots
  <2>5. file.boot = boots /\ e.snap.ticks \in 0 .. file.ticks
    BY <2>2, <2>3, <2>4
  <2> QED
    BY <2>3, <2>5 DEF Durable!OwnDurable
<1>4. News \in SUBSET Durable!OwnDurable
  BY <1>2, <1>3
<1> HIDE DEF News
<1>5. ToldDurable' = ToldDurable \cup News
  BY <1>1, <1>2, ToldAre, ToldAreNext
<1> QED
  BY <1>4, <1>5

LEMMA NextRefines ==
    ASSUME IInv, [Next]_vars PROVE [Durable!Next]_(Durable!vars)
<1> USE DEF mainVars, threadVars, eventVars, diskVars, Up
<1>1. CASE OnStarted
  <2>1. /\ \/ file \in Snapshots /\ restored' = TRUE /\ heartbeat' = file.ticks
           \/ restored' = FALSE /\ heartbeat' = 0
        /\ delivered' = IF restored' THEN delivered ELSE {}
    <3>1. CASE path' = TRUE /\ SweepTemps /\ ReadSnapshot
      BY <1>1, <3>1 DEF ReadSnapshot, OnStarted
    <3>2. CASE path' = FALSE /\ restored' = FALSE /\ heartbeat' = 0 /\ UNCHANGED temp
      BY <1>1, <3>2 DEF OnStarted
    <3> QED
      BY <1>1, <3>1, <3>2 DEF OnStarted
  <2>2. ~Up /\ Up' /\ boots' = boots + 1 /\ file' = file
    BY <1>1 DEF OnStarted
  <2>3. \/ /\ file # NoFile /\ restored' = TRUE /\ heartbeat' = file.ticks
           /\ ToldDurable' = ToldDurable
        \/ restored' = FALSE /\ heartbeat' = 0 /\ ToldDurable' = {}
    <3>1. restored' = TRUE => ToldDurable' = ToldDurable
      BY <2>1 DEF ToldDurable
    <3>2. restored' = FALSE => ToldDurable' = {}
      BY <2>1 DEF ToldDurable
    <3> QED
      BY <2>1, <3>1, <3>2, SnapshotAssumption
  <2>4. Durable!Boot
    BY <2>2, <2>3 DEF Durable!Boot
  <2> QED
    BY <2>4 DEF Durable!Next
<1>2. CASE Tick
  <2>1. Durable!Work
    BY <1>2, NewsIsOwn DEF Tick, Durable!Work
  <2> QED
    BY <2>1 DEF Durable!Next
<1>3. CASE Drain
  BY <1>3 DEF Drain, Durable!vars, ToldDurable
<1>4. CASE Kill
  <2>1. Durable!Crash
    BY <1>4 DEF Kill, Durable!Crash, ToldDurable
  <2> QED
    BY <2>1 DEF Durable!Next
<1>5. ASSUME NEW w \in Writers, Writer(w) PROVE [Durable!Next]_(Durable!vars)
  <2>1. UNCHANGED <<mainPc, boots, restored, heartbeat, ToldDurable>>
    BY <1>5 DEF Writer, OpenTemp, WriteTemp, RenameTemp, ClearInFlight, PostSaved,
                ToldDurable
  <2>2. CASE file' = file
    BY <2>1, <2>2 DEF Durable!vars
  <2>3. CASE file' # file
    <3>1. RenameTemp(w)
      BY <1>5, <2>3 DEF Writer, OpenTemp, WriteTemp, ClearInFlight, PostSaved
    <3>2. /\ file' \in Snapshots
          /\ file'.boot = boots /\ file'.ticks \in 1 .. heartbeat
          /\ Ancestor => file.ticks < file'.ticks
      BY <2>3, <3>1, RenamePutsSnapshot
    <3>3. file' = [boot |-> boots, ticks |-> file'.ticks]
      BY <3>2 DEF Snapshots
    <3>4. Up
      BY <3>1 DEF RenameTemp, IInv, DownIsEmpty
    <3>5. Durable!Commit
      BY <2>1, <3>2, <3>3, <3>4 DEF Durable!Commit, Durable!Ancestor, Ancestor
    <3> QED
      BY <3>5 DEF Durable!Next
  <2> QED
    BY <2>2, <2>3
<1>6. CASE UNCHANGED vars
  BY <1>6 DEF vars, Durable!vars, ToldDurable
<1> QED
  BY <1>1, <1>2, <1>3, <1>4, <1>5, <1>6 DEF Next

\* The threads, the flag, the temporary files and the sweep implement a single
\* durable value that is replaced and read back as a whole.
THEOREM ImplementsDurableState == Spec => DurableSpec
<1>1. Init => Durable!Init
  BY InitRefines
<1>2. IInv /\ [Next]_vars => [Durable!Next]_(Durable!vars)
  BY NextRefines
<1> QED
  BY <1>1, <1>2, Inductive, PTL DEF Spec, DurableSpec, Durable!Spec
-----------------------------------------------------------------------------
\* What DurableState promises, shown of DurableState alone: no definition of
\* the threads, files and events above is used down to ToldSurvives.

DurableInv ==
    /\ boots \in Nat /\ heartbeat \in Nat /\ restored \in BOOLEAN
    /\ file \in Snapshots \cup {NoFile}
    /\ ToldDurable \subseteq Nat
    /\ file # NoFile => file.boot <= boots
    /\ Durable!Ancestor => file.ticks <= heartbeat
    /\ ToldDurable # {} => Durable!Ancestor
    /\ \A t \in ToldDurable : t <= file.ticks

LEMMA BootKeepsTold == ASSUME DurableInv, Durable!Boot PROVE DurableInv'
<1>1. /\ boots' = boots + 1 /\ file' = file
      /\ \/ /\ file # NoFile /\ restored' = TRUE /\ heartbeat' = file.ticks
            /\ ToldDurable' = ToldDurable
         \/ restored' = FALSE /\ heartbeat' = 0 /\ ToldDurable' = {}
  BY DEF Durable!Boot
<1>2. file # NoFile => file.boot \in Nat /\ file.ticks \in Nat /\ file.boot <= boots
  BY DEF DurableInv, Snapshots
<1>3. file # NoFile => file.boot # boots'
  BY <1>1, <1>2 DEF DurableInv
<1>4. Durable!Ancestor' => restored' = TRUE
  BY <1>1, <1>3 DEF Durable!Ancestor
<1>5. Durable!Ancestor' => file.ticks <= heartbeat'
  BY <1>1, <1>2, <1>4 DEF Durable!Ancestor
<1>6. ToldDurable' # {} => Durable!Ancestor'
  BY <1>1 DEF Durable!Ancestor
<1>7. file' # NoFile => file'.boot <= boots'
  BY <1>1, <1>2 DEF DurableInv
<1>8. heartbeat' \in Nat /\ boots' \in Nat
  BY <1>1, <1>2 DEF DurableInv
<1>9. restored' \in BOOLEAN
  BY <1>1
<1> QED
  BY <1>1, <1>5, <1>6, <1>7, <1>8, <1>9 DEF DurableInv

LEMMA WorkKeepsTold == ASSUME DurableInv, Durable!Work PROVE DurableInv'
<1>1. /\ heartbeat' = heartbeat + 1 /\ UNCHANGED <<file, boots, restored>>
  BY DEF Durable!Work
<1>2. PICK news \in SUBSET Durable!OwnDurable : ToldDurable' = ToldDurable \cup news
  BY DEF Durable!Work
<1>3. file # NoFile => file.ticks \in Nat
  BY DEF DurableInv, Snapshots
<1>4. \A t \in news : Durable!Ancestor /\ t \in Nat /\ t <= file.ticks
  BY <1>2, <1>3 DEF Durable!OwnDurable, Durable!Ancestor
<1>5. Durable!Ancestor' <=> Durable!Ancestor
  BY <1>1 DEF Durable!Ancestor
<1>6. Durable!Ancestor => file.ticks <= heartbeat'
  BY <1>1, <1>3 DEF DurableInv, Durable!Ancestor
<1>7. ToldDurable' \subseteq Nat /\ \A t \in ToldDurable' : t <= file.ticks
  BY <1>2, <1>4 DEF DurableInv
<1>8. ToldDurable' # {} => Durable!Ancestor
  BY <1>2, <1>4 DEF DurableInv
<1> QED
  BY <1>1, <1>5, <1>6, <1>7, <1>8 DEF DurableInv

LEMMA CommitKeepsTold == ASSUME DurableInv, Durable!Commit PROVE DurableInv'
<1>1. UNCHANGED <<boots, restored, heartbeat, ToldDurable>>
  BY DEF Durable!Commit
<1>2. PICK t \in 1 .. heartbeat :
        (Durable!Ancestor => file.ticks < t) /\ file' = [boot |-> boots, ticks |-> t]
  BY DEF Durable!Commit
<1>3. /\ file' \in Snapshots /\ file' # NoFile
      /\ file'.boot = boots /\ file'.ticks = t /\ t <= heartbeat
  BY <1>2, SnapshotAssumption DEF DurableInv, Snapshots
<1>4. Durable!Ancestor' /\ boots \in Nat /\ boots' \in Nat
  BY <1>1, <1>3 DEF DurableInv, Durable!Ancestor
<1>5. ASSUME NEW u \in ToldDurable PROVE u <= t
  <2>1. file \in Snapshots /\ file.ticks < t /\ u <= file.ticks
    BY <1>2, <1>5 DEF DurableInv, Durable!Ancestor
  <2>2. file.ticks \in Nat /\ u \in Nat
    BY <1>5, <2>1 DEF DurableInv, Snapshots
  <2> QED
    BY <2>1, <2>2
<1>6. \A u \in ToldDurable' : u <= file'.ticks
  BY <1>1, <1>3, <1>5
<1>7. /\ heartbeat' \in Nat /\ restored' \in BOOLEAN /\ ToldDurable' \subseteq Nat
      /\ file'.boot <= boots' /\ file'.ticks <= heartbeat'
  BY <1>1, <1>3, <1>4 DEF DurableInv
<1> QED
  BY <1>3, <1>4, <1>6, <1>7 DEF DurableInv

\* What on_snapshot_saved() was told is durable outlives the process: the
\* durable value and the process that continues from it have it, a promise any
\* implementation of DurableState keeps.
THEOREM ToldSurvives == DurableSpec => []Durable!ToldIsKept
<1>1. Durable!Init => DurableInv
  <2> SUFFICES ASSUME Durable!Init PROVE DurableInv
    OBVIOUS
  <2>1. /\ file = NoFile /\ restored = FALSE
        /\ ToldDurable = {} /\ boots = 0 /\ heartbeat = 0
    BY DEF Durable!Init
  <2>2. ~Durable!Ancestor
    BY <2>1 DEF Durable!Ancestor
  <2> QED
    BY <2>1, <2>2 DEF DurableInv
<1>2. DurableInv /\ [Durable!Next]_(Durable!vars) => DurableInv'
  <2> SUFFICES ASSUME DurableInv, [Durable!Next]_(Durable!vars) PROVE DurableInv'
    OBVIOUS
  <2>1. CASE Durable!Crash
    BY <2>1 DEF Durable!Crash, DurableInv, Durable!Ancestor
  <2>2. CASE UNCHANGED Durable!vars
    BY <2>2 DEF Durable!vars, DurableInv, Durable!Ancestor
  <2> QED
    BY <2>1, <2>2, BootKeepsTold, WorkKeepsTold, CommitKeepsTold DEF Durable!Next
<1>3. DurableInv => Durable!ToldIsKept
  <2> SUFFICES ASSUME DurableInv, NEW t \in ToldDurable
               PROVE  file # NoFile /\ t <= file.ticks /\ t <= heartbeat
    BY DEF Durable!ToldIsKept
  <2>1. file # NoFile /\ t <= file.ticks /\ file.ticks <= heartbeat
    BY DEF DurableInv, Durable!Ancestor
  <2>2. t \in Nat /\ file.ticks \in Nat /\ heartbeat \in Nat
    BY <2>1 DEF DurableInv, Snapshots
  <2> QED
    BY <2>1, <2>2
<1> QED
  BY <1>1, <1>2, <1>3, PTL DEF DurableSpec, Durable!Spec

\* So the threads, the files and the events keep it.
THEOREM SavedSurvives == Spec => []Durable!ToldIsKept
BY ImplementsDurableState, ToldSurvives, PTL

-----------------------------------------------------------------------------
\* A report on its way is in one place only, and reaches the next one.

\* No two threads carry the same snapshot.
DistinctJobs ==
    \A v, w \in Writers :
        pc[v] # "none" /\ pc[w] # "none" /\ job[v].snap = job[w].snap => v = w

\* What left a thread of this process was serialized in a frame that is over.
ReportedBefore ==
    \A s \in InQueue \cup InDispatcher \cup Delivered : s.boot = boots => s.ticks <= heartbeat

PlaceInv == OnePlace /\ DistinctJobs /\ ReportedBefore

\* Membership in the four places.
LEMMA Places ==
    /\ \A s : s \in InThreads <=> \E w \in Writers : pc[w] # "none" /\ s = job[w].snap
    /\ \A s : s \in InQueue <=> \E e \in queue : s = e.snap
    /\ \A s : s \in InDispatcher <=> \E e \in pending : s = e.snap
    /\ \A s : s \in Delivered <=> \E e \in delivered : s = e.snap
BY DEF InThreads, InQueue, InDispatcher, Delivered

LEMMA PlacesNext ==
    /\ \A s : s \in InThreads' <=> \E w \in Writers : pc'[w] # "none" /\ s = job'[w].snap
    /\ \A s : s \in InQueue' <=> \E e \in queue' : s = e.snap
    /\ \A s : s \in InDispatcher' <=> \E e \in pending' : s = e.snap
    /\ \A s : s \in Delivered' <=> \E e \in delivered' : s = e.snap
BY DEF InThreads, InQueue, InDispatcher, Delivered

\* A step after which every thread carries what it carried.
SameThreads ==
    \A w \in Writers : /\ pc'[w] = "none" <=> pc[w] = "none"
                       /\ job'[w].snap = job[w].snap

LEMMA SameThreadsStay ==
    ASSUME SameThreads PROVE InThreads' = InThreads /\ (DistinctJobs => DistinctJobs')
<1>1. InThreads' = InThreads
  BY Places, PlacesNext DEF SameThreads
<1>2. DistinctJobs => DistinctJobs'
  BY DEF SameThreads, DistinctJobs
<1> QED
  BY <1>1, <1>2

\* The steps of a thread before its post leave every report where it is.
LEMMA FileSteps ==
    ASSUME IInv, NEW w \in Writers,
           OpenTemp(w) \/ WriteTemp(w) \/ RenameTemp(w) \/ ClearInFlight(w)
    PROVE  /\ SameThreads
           /\ UNCHANGED <<boots, heartbeat, queue, pending, delivered>>
<1>1. UNCHANGED <<boots, heartbeat, queue, pending, delivered>>
  BY DEF OpenTemp, WriteTemp, RenameTemp, ClearInFlight, mainVars, eventVars
<1>2. pc[w] # "none" /\ pc'[w] # "none" /\ \A v \in Writers : v # w => pc'[v] = pc[v]
  BY DEF IInv, TypeOK, OpenTemp, WriteTemp, RenameTemp, ClearInFlight, Goto
<1>3. \A v \in Writers : job'[v].snap = job[v].snap
  <2>1. job \in [Writers -> Jobs] /\ job[w] \in Jobs
    BY DEF IInv, TypeOK
  <2>2. CASE job' = [job EXCEPT ![w].persisted = TRUE]
    BY <2>1, <2>2 DEF Jobs
  <2>3. CASE UNCHANGED job
    BY <2>3
  <2> QED
    BY <2>2, <2>3 DEF OpenTemp, WriteTemp, RenameTemp, ClearInFlight
<1> QED
  BY <1>1, <1>2, <1>3 DEF SameThreads

LEMMA UntouchedPlaces ==
    ASSUME PlaceInv, SameThreads, UNCHANGED <<boots, heartbeat, queue, pending, delivered>>
    PROVE  PlaceInv'
<1>1. /\ InThreads' = InThreads /\ InQueue' = InQueue
      /\ InDispatcher' = InDispatcher /\ Delivered' = Delivered
  BY SameThreadsStay DEF InQueue, InDispatcher, Delivered
<1>2. DistinctJobs'
  BY SameThreadsStay DEF PlaceInv
<1> QED
  BY <1>1, <1>2 DEF PlaceInv, OnePlace, ReportedBefore

LEMMA TickPlaces == ASSUME IInv, PlaceInv, Tick PROVE PlaceInv'
<1>1. /\ boots' = boots /\ heartbeat \in Nat /\ heartbeat' = heartbeat + 1
      /\ queue' = queue /\ pending' = {} /\ delivered' = delivered \cup pending
  BY DEF Tick, Update, IInv, TypeOK
<1>2. InQueue' = InQueue /\ InDispatcher' = {} /\ Delivered' = Delivered \cup InDispatcher
  <2>1. \A s : s \in Delivered' <=> s \in Delivered \/ s \in InDispatcher
    BY <1>1, Places, PlacesNext
  <2> QED
    BY <1>1, <2>1 DEF InQueue, InDispatcher
<1>3. InQueue \cup InDispatcher \cup Delivered \subseteq Snapshots
  BY Places DEF IInv, TypeOK, Events
<1>4. ReportedBefore'
  <2>1. \A s \in InQueue \cup InDispatcher \cup Delivered :
          s.ticks \in Nat /\ (s.boot = boots => s.ticks <= heartbeat)
    BY <1>3 DEF PlaceInv, ReportedBefore, Snapshots
  <2> QED
    BY <1>1, <1>2, <2>1 DEF ReportedBefore
<1>5. CASE UNCHANGED <<inFlight, threadVars>>
  <2>1. SameThreads
    BY <1>5 DEF SameThreads, threadVars
  <2>2. InThreads' = InThreads /\ DistinctJobs'
    BY <2>1, SameThreadsStay DEF PlaceInv
  <2>3. OnePlace'
    BY <1>2, <2>2 DEF PlaceInv, OnePlace
  <2> QED
    BY <1>4, <2>2, <2>3 DEF PlaceInv
<1>6. ASSUME NEW w \in Writers, SpawnWriter(w) PROVE PlaceInv'
  <2> DEFINE new == [boot |-> boots, ticks |-> heartbeat']
  <2>1. /\ pc[w] = "none" /\ pc'[w] # "none" /\ job'[w].snap = new
        /\ \A v \in Writers : v # w => pc'[v] = pc[v] /\ job'[v] = job[v]
    BY <1>6 DEF SpawnWriter, IInv, TypeOK
  <2>2. new.ticks = heartbeat + 1 /\ new.boot = boots
    BY <1>1
  <2>3. \A v \in Writers : pc[v] # "none" => job[v].snap # new
    BY <1>1, <2>2 DEF IInv, JobsAreOurs
  <2>4. new \notin InQueue \cup InDispatcher \cup Delivered
    BY <1>1, <2>2 DEF PlaceInv, ReportedBefore
  <2> HIDE DEF new
  <2>5. DistinctJobs'
    BY <2>1, <2>3 DEF PlaceInv, DistinctJobs
  <2>6. \A s \in InThreads' : s = new \/ s \in InThreads
    BY <2>1, Places, PlacesNext
  <2>7. OnePlace'
    BY <1>2, <2>4, <2>6 DEF PlaceInv, OnePlace
  <2> QED
    BY <1>4, <2>5, <2>7 DEF PlaceInv
<1> QED
  BY <1>5, <1>6 DEF Tick

LEMMA DrainPlaces == ASSUME IInv, PlaceInv, Drain PROVE PlaceInv'
<1>1. /\ UNCHANGED <<boots, heartbeat, pc, job, delivered>>
      /\ pending' = pending \cup queue /\ queue' = {}
  BY DEF Drain, mainVars, threadVars
<1>2. SameThreads
  BY <1>1 DEF SameThreads
<1>3. InThreads' = InThreads /\ DistinctJobs'
  BY <1>2, SameThreadsStay DEF PlaceInv
<1>4. /\ InQueue' = {} /\ InDispatcher' = InDispatcher \cup InQueue
      /\ Delivered' = Delivered
  BY <1>1 DEF InQueue, InDispatcher, Delivered
<1> QED
  BY <1>1, <1>3, <1>4 DEF PlaceInv, OnePlace, ReportedBefore

\* What a post adds to the queue.
LEMMA PostAdds ==
    ASSUME NEW w \in Writers, PostSaved(w)
    PROVE  /\ InQueue' = InQueue \cup {job[w].snap}
           /\ InDispatcher' = InDispatcher /\ Delivered' = Delivered
<1> DEFINE new == [snap |-> job[w].snap, persisted |-> job[w].persisted]
<1>1. queue' = queue \cup {new} /\ pending' = pending /\ delivered' = delivered
  BY DEF PostSaved
<1>2. new.snap = job[w].snap
  OBVIOUS
<1> HIDE DEF new
<1>3. \A s : s \in InQueue' <=> s \in InQueue \/ s = job[w].snap
  BY <1>1, <1>2, Places, PlacesNext
<1>4. InDispatcher' = InDispatcher /\ Delivered' = Delivered
  BY <1>1 DEF InDispatcher, Delivered
<1> QED
  BY <1>3, <1>4

LEMMA PostPlaces == ASSUME IInv, PlaceInv, NEW w \in Writers, PostSaved(w) PROVE PlaceInv'
<1>1. /\ pc[w] = "post" /\ UNCHANGED <<boots, heartbeat, pending, delivered>>
      /\ queue' = queue \cup {[snap |-> job[w].snap, persisted |-> job[w].persisted]}
  BY DEF PostSaved, mainVars
<1>2. /\ pc'[w] = "none"
      /\ \A v \in Writers : v # w => pc'[v] = pc[v] /\ job'[v] = job[v]
  BY DEF PostSaved, Goto, IInv, TypeOK
<1>3. /\ InQueue' = InQueue \cup {job[w].snap}
      /\ InDispatcher' = InDispatcher /\ Delivered' = Delivered
      /\ job[w].snap \in InThreads
  BY <1>1, PostAdds, Places
<1>4. job[w].snap \notin InThreads'
  BY <1>1, <1>2, PlacesNext DEF PlaceInv, DistinctJobs
<1>5. InThreads' \subseteq InThreads
  BY <1>2, Places, PlacesNext
<1>6. DistinctJobs'
  BY <1>2 DEF PlaceInv, DistinctJobs
<1>7. OnePlace'
  BY <1>1, <1>3, <1>4, <1>5 DEF PlaceInv, OnePlace
<1>8. ReportedBefore'
  <2>1. job[w].snap.ticks <= heartbeat
    BY <1>1 DEF IInv, TypeOK, JobsAreOurs
  <2> QED
    BY <1>1, <1>3, <2>1 DEF PlaceInv, ReportedBefore
<1> QED
  BY <1>6, <1>7, <1>8 DEF PlaceInv

\* A start and a kill leave only what was delivered before.
LEMMA EmptyPlaces ==
    ASSUME \A w \in Writers : pc'[w] = "none", queue' = {}, pending' = {},
           \A s \in Delivered' : s.boot = boots' => s.ticks <= heartbeat'
    PROVE  PlaceInv'
<1>1. InThreads' = {} /\ InQueue' = {} /\ InDispatcher' = {}
  BY DEF InThreads, InQueue, InDispatcher
<1> QED
  BY <1>1 DEF PlaceInv, OnePlace, DistinctJobs, ReportedBefore

LEMMA OnStartedPlaces == ASSUME IInv, PlaceInv, OnStarted PROVE PlaceInv'
<1>1. /\ \A w \in Writers : pc'[w] = "none"
      /\ queue' = {} /\ pending' = {} /\ boots' = boots + 1
      /\ delivered' \subseteq delivered
  BY DEF OnStarted, threadVars, IInv, DownIsEmpty
<1>2. ASSUME NEW s \in Delivered' PROVE s.boot # boots'
  <2>1. PICK e \in delivered : s = e.snap
    BY <1>1, PlacesNext
  <2>2. e.snap.boot \in Nat /\ e.snap.boot <= boots /\ boots \in Nat
    BY ReportsAreTyped DEF IInv, TypeOK, ToldIsOfDescent, Reports
  <2> QED
    BY <1>1, <2>1, <2>2
<1> QED
  BY <1>1, <1>2, EmptyPlaces

LEMMA KillPlaces == ASSUME IInv, PlaceInv, Kill PROVE PlaceInv'
<1>1. /\ \A w \in Writers : pc'[w] = "none"
      /\ queue' = {} /\ pending' = {}
      /\ UNCHANGED <<boots, heartbeat, delivered>>
  BY DEF Kill, mainVars
<1>2. \A s \in Delivered' : s.boot = boots' => s.ticks <= heartbeat'
  BY <1>1 DEF PlaceInv, ReportedBefore, Delivered
<1> QED
  BY <1>1, <1>2, EmptyPlaces

LEMMA NextPlaces == ASSUME IInv, PlaceInv, [Next]_vars PROVE PlaceInv'
<1>1. CASE OnStarted
  BY <1>1, OnStartedPlaces
<1>2. CASE Tick
  BY <1>2, TickPlaces
<1>3. CASE Drain
  BY <1>3, DrainPlaces
<1>4. CASE Kill
  BY <1>4, KillPlaces
<1>5. ASSUME NEW w \in Writers, Writer(w) PROVE PlaceInv'
  BY <1>5, FileSteps, UntouchedPlaces, PostPlaces DEF Writer
<1>6. CASE UNCHANGED vars
  BY <1>6, UntouchedPlaces DEF vars, mainVars, threadVars, eventVars, SameThreads
<1> QED
  BY <1>1, <1>2, <1>3, <1>4, <1>5, <1>6 DEF Next

LEMMA InitPlaces == Init => PlaceInv
<1>1. Init => InThreads = {} /\ InQueue = {} /\ InDispatcher = {} /\ Delivered = {}
  BY DEF Init, InThreads, InQueue, InDispatcher, Delivered
<1>2. Init => DistinctJobs
  BY DEF Init, DistinctJobs
<1> QED
  BY <1>1, <1>2 DEF PlaceInv, OnePlace, ReportedBefore

\* A snapshot's report is in one place only on its way to on_snapshot_saved(),
\* so no sink is told twice, however many threads post at once.
THEOREM ReportedInOnePlace == Spec => []OnePlace
<1>1. IInv /\ PlaceInv /\ [Next]_vars => PlaceInv'
  BY NextPlaces
<1>2. PlaceInv => OnePlace
  BY DEF PlaceInv
<1> QED
  BY <1>1, <1>2, InitPlaces, Inductive, PTL DEF Spec

\* What one step does to a report that is on its way.
LEMMA KeptOnTheWay ==
    ASSUME IInv, Next, NEW s \in InThreads \cup InQueue \cup InDispatcher
    PROVE  \/ s \in InThreads' \cup InQueue' \cup InDispatcher' \cup Delivered'
           \/ mainPc' = "down"
<1>1. CASE OnStarted
  BY <1>1, Places DEF OnStarted, IInv, DownIsEmpty
<1>2. CASE Tick
  <2>1. InQueue' = InQueue /\ InDispatcher \subseteq Delivered'
    BY <1>2 DEF Tick, Update, InQueue, InDispatcher, Delivered
  <2>2. InThreads \subseteq InThreads'
    <3>1. CASE UNCHANGED <<inFlight, threadVars>>
      BY <3>1, Places, PlacesNext DEF threadVars
    <3>2. ASSUME NEW w \in Writers, SpawnWriter(w) PROVE InThreads \subseteq InThreads'
      BY <3>2, Places, PlacesNext DEF SpawnWriter, IInv, TypeOK
    <3> QED
      BY <1>2, <3>1, <3>2 DEF Tick
  <2> QED
    BY <2>1, <2>2
<1>3. CASE Drain
  BY <1>3, Places, PlacesNext DEF Drain, threadVars
<1>4. CASE Kill
  BY <1>4 DEF Kill
<1>5. ASSUME NEW w \in Writers, PostSaved(w)
      PROVE  s \in InThreads' \cup InQueue' \cup InDispatcher'
  <2>1. InQueue' = InQueue \cup {job[w].snap} /\ InDispatcher' = InDispatcher
    BY <1>5, PostAdds
  <2>2. \A v \in Writers : v # w => pc'[v] = pc[v] /\ job'[v] = job[v]
    BY <1>5 DEF PostSaved, Goto, IInv, TypeOK
  <2> QED
    BY <2>1, <2>2, Places, PlacesNext
<1>6. ASSUME NEW w \in Writers,
             OpenTemp(w) \/ WriteTemp(w) \/ RenameTemp(w) \/ ClearInFlight(w)
      PROVE  s \in InThreads' \cup InQueue' \cup InDispatcher'
  <2>1. InThreads' = InThreads
    BY <1>6, FileSteps, SameThreadsStay
  <2>2. InQueue' = InQueue /\ InDispatcher' = InDispatcher
    BY <1>6, FileSteps DEF InQueue, InDispatcher
  <2> QED
    BY <2>1, <2>2
<1> QED
  BY <1>1, <1>2, <1>3, <1>4, <1>5, <1>6 DEF Next, Writer

\* No snapshot a thread took over is forgotten while the process lives.
THEOREM NoneDropped == Spec => NoReportDropped
<1> DEFINE Kept == \A s \in InThreads \cup InQueue \cup InDispatcher :
                      \/ s \in InThreads' \cup InQueue' \cup InDispatcher' \cup Delivered'
                      \/ mainPc' = "down"
<1>1. IInv /\ [Next]_vars => [Kept]_vars
  BY KeptOnTheWay
<1> QED
  BY <1>1, Inductive, PTL DEF Spec, NoReportDropped
-----------------------------------------------------------------------------
\* What the comment on leftover temporary files does hold for: saves that remove
\* what they wrote when they fail, which a failed rename tries to do and a failed
\* write does not.
Cleaned(w) ==
    pc[w] \in {"write", "rename"} /\ pc'[w] = "clear" => temp'[job[w].unique] = NoFile
FailedSavesClean == [][\A w \in Writers : Cleaned(w)]_vars

Explained ==
    /\ boots = 0 => ~Up /\ \A s \in Suffixes : temp[s] = NoFile
    /\ OrphanMeansKill

\* A thread leaves no file but one that it, or another thread, is still to rename.
LEMMA ThreadExplains ==
    ASSUME IInv, Explained, NEW w \in Writers, Writer(w), Cleaned(w)
    PROVE  Explained'
<1>1. /\ boots' = boots /\ Up' = Up /\ pc[w] # "none"
      /\ pc' = [pc EXCEPT ![w] = pc'[w]] /\ job' = [job EXCEPT ![w] = job'[w]]
      /\ temp' = [temp EXCEPT ![job[w].unique] = temp'[job[w].unique]]
  BY DEF Writer, OpenTemp, WriteTemp, RenameTemp, ClearInFlight, PostSaved, mainVars,
         diskVars, Up, Goto, IInv, TypeOK
<1>2. Up /\ boots # 0
  BY <1>1 DEF IInv, DownIsEmpty, Explained, Up
<1>3. ASSUME boots = 1, NEW s \in Suffixes, temp'[s] # NoFile
      PROVE  \E v \in Writers : pc'[v] \in {"write", "rename"} /\ job'[v].unique = s
  <2>1. ASSUME NEW v \in Writers, v # w, pc[v] \in {"write", "rename"}, job[v].unique = s
        PROVE  pc'[v] \in {"write", "rename"} /\ job'[v].unique = s
    BY <1>1, <2>1 DEF IInv, TypeOK
  <2>2. CASE temp'[s] = temp[s] /\ ~(pc[w] \in {"write", "rename"} /\ job[w].unique = s)
    <3>1. PICK v \in Writers : pc[v] \in {"write", "rename"} /\ job[v].unique = s
      BY <1>2, <1>3, <2>2 DEF Explained, OrphanMeansKill
    <3> QED
      BY <2>1, <2>2, <3>1
  <2>3. CASE job[w].unique = s /\ pc'[w] \in {"write", "rename"}
    <3>1. job'[w].unique = s
      BY <2>3 DEF Writer, OpenTemp, WriteTemp, RenameTemp, ClearInFlight, PostSaved,
             Goto, IInv, TypeOK
    <3> QED
      BY <2>3, <3>1
  <2>4. CASE job[w].unique = s /\ pc'[w] \notin {"write", "rename"}
    <3>1. pc[w] \notin {"write", "rename"}
      BY <1>3, <2>4 DEF Cleaned, Writer, OpenTemp, WriteTemp, RenameTemp, ClearInFlight,
             PostSaved, Goto, IInv, TypeOK
    <3>2. temp' = temp
      BY <2>4, <3>1 DEF Writer, OpenTemp, WriteTemp, RenameTemp, ClearInFlight,
             PostSaved, Goto, diskVars, IInv, TypeOK
    <3> QED
      BY <2>2, <3>1, <3>2
  <2>5. CASE job[w].unique # s
    BY <1>1, <2>2, <2>5 DEF IInv, TypeOK
  <2> QED
    BY <2>3, <2>4, <2>5
<1> QED
  BY <1>1, <1>2, <1>3 DEF Explained, OrphanMeansKill

LEMMA StepExplains ==
    ASSUME IInv, Explained, [Next]_vars, [\A w \in Writers : Cleaned(w)]_vars
    PROVE  Explained'
<1>1. CASE OnStarted
  <2>1. boots \in Nat /\ boots' = boots + 1
    BY <1>1 DEF OnStarted, IInv, TypeOK
  <2>2. ASSUME boots' = 1, NEW s \in Suffixes PROVE temp'[s] = NoFile
    BY <1>1, <2>1, <2>2 DEF OnStarted, SweepTemps, Explained
  <2> QED
    BY <2>1, <2>2 DEF Explained, OrphanMeansKill
<1>2. CASE Tick
  <2>1. boots' = boots /\ Up /\ Up' /\ temp' = temp
    BY <1>2 DEF Tick, diskVars, Up
  <2>2. ASSUME NEW v \in Writers, pc[v] \in {"write", "rename"}
        PROVE  pc'[v] = pc[v] /\ job'[v] = job[v]
    BY <1>2, <2>2 DEF Tick, SpawnWriter, threadVars, IInv, TypeOK
  <2> QED
    BY <2>1, <2>2 DEF Explained, OrphanMeansKill
<1>3. CASE Drain
  BY <1>3 DEF Drain, mainVars, threadVars, diskVars, Up, Explained, OrphanMeansKill
<1>4. CASE Kill
  BY <1>4 DEF Kill, mainVars, diskVars, Up, Explained, OrphanMeansKill
<1>5. ASSUME NEW w \in Writers, Writer(w), ~UNCHANGED vars PROVE Explained'
  BY <1>5, ThreadExplains
<1>6. CASE UNCHANGED vars
  BY <1>6 DEF vars, mainVars, threadVars, diskVars, Up, Explained, OrphanMeansKill
<1> QED
  BY <1>1, <1>2, <1>3, <1>4, <1>5, <1>6 DEF Next

\* With such saves a leftover file is explained by a kill, as the comment in
\* snapshot_file.hpp says, however many threads save at once.
THEOREM CleanedSavesLeaveNone == Spec /\ FailedSavesClean => []OrphanMeansKill
<1>1. Init => Explained
  BY DEF Init, Explained, OrphanMeansKill, Up
<1>2. Explained => OrphanMeansKill
  BY DEF Explained
<1> QED
  BY <1>1, <1>2, StepExplains, Inductive, PTL DEF Spec, FailedSavesClean
=============================================================================
