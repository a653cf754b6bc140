------------------------ MODULE JsonConfigFile_proofs ------------------------
(***************************************************************************)
(* For any fields, floors, defaults and documents, and however the user's  *)
(* writes fall between the main thread's calls: the live configuration is  *)
(* a whole document within its floors; whenever the file's time is the one *)
(* recorded it is what the file says, or that it is not was reported; and  *)
(* a failure is reported once per file time.  The argument rests on the    *)
(* order of the times: recorded <= the file's <= the clock.                *)
(***************************************************************************)
EXTENDS JsonConfigFile, TLAPS

\* What is still under way may write once more, each.
Unprovisioned == app \in {"exists", "provision"}
ClockBound ==
    /\ edit # NoEdit => clock <= MaxClock + 1
    /\ Unprovisioned => clock <= MaxClock + 1
    /\ edit # NoEdit /\ Unprovisioned => clock <= MaxClock

\* The order of the times; a file that exists has one.
Times ==
    /\ lastSeen <= mtime /\ mtime <= clock
    /\ file # NoFile => mtime >= 1

\* Until the first parse the process has its defaults and has reported nothing.
Fresh ==
    /\ Booting => live = Defaults /\ failures = 0
    /\ Booting /\ app # "load" => lastSeen = 0

\* Nobody else wrote what write_file() left, or the history says so.
StillProvisioned ==
    app = "provisioned" /\ ~hidden => file \in {Provisioned, NoFile}

\* A reload has just moved the recorded time, so there is room for its failure.
FailuresRecorded ==
    /\ failures <= lastSeen + 1
    /\ app = "reload" => failures <= lastSeen

IInv == /\ TypeOK /\ ClockBound /\ Times /\ Fresh /\ StillProvisioned
        /\ FailuresRecorded /\ LiveIsValid /\ UpToDate

-----------------------------------------------------------------------------
\* Documents and what becomes of them.

Contents == Docs \cup {Torn, Provisioned}

\* A clamped configuration is within the floors, whatever it was.
LEMMA ClampIsValid ==
    ASSUME NEW c \in [Fields -> Int]
    PROVE  /\ Clamp(c) \in [Fields -> Int]
           /\ \A f \in Fields : Clamp(c)[f] >= Floor[f]
  BY ConfigAssumption DEF Clamp

\* Every content of the file sets integers, and only reflected fields.
LEMMA ContentsSetFields ==
    ASSUME NEW d \in Contents
    PROVE  DOMAIN d.vals \subseteq Fields /\ \A f \in DOMAIN d.vals : d.vals[f] \in Int
  <1>1. CASE d \in Docs
    BY <1>1, ConfigAssumption
  <1>2. CASE d = Torn
    <2>1. d.vals = <<>>
      BY <1>2 DEF Torn
    <2>2. DOMAIN d.vals = {}
      BY <2>1
    <2> QED
      BY <2>2
  <1>3. CASE d = Provisioned
    <2>1. d.vals = Defaults
      BY <1>3 DEF Provisioned
    <2> QED
      BY <2>1, ConfigAssumption
  <1> QED
    BY <1>1, <1>2, <1>3 DEF Contents

\* Loading a document over a configuration gives a configuration.
LEMMA MergeIsConfig ==
    ASSUME NEW c \in [Fields -> Int], NEW d \in Contents
    PROVE  Merge(c, d) \in [Fields -> Int]
  BY ContentsSetFields DEF Merge

\* What was merged and clamped is what the document says, raised to the floors.
LEMMA MergedReflects ==
    ASSUME NEW c \in [Fields -> Int], NEW d \in Contents, live' = Clamp(Merge(c, d))
    PROVE  Reflects(d)'
  <1> SUFFICES ASSUME NEW f \in DOMAIN d.vals
               PROVE  live'[f] = IF d.vals[f] < Floor[f] THEN Floor[f] ELSE d.vals[f]
    BY DEF Reflects
  <1>1. f \in Fields
    BY ContentsSetFields
  <1>2. Merge(c, d)[f] = d.vals[f]
    BY <1>1 DEF Merge
  <1> QED
    BY <1>1, <1>2 DEF Clamp

\* Loading what was provisioned gives the defaults again.
LEMMA ProvisionedMerges ==
    ASSUME NEW c \in [Fields -> Int] PROVE Merge(c, Provisioned) = Defaults
  <1>1. Provisioned.vals = Defaults /\ DOMAIN Defaults = Fields
    BY ConfigAssumption DEF Provisioned
  <1>2. Merge(c, Provisioned) = [f \in Fields |-> Defaults[f]]
    BY <1>1 DEF Merge
  <1> QED
    BY <1>2, ConfigAssumption

LEMMA TornUnreadable == Torn.fault = "syntax" /\ ~Whole(Torn)
  BY DEF Torn, Whole

-----------------------------------------------------------------------------
\* Each step keeps the invariant.

LEMMA InitEstablishes == Init => IInv
  <1> SUFFICES ASSUME Init PROVE IInv
    OBVIOUS
  <1> USE DEF Init
  <1>1. TypeOK
    <2>1. mtime \in 0 .. LastClock /\ clock \in 1 .. LastClock
          /\ lastSeen \in 0 .. LastClock /\ failedAt \in 0 .. LastClock
      BY ConfigAssumption DEF LastClock
    <2>2. midWrite \in BOOLEAN /\ hidden \in BOOLEAN /\ failures \in Nat
      OBVIOUS
    <2> QED
      BY <2>1, <2>2, ConfigAssumption DEF TypeOK
  <1>2. ClockBound /\ Times /\ Fresh /\ StillProvisioned /\ FailuresRecorded
    BY ConfigAssumption DEF ClockBound, Unprovisioned, Times, Fresh, Booting,
                            StillProvisioned, FailuresRecorded
  <1>3. LiveIsValid /\ UpToDate
    BY DEF LiveIsValid, UpToDate, Running
  <1> QED
    BY <1>1, <1>2, <1>3 DEF IInv

\* A stamp moves the file's time to the clock, at most one granule on.
LEMMA StampMoves ==
    ASSUME TypeOK, Times, Stamp
    PROVE  /\ clock' \in Nat /\ mtime' = clock' /\ mtime' >= 1
           /\ clock' >= clock /\ clock' <= clock + 1
           /\ lastSeen <= mtime' /\ (mtime' # mtime => mtime' > lastSeen)
  BY ConfigAssumption DEF TypeOK, Times, Stamp, LastClock

\* A user's write is seen as a new time, unless the history says it was hidden.
LEMMA UserWriteKeeps ==
    ASSUME IInv, NEW c \in Contents, UserWrites(c),
           edit' \in Docs \cup {NoEdit, Torn}, clock' <= MaxClock + 2, ClockBound'
    PROVE  IInv'
  <1> USE DEF IInv, UserWrites
  <1>1. /\ clock' \in Nat /\ mtime' = clock' /\ mtime' >= 1
        /\ clock' >= clock /\ clock' <= clock + 1
        /\ lastSeen <= mtime' /\ (mtime' # mtime => mtime' > lastSeen)
    BY StampMoves
  <1>2. TypeOK'
    <2>1. clock' \in 1 .. LastClock /\ mtime' \in 0 .. LastClock
      BY <1>1, ConfigAssumption DEF TypeOK, LastClock
    <2>2. hidden' \in BOOLEAN
      OBVIOUS
    <2> QED
      BY <2>1, <2>2 DEF TypeOK, Contents, Running, Booting
  <1>3. Times'
    BY <1>1 DEF Times, TypeOK
  <1>4. Fresh' /\ FailuresRecorded'
    BY DEF Fresh, FailuresRecorded, Booting
  <1>5. StillProvisioned'
    BY DEF StillProvisioned
  <1>6. LiveIsValid'
    BY DEF LiveIsValid, Running
  <1>7. UpToDate'
    <2>1. hidden' <=> app = "provisioned" \/ mtime' = mtime
      OBVIOUS
    <2>2. ~hidden' => mtime' # lastSeen'
      BY <1>1, <2>1 DEF TypeOK
    <2> QED
      BY <2>2 DEF UpToDate
  <1> QED
    BY <1>2, <1>3, <1>4, <1>5, <1>6, <1>7

LEMMA UserKeeps == ASSUME IInv, User PROVE IInv'
  <1>1. CASE BeginEdit
    <2>1. UserWrites(Torn) /\ Torn \in Contents /\ edit' \in Docs
      BY <1>1 DEF BeginEdit, Contents
    <2>2. clock' <= clock + 1 /\ clock < MaxClock /\ clock \in Nat
      BY <1>1, StampMoves DEF BeginEdit, UserWrites, IInv, TypeOK
    <2>3. clock' <= MaxClock /\ clock' \in Nat
      BY <2>2, <2>1, StampMoves, ConfigAssumption DEF UserWrites, IInv
    <2> QED
      BY <2>1, <2>3, UserWriteKeeps, ConfigAssumption DEF ClockBound, Unprovisioned
  <1>2. CASE FinishEdit
    <2>1. UserWrites(edit) /\ edit \in Contents /\ edit' = NoEdit /\ app' = app
      BY <1>2 DEF FinishEdit, Contents, IInv, TypeOK, UserWrites
    <2>2. /\ clock <= MaxClock + 1 /\ (Unprovisioned => clock <= MaxClock)
          /\ clock' <= clock + 1 /\ clock \in Nat /\ clock' \in Nat
      BY <1>2, <2>1, StampMoves DEF FinishEdit, UserWrites, IInv, ClockBound, TypeOK
    <2>3. clock' <= MaxClock + 2 /\ ClockBound'
      BY <2>1, <2>2, ConfigAssumption DEF ClockBound, Unprovisioned
    <2> QED
      BY <2>1, <2>3, UserWriteKeeps
  <1>3. CASE ReplaceFile
    <2>1. PICK d \in Docs : UserWrites(d)
      BY <1>3 DEF ReplaceFile
    <2>2. d \in Contents /\ edit' = NoEdit /\ NoEdit = edit
      BY <1>3 DEF ReplaceFile, Contents
    <2>3. clock' <= clock + 1 /\ clock < MaxClock /\ clock \in Nat /\ clock' \in Nat
      BY <1>3, <2>1, StampMoves DEF ReplaceFile, UserWrites, IInv, TypeOK
    <2> QED
      BY <2>1, <2>2, <2>3, UserWriteKeeps, ConfigAssumption DEF ClockBound, Unprovisioned
  <1>4. CASE RemoveFile
    <2> USE <1>4 DEF IInv, RemoveFile
    <2>1. TypeOK'
      BY DEF TypeOK, Running, Booting
    <2>2. ClockBound' /\ Times' /\ Fresh' /\ FailuresRecorded'
      BY DEF ClockBound, Unprovisioned, Times, Fresh, FailuresRecorded, Booting
    <2>3. StillProvisioned' /\ LiveIsValid' /\ UpToDate'
      BY DEF StillProvisioned, LiveIsValid, Running, UpToDate, Readable
    <2> QED
      BY <2>1, <2>2, <2>3
  <1> QED
    BY <1>1, <1>2, <1>3, <1>4 DEF User

\* Recording a time keeps the order of the times.
LEMMA RecordKeeps ==
    ASSUME TypeOK, Times, RecordMtime
    PROVE  lastSeen' \in 0 .. LastClock /\ lastSeen' <= mtime /\ lastSeen' >= lastSeen
  BY DEF TypeOK, Times, RecordMtime

LEMMA NothingReported ==
    ASSUME failures' = 0, app' # "reload", lastSeen' \in Nat
    PROVE  FailuresRecorded'
  <1>1. \A n \in Nat : 0 <= n + 1
    OBVIOUS
  <1>2. 0 <= lastSeen' + 1
    BY <1>1
  <1> QED
    BY <1>2 DEF FailuresRecorded

\* The steps of load_or_provision() before the file is parsed.
LEMMA BootKeeps ==
    ASSUME IInv, CheckExists \/ Provision \/ RecordProvisioned \/ RecordExisting
    PROVE  IInv'
  <1> USE DEF IInv
  <1>0. live \in [Fields -> Int]
    BY DEF TypeOK
  <1>1. CASE CheckExists
    <2> USE <1>1 DEF CheckExists, fileVars
    <2>1. TypeOK'
      BY <1>0, ClampIsValid DEF TypeOK, Running, Booting
    <2>2. ClockBound' /\ Times' /\ StillProvisioned'
      BY DEF ClockBound, Unprovisioned, Times, StillProvisioned
    <2>3. Fresh' /\ FailuresRecorded'
      BY DEF Fresh, FailuresRecorded, Booting
    <2>4. LiveIsValid'
      BY <1>0, ClampIsValid DEF LiveIsValid, Running
    <2>5. UpToDate'
      BY DEF UpToDate, Readable, Fresh, Booting, Times
    <2> QED
      BY <2>1, <2>2, <2>3, <2>4, <2>5
  <1>2. CASE Provision
    <2> USE <1>2 DEF Provision, fileVars
    <2>1. /\ clock' \in Nat /\ clock' <= clock + 1 /\ clock' >= clock
          /\ mtime' \in Nat /\ mtime' <= clock' /\ lastSeen <= mtime'
          /\ (file' # NoFile => mtime' >= 1)
      BY StampMoves DEF TypeOK, Times, LastClock
    <2>2. /\ clock <= MaxClock + 1 /\ (edit # NoEdit => clock <= MaxClock)
          /\ clock \in Nat
      BY DEF ClockBound, Unprovisioned, TypeOK
    <2>3. edit' # NoEdit => edit # NoEdit
      OBVIOUS
    <2>4. TypeOK'
      <3>1. clock' \in 1 .. LastClock /\ mtime' \in 0 .. LastClock
        BY <2>1, <2>2, ConfigAssumption DEF TypeOK, LastClock
      <3>2. live' \in [Fields -> Int]
        BY <1>0, ClampIsValid
      <3>3. file' \in Docs \cup {NoFile, Torn, Provisioned} /\ edit' \in Docs \cup {NoEdit, Torn}
        BY DEF TypeOK
      <3> QED
        BY <3>1, <3>2, <3>3 DEF TypeOK, Running, Booting
    <2>5. ClockBound'
      BY <2>1, <2>2, <2>3, ConfigAssumption DEF ClockBound, Unprovisioned
    <2>6. Times'
      BY <2>1 DEF Times
    <2>7. Fresh' /\ FailuresRecorded' /\ StillProvisioned'
      BY DEF Fresh, FailuresRecorded, StillProvisioned, Booting
    <2>8. LiveIsValid'
      BY <1>0, ClampIsValid DEF LiveIsValid, Running
    <2>9. UpToDate'
      BY <2>1 DEF UpToDate, Readable, Fresh, Booting, Times
    <2> QED
      BY <2>4, <2>5, <2>6, <2>7, <2>8, <2>9
  <1>3. CASE RecordProvisioned
    <2> USE <1>3 DEF RecordProvisioned, fileVars
    <2>1. lastSeen' \in 0 .. LastClock /\ lastSeen' <= mtime /\ lastSeen' >= lastSeen
      BY RecordKeeps
    <2>2. TypeOK'
      BY <1>0, <2>1, ClampIsValid DEF TypeOK, Running, Booting
    <2>3. ClockBound' /\ Times' /\ StillProvisioned'
      BY <2>1 DEF ClockBound, Unprovisioned, Times, StillProvisioned
    <2>4. Fresh'
      BY DEF Fresh, Booting
    <2>6. FailuresRecorded'
      <3>1. failures' = 0 /\ app' # "reload" /\ lastSeen' \in Nat
        BY <2>1, ConfigAssumption DEF Fresh, Booting, LastClock
      <3> QED
        BY <3>1, NothingReported
    <2>5. LiveIsValid'
      BY <1>0, ClampIsValid DEF LiveIsValid, Running
    <2>7. UpToDate'
      <3> SUFFICES ASSUME Readable, ~hidden PROVE Reflects(file)'
        BY DEF UpToDate, Readable
      <3>1. file = Provisioned /\ Provisioned \in Contents
        BY DEF StillProvisioned, Readable, Contents
      <3>2. live' = Clamp(Merge(live, Provisioned))
        BY <1>0, ProvisionedMerges DEF Fresh, Booting
      <3>3. Reflects(Provisioned)'
        BY <1>0, <3>1, <3>2, MergedReflects
      <3> QED
        BY <3>1, <3>3 DEF Reflects
    <2> QED
      BY <2>2, <2>3, <2>4, <2>5, <2>6, <2>7
  <1>4. CASE RecordExisting
    <2> USE <1>4 DEF RecordExisting, fileVars
    <2>1. lastSeen' \in 0 .. LastClock /\ lastSeen' <= mtime /\ lastSeen' >= lastSeen
      BY RecordKeeps
    <2>2. TypeOK'
      BY <2>1 DEF TypeOK, Running, Booting
    <2>3. ClockBound' /\ Times' /\ StillProvisioned'
      BY <2>1 DEF ClockBound, Unprovisioned, Times, StillProvisioned
    <2>4. Fresh'
      BY DEF Fresh, Booting
    <2>6. FailuresRecorded'
      <3>1. failures' = 0 /\ app' # "reload" /\ lastSeen' \in Nat
        BY <2>1, ConfigAssumption DEF Fresh, Booting, LastClock
      <3> QED
        BY <3>1, NothingReported
    <2>5. LiveIsValid' /\ UpToDate'
      BY DEF LiveIsValid, Running, UpToDate
    <2> QED
      BY <2>2, <2>3, <2>4, <2>5, <2>6
  <1> QED
    BY <1>1, <1>2, <1>3, <1>4

\* A parse, whether of a load or of a reload: all of the document or none.
LEMMA ParseKeeps ==
    ASSUME IInv, app \in {"load", "reload"}, Parse, midWrite' \in BOOLEAN,
           UNCHANGED <<fileVars, edit, lastSeen, hidden>>
    PROVE  IInv'
  <1> USE DEF IInv, fileVars
  <1>0. live \in [Fields -> Int] /\ failures \in Nat /\ lastSeen \in Nat
    BY DEF TypeOK
  <1>1. failures <= lastSeen
    BY <1>0 DEF Fresh, FailuresRecorded, Booting
  <1>2. Readable => file \in Contents
    BY DEF Readable, TypeOK, Contents
  <1>3. live' \in [Fields -> Int]
    BY <1>0, <1>2, ClampIsValid, MergeIsConfig DEF Parse, Checked
  <1>4. app' \in {"aborted", "run"} /\ failures' \in Nat /\ failures' <= lastSeen + 1
    BY <1>0, <1>1 DEF Parse
  <1>5. TypeOK'
    <2>1. failedAt' \in 0 .. LastClock
      BY DEF Parse, TypeOK
    <2> QED
      BY <1>3, <1>4, <2>1 DEF TypeOK, Running
  <1>6. ClockBound' /\ Times' /\ Fresh' /\ StillProvisioned' /\ FailuresRecorded'
    BY <1>4 DEF ClockBound, Unprovisioned, Times, Fresh, StillProvisioned,
                FailuresRecorded, Booting
  <1>7. LiveIsValid'
    <2> SUFFICES ASSUME app' = "run" PROVE \A f \in Fields : live'[f] >= Floor[f]
      BY <1>4 DEF LiveIsValid, Running
    <2>1. CASE Readable /\ live' = Clamp(Merge(live, file))
      BY <1>0, <1>2, <2>1, ClampIsValid, MergeIsConfig
    <2>2. CASE live' = Checked(live) /\ app = "load"
      BY <1>0, <2>2, ClampIsValid DEF Checked
    <2>3. CASE live' = Checked(live) /\ app = "reload"
      BY <2>3 DEF Checked, LiveIsValid, Running
    <2> QED
      BY <2>1, <2>2, <2>3 DEF Parse
  <1>8. UpToDate'
    <2> SUFFICES ASSUME app' = "run", Readable, mtime = lastSeen
                 PROVE  Reflects(file)' \/ Reported'
      BY DEF UpToDate, Readable
    <2>1. CASE live' = Clamp(Merge(live, file))
      <3>1. \A f \in DOMAIN file.vals :
               live'[f] = IF file.vals[f] < Floor[f] THEN Floor[f] ELSE file.vals[f]
        BY <1>0, <1>2, <2>1, MergedReflects DEF Reflects
      <3> QED
        BY <3>1 DEF Reflects
    <2>2. CASE failedAt' = lastSeen
      BY <2>2 DEF Reported
    <2> QED
      BY <2>1, <2>2 DEF Parse
  <1> QED
    BY <1>5, <1>6, <1>7, <1>8

LEMMA AppKeeps == ASSUME IInv, App PROVE IInv'
  <1> USE DEF IInv
  <1>1. CASE Start
    <2> USE <1>1 DEF Start, fileVars
    <2>1. TypeOK'
      <3>1. lastSeen' \in 0 .. LastClock /\ failedAt' \in 0 .. LastClock /\ failures' \in Nat
        BY ConfigAssumption DEF LastClock
      <3>2. midWrite' \in BOOLEAN /\ hidden' \in BOOLEAN
        OBVIOUS
      <3> QED
        BY <3>1, <3>2, ConfigAssumption DEF TypeOK, Booting
    <2>2. ClockBound'
      BY ConfigAssumption DEF ClockBound, Unprovisioned, TypeOK
    <2>3. Times' /\ Fresh' /\ StillProvisioned' /\ FailuresRecorded'
      BY DEF Times, Fresh, StillProvisioned, FailuresRecorded, TypeOK
    <2>4. LiveIsValid' /\ UpToDate'
      BY DEF LiveIsValid, UpToDate, Running
    <2> QED
      BY <2>1, <2>2, <2>3, <2>4
  <1>2. CASE CheckExists \/ Provision \/ RecordProvisioned \/ RecordExisting
    BY <1>2, BootKeeps
  <1>3. CASE Load
    <2>1. midWrite' \in BOOLEAN
      BY <1>3 DEF Load, TypeOK
    <2> QED
      BY <1>3, <2>1, ParseKeeps DEF Load
  <1>4. CASE Poll
    <2> USE <1>4 DEF Poll, fileVars
    <2>1. lastSeen + 1 <= lastSeen' /\ lastSeen' \in 0 .. LastClock
      BY DEF Times, TypeOK
    <2>2. TypeOK'
      BY <2>1 DEF TypeOK, Running
    <2>3. ClockBound' /\ Times' /\ Fresh' /\ StillProvisioned'
      BY DEF ClockBound, Unprovisioned, Times, Fresh, StillProvisioned, Booting, TypeOK
    <2>4. FailuresRecorded'
      BY <2>1 DEF FailuresRecorded, TypeOK
    <2>5. LiveIsValid' /\ UpToDate'
      BY DEF LiveIsValid, UpToDate, Running
    <2> QED
      BY <2>2, <2>3, <2>4, <2>5
  <1>5. CASE Reload
    <2>1. midWrite' \in BOOLEAN
      BY <1>5 DEF Reload
    <2> QED
      BY <1>5, <2>1, ParseKeeps DEF Reload
  <1> QED
    BY <1>1, <1>2, <1>3, <1>4, <1>5 DEF App

LEMMA StepPreserves == IInv /\ [Next]_vars => IInv'
  <1> SUFFICES ASSUME IInv, [Next]_vars PROVE IInv'
    OBVIOUS
  <1>1. CASE User
    BY <1>1, UserKeeps
  <1>2. CASE App
    BY <1>2, AppKeeps
  <1>3. CASE Kill
    <2> USE <1>3 DEF Kill, IInv, fileVars
    <2>1. TypeOK'
      BY DEF TypeOK
    <2>2. ClockBound' /\ Times' /\ Fresh' /\ StillProvisioned' /\ FailuresRecorded'
      BY DEF ClockBound, Unprovisioned, Times, Fresh, StillProvisioned,
             FailuresRecorded, Booting
    <2>3. LiveIsValid' /\ UpToDate'
      BY DEF LiveIsValid, UpToDate, Running
    <2> QED
      BY <2>1, <2>2, <2>3
  <1>4. CASE UNCHANGED vars
    <2> USE <1>4 DEF vars, fileVars, IInv
    <2>1. TypeOK' /\ ClockBound' /\ Times' /\ Fresh' /\ StillProvisioned' /\ FailuresRecorded'
      BY DEF TypeOK, Running, ClockBound, Unprovisioned, Times, Fresh,
             StillProvisioned, FailuresRecorded, Booting
    <2>2. LiveIsValid' /\ UpToDate'
      BY DEF LiveIsValid, UpToDate, Running, Readable, Reflects, Reported
    <2> QED
      BY <2>1, <2>2
  <1> QED
    BY <1>1, <1>2, <1>3, <1>4 DEF Next

LEMMA Inductive == Spec => []IInv
  BY InitEstablishes, StepPreserves, PTL DEF Spec

-----------------------------------------------------------------------------
\* The theorems.

\* Type correctness, and with it the bound on the clock: what is under way when
\* the clock runs out writes at most twice.
THEOREM ConfigTyped == Spec => []TypeOK
  BY Inductive, PTL DEF IInv

\* on_tick() divides by no interval below its floor, whatever the user wrote,
\* even when the struct's own defaults are below it.
THEOREM NeverBelowFloor == Spec => []LiveIsValid
  BY Inductive, PTL DEF IInv

\* No edit is missed in silence, for every interleaving of the user's writes with
\* recording, reading and parsing and wherever a read fails: a poll that is skipped
\* had nothing to do, or what it skips was reported.
THEOREM FollowsTheFile == Spec => []UpToDate
  BY Inductive, PTL DEF IInv

\* One report per file time, however often the file is polled.
THEOREM FailureReportedOnce == Spec => []FailuresPerEdit
  <1>1. IInv => FailuresPerEdit
    BY DEF IInv, FailuresRecorded, Times, TypeOK, FailuresPerEdit
  <1> QED
    BY <1>1, Inductive, PTL

\* The live configuration goes from one whole document to the next.
THEOREM ChangesWhole == Spec => LiveChangesWhole
  <1> DEFINE Change == \/ live' \in {Defaults, Clamp(Defaults)}
                       \/ \E d \in Docs : Whole(d) /\ live' = Clamp(Merge(live, d))
  <1>1. ASSUME IInv, [Next]_vars PROVE [live' # live => Change]_vars
    <2>0. live \in [Fields -> Int] /\ file \in Docs \cup {NoFile, Torn, Provisioned}
      BY <1>1 DEF IInv, TypeOK
    <2>1. CASE Start
      BY <2>1 DEF Start
    <2>2. CASE CheckExists \/ Provision \/ RecordProvisioned
      BY <1>1, <2>2 DEF CheckExists, Provision, RecordProvisioned, IInv, Fresh, Booting
    <2>3. ASSUME app \in {"load", "reload"}, Parse PROVE live' # live => Change
      <3>1. CASE Readable /\ live' = Clamp(Merge(live, file))
        <4>1. live' = Clamp(Merge(live, file))
          BY <3>1
        <4>2. CASE file = Provisioned
          BY <2>0, <4>1, <4>2, ProvisionedMerges
        <4>3. CASE file \in Docs
          BY <3>1, <4>1, <4>3 DEF Readable, Whole
        <4> QED
          BY <2>0, <3>1, <4>2, <4>3, TornUnreadable DEF Readable
      <3>2. CASE live' = live \/ live' = Checked(live)
        BY <1>1, <2>3, <3>2 DEF Checked, IInv, Fresh, Booting
      <3> QED
        BY <2>3, <3>1, <3>2 DEF Parse
    <2>4. CASE Load \/ Reload
      BY <2>3, <2>4 DEF Load, Reload
    <2>5. CASE User \/ RecordExisting \/ Poll \/ Kill \/ UNCHANGED vars
      BY <2>5 DEF User, BeginEdit, FinishEdit, ReplaceFile, RemoveFile, UserWrites,
                  RecordExisting, Poll, Kill, vars
    <2> QED
      BY <1>1, <2>1, <2>2, <2>4, <2>5 DEF Next, App
  <1>2. Spec => [][live' # live => Change]_vars
    BY <1>1, Inductive, PTL DEF Spec
  <1> QED
    BY <1>2 DEF LiveChangesWhole
-----------------------------------------------------------------------------
\* What the two comments that the runs refute do hold for.

\* A document whose values all have the type of their fields never ends the
\* process, whatever else is wrong with it and whenever it is read: the uncaught
\* exception needs a value of the wrong type.
NoneOfWrongType == \A d \in Docs : d.fault # "type"

THEOREM OnlyWrongTypeAborts ==
    ASSUME NoneOfWrongType PROVE Spec => []WrongTypeIsAnOutcome
  <1>1. Init => WrongTypeIsAnOutcome
    BY DEF Init, WrongTypeIsAnOutcome
  <1>2. IInv => ~Throws
    <2> SUFFICES ASSUME file \in Docs \cup {NoFile, Torn, Provisioned}, Throws
                 PROVE  FALSE
      BY DEF IInv, TypeOK
    <2>1. Torn.fault = "syntax" /\ Provisioned.fault = "none"
      BY DEF Torn, Provisioned
    <2> QED
      BY <2>1 DEF Throws, NoneOfWrongType
  <1>3. IInv /\ WrongTypeIsAnOutcome /\ [Next]_vars => WrongTypeIsAnOutcome'
    <2> SUFFICES ASSUME IInv, WrongTypeIsAnOutcome, [Next]_vars
                 PROVE  WrongTypeIsAnOutcome'
      OBVIOUS
    <2>1. CASE Load \/ Reload
      BY <1>2, <2>1 DEF Load, Reload, Parse, WrongTypeIsAnOutcome
    <2>2. CASE Start \/ CheckExists \/ Provision \/ RecordProvisioned
               \/ RecordExisting \/ Poll \/ Kill
      BY <2>2 DEF Start, CheckExists, Provision, RecordProvisioned, RecordExisting,
                  Poll, Kill, WrongTypeIsAnOutcome
    <2>3. CASE User \/ UNCHANGED vars
      BY <2>3 DEF User, BeginEdit, FinishEdit, ReplaceFile, RemoveFile, UserWrites,
                  vars, WrongTypeIsAnOutcome
    <2> QED
      BY <2>1, <2>2, <2>3 DEF Next, App
  <1> QED
    BY <1>1, <1>3, Inductive, PTL DEF Spec

\* On a file system that gives every write a time of its own.
DistinctTimes == [][BeginEdit \/ FinishEdit \/ ReplaceFile => mtime' # mtime]_vars

\* Then a half-written file that a poll met has another time once it is finished.
TornIsSeen ==
    /\ Booting => ~midWrite
    /\ app = "run" /\ midWrite /\ edit = NoEdit => mtime # lastSeen

LEMMA TornStaysSeen ==
    ASSUME IInv, TornIsSeen, [Next]_vars,
           [BeginEdit \/ FinishEdit \/ ReplaceFile => mtime' # mtime]_vars
    PROVE  TornIsSeen'
  <1> USE DEF TornIsSeen, Booting
  <1>1. CASE UNCHANGED vars
    BY <1>1 DEF vars, fileVars
  <1>2. CASE ~UNCHANGED vars /\ (BeginEdit \/ FinishEdit \/ ReplaceFile)
    <2>1. Stamp /\ mtime' # mtime
      BY <1>2 DEF BeginEdit, FinishEdit, ReplaceFile, UserWrites
    <2>2. mtime' > lastSeen /\ lastSeen \in Nat /\ mtime' \in Nat
      BY <2>1, StampMoves DEF IInv, TypeOK
    <2>3. app' = app /\ midWrite' = midWrite /\ lastSeen' = lastSeen
      BY <1>2 DEF BeginEdit, FinishEdit, ReplaceFile, UserWrites
    <2> QED
      BY <2>2, <2>3
  <1>3. CASE RemoveFile
    BY <1>3 DEF RemoveFile
  <1>4. CASE Start \/ CheckExists \/ Provision \/ RecordProvisioned \/ RecordExisting
             \/ Poll \/ Kill
    BY <1>4 DEF Start, CheckExists, Provision, RecordProvisioned, RecordExisting,
                Poll, Kill, fileVars
  <1>5. CASE Load \/ Reload
    <2>1. app' \in {"run", "aborted"}
      BY <1>5 DEF Load, Reload, Parse
    <2>2. midWrite' => edit' # NoEdit
      BY <1>5 DEF Load, Reload
    <2> QED
      BY <2>1, <2>2
  <1> QED
    BY <1>1, <1>2, <1>3, <1>4, <1>5 DEF Next, App, User

\* With distinct times a poll that met a half-written file heals, as the comment
\* in json_config_file.hpp says: the writes that share a time are all it misses.
THEOREM DistinctTimesHeal == Spec /\ DistinctTimes => []TornReadHeals
  <1>1. Init => TornIsSeen
    BY DEF Init, TornIsSeen, Booting
  <1>2. TornIsSeen => TornReadHeals
    BY DEF TornIsSeen, TornReadHeals
  <1> QED
    BY <1>1, <1>2, TornStaysSeen, Inductive, PTL DEF Spec, DistinctTimes
=============================================================================
