--------------------------- MODULE JsonConfigFile ---------------------------
(***************************************************************************)
(* konative::app::config::JsonConfigFile<AppConfig>: a JSON file in the    *)
(* application's private storage, provisioned from the struct's defaults,  *)
(* loaded by on_started() and polled by on_tick(), which compares the      *)
(* file's modification time with the last one it saw.                      *)
(*                                                                         *)
(* The main thread's calls into the file system are separate steps, and a  *)
(* user edits, replaces or removes the file between any two of them.  A    *)
(* document is abstracted to the fields it sets and to what is wrong with  *)
(* it; json_value_to_meta() sets the fields one at a time and stops at the *)
(* fault.                                                                  *)
(***************************************************************************)
EXTENDS Integers

CONSTANTS
    Fields,     \* the reflected fields of AppConfig
    Defaults,   \* AppConfig{}
    Floor,      \* kMinTickLogInterval, kMinSnapshotIntervalTicks
    Docs,       \* the documents a user saves
    MaxClock,   \* the clock after which no edit and no process starts (bound)
    NoFile, NoEdit

Faults == {"none",      \* every field present is set
           "syntax",    \* not JSON, or not an object
           "range",     \* a number json_value_to_meta() rejects
           "type"}      \* a value that is not a number: get<double>() throws

\* An empty or half-written file is no JSON.
Torn == [vals |-> <<>>, fault |-> "syntax"]

\* meta_component_to_json(AppConfig{}).
Provisioned == [vals |-> Defaults, fault |-> "none"]

ASSUME ConfigAssumption ==
    /\ Defaults \in [Fields -> Int] /\ Floor \in [Fields -> Int]
    /\ \A f \in Fields : Floor[f] >= 1
    /\ \A d \in Docs :
        /\ d.fault \in Faults
        /\ DOMAIN d.vals \subseteq Fields /\ \A f \in DOMAIN d.vals : d.vals[f] \in Int
    /\ MaxClock \in Nat

VARIABLES
    file,       \* what is at path_
    mtime,      \* its modification time
    clock,      \* the file system's clock
    edit,       \* the document a user's editor is in the middle of writing
    app,        \* where the main thread is
    live,       \* the AppConfig in registry().ctx()
    lastSeen,   \* last_seen_mtime_
    failures,   \* (history) load and poll failures this process reported
    failedAt,   \* (history) the recorded time of the last of them, 0 for none
    midWrite,   \* (history) the last poll_reload() that parsed met a half-written edit
    hidden      \* (history) the last write fell between provisioning the file and
                \* recording its time, or got the time of the one before it

fileVars == <<file, mtime, clock>>
vars == <<fileVars, edit, app, live, lastSeen, failures, failedAt, midWrite, hidden>>

\* What had started by then may still write twice.
LastClock == MaxClock + 2

\* "run" stands for all of the frame loop but poll_reload() itself.
Running == app \in {"run", "reload"}
Booting == app \in {"exists", "provision", "provisioned", "record", "load"}

TypeOK ==
    /\ file \in Docs \cup {NoFile, Torn, Provisioned}
    /\ mtime \in 0 .. LastClock /\ clock \in 1 .. LastClock
    /\ lastSeen \in 0 .. LastClock /\ failures \in Nat /\ failedAt \in 0 .. LastClock
    /\ edit \in Docs \cup {NoEdit, Torn}
    /\ app \in {"down", "aborted"} \/ Running \/ Booting
    /\ live \in [Fields -> Int]
    /\ midWrite \in BOOLEAN /\ hidden \in BOOLEAN

Init ==
    /\ file \in {NoFile} \cup Docs
    /\ mtime = (IF file = NoFile THEN 0 ELSE 1) /\ clock = 1
    /\ edit = NoEdit
    /\ app = "down" /\ live = Defaults /\ lastSeen = 0
    /\ failures = 0 /\ failedAt = 0 /\ midWrite = FALSE /\ hidden = FALSE

-----------------------------------------------------------------------------
\* The file system stamps what is written, in granules that two writes may share.
Stamp ==
    /\ clock' \in {clock, clock + 1}
    /\ mtime' = clock'

-----------------------------------------------------------------------------
\* The user.

UserWrites(content) ==
    /\ file' = content
    /\ Stamp
    /\ hidden' = (app = "provisioned" \/ mtime' = mtime)
    /\ UNCHANGED <<app, live, lastSeen, failures, failedAt, midWrite>>

\* Writing in place: the editor truncates the file, then writes it.
BeginEdit ==
    /\ edit = NoEdit /\ clock < MaxClock
    /\ UserWrites(Torn)
    /\ edit' \in Docs

FinishEdit ==
    /\ edit # NoEdit
    /\ UserWrites(edit)
    /\ edit' = NoEdit

\* Renaming a finished file over it.
ReplaceFile ==
    /\ edit = NoEdit /\ clock < MaxClock
    /\ \E d \in Docs : UserWrites(d)
    /\ UNCHANGED edit

RemoveFile ==
    /\ file # NoFile /\ edit = NoEdit
    /\ file' = NoFile
    /\ UNCHANGED <<mtime, clock, edit, app, live, lastSeen, failures, failedAt, midWrite, hidden>>

-----------------------------------------------------------------------------
\* clamp_to_valid() and meta_component_from_json().

\* Variant with a bug: only a divisor of zero is avoided.
ClampNonZero(c) == [f \in Fields |-> IF c[f] = 0 THEN 1 ELSE c[f]]

Clamp(c) == [f \in Fields |-> IF c[f] < Floor[f] THEN Floor[f] ELSE c[f]]

\* Partial update: a field the document does not mention stays as it is.
Merge(c, doc) ==
    [f \in Fields |-> IF f \in DOMAIN doc.vals THEN doc.vals[f] ELSE c[f]]

\* Variant with a bug: last_write_time() returns file_time_type::min() when the
\* file is gone, and that is recorded.
RecordMtimeUnchecked == lastSeen' = IF file = NoFile THEN -1 ELSE mtime

\* record_mtime(): nothing is recorded when the file is gone, or has no time to
\* be had.
RecordMtime == lastSeen' \in IF file = NoFile THEN {lastSeen} ELSE {lastSeen, mtime}

\* What a parse of the file comes to when it is read.
Readable == file # NoFile /\ file.fault = "none"
Throws == file # NoFile /\ file.fault = "type"

\* A failed load falls back to the defaults, which on_started() clamps as well;
\* a failed poll leaves what is live alone.
Checked(c) == IF app = "load" THEN Clamp(c) ELSE c

\* Variant with a bug: the fields are set on the live instance, no copy.
ParseInPlace ==
    \/ /\ Readable
       /\ app' = "run" /\ live' = Clamp(Merge(live, file)) /\ UNCHANGED <<failures, failedAt>>
    \/ /\ Throws
       /\ app' = "aborted" /\ UNCHANGED <<live, failures, failedAt>>
    \/ /\ app' = "run"
       /\ live' = Checked(IF file = NoFile THEN live ELSE Merge(live, file))
       /\ failures' = failures + 1 /\ failedAt' = lastSeen

\* parse_file_into(): all of the document or none of it.  std::bad_variant_access
\* is caught nowhere between here and the JNI boundary.  Opening or reading the
\* file may fail whatever is in it, and the caller cannot tell that from a
\* document that is rejected.
Parse ==
    \/ /\ Readable
       /\ app' = "run" /\ live' = Clamp(Merge(live, file)) /\ UNCHANGED <<failures, failedAt>>
    \/ /\ Throws
       /\ app' = "aborted" /\ UNCHANGED <<live, failures, failedAt>>
    \/ /\ app' = "run" /\ live' = Checked(live)
       /\ failures' = failures + 1 /\ failedAt' = lastSeen

-----------------------------------------------------------------------------
\* on_started(): load_or_provision(), then clamp_to_valid().

Start ==
    /\ app \in {"down", "aborted"} /\ clock < MaxClock
    /\ app' = "exists"
    /\ live' = Defaults /\ lastSeen' = 0 /\ failures' = 0 /\ failedAt' = 0
    /\ midWrite' = FALSE /\ hidden' = FALSE
    /\ UNCHANGED <<fileVars, edit>>

\* std::filesystem::exists() answers, or fails (kProvisionFailed).
CheckExists ==
    /\ app = "exists"
    /\ \/ app' = (IF file = NoFile THEN "provision" ELSE "record") /\ UNCHANGED live
       \/ app' = "run" /\ live' = Clamp(live)
    /\ UNCHANGED <<fileVars, edit, lastSeen, failures, failedAt, midWrite, hidden>>

\* write_file() truncates and writes the defaults, or fails after truncating or
\* before.  A user's editor that is writing in place then overwrites part of it.
Provision ==
    /\ app = "provision"
    /\ \/ file' = Provisioned /\ Stamp
          /\ app' = "provisioned" /\ UNCHANGED live
       \/ file' = Torn /\ Stamp /\ app' = "run" /\ live' = Clamp(live)
       \/ UNCHANGED fileVars /\ app' = "run" /\ live' = Clamp(live)
    /\ edit' = IF edit = NoEdit \/ file' = file THEN edit ELSE Torn
    /\ hidden' = FALSE
    /\ UNCHANGED <<lastSeen, failures, failedAt, midWrite>>

RecordProvisioned ==
    /\ app = "provisioned"
    /\ RecordMtime
    /\ app' = "run" /\ live' = Clamp(live)
    /\ UNCHANGED <<fileVars, edit, failures, failedAt, midWrite, hidden>>

\* An existing file's time is recorded before it is parsed.
RecordExisting ==
    /\ app = "record"
    /\ RecordMtime
    /\ app' = "load"
    /\ UNCHANGED <<fileVars, edit, live, failures, failedAt, midWrite, hidden>>

Load ==
    /\ app = "load"
    /\ Parse
    /\ UNCHANGED <<fileVars, edit, lastSeen, midWrite, hidden>>

-----------------------------------------------------------------------------
\* on_tick(): poll_reload(), then clamp_to_valid().

\* Variant with a bug: the time of a document that will not load is not
\* remembered, so the same failure is reported again and again.
PollForgetful ==
    /\ app = "run"
    /\ file # NoFile /\ mtime # lastSeen
    /\ lastSeen' = IF file.fault = "none" THEN mtime ELSE lastSeen
    /\ app' = "reload"
    /\ UNCHANGED <<fileVars, edit, live, failures, failedAt, midWrite, hidden>>

\* Variant with a bug: the first time ever seen is remembered without a load.
PollUnread ==
    /\ app = "run"
    /\ file # NoFile /\ mtime # lastSeen
    /\ lastSeen' = mtime
    /\ app' = IF lastSeen = 0 THEN "run" ELSE "reload"
    /\ UNCHANGED <<fileVars, edit, live, failures, failedAt, midWrite, hidden>>

\* Variant with a bug: a time that differs by one granule is the same time.
PollDebounced ==
    /\ app = "run"
    /\ file # NoFile /\ mtime > lastSeen + 1
    /\ lastSeen' = mtime
    /\ app' = "reload"
    /\ UNCHANGED <<fileVars, edit, live, failures, failedAt, midWrite, hidden>>

\* The time is recorded before the parse; a file that is missing or has the
\* time last seen is kUnchanged, which changes nothing.
Poll ==
    /\ app = "run"
    /\ file # NoFile /\ mtime # lastSeen
    /\ lastSeen' = mtime
    /\ app' = "reload"
    /\ UNCHANGED <<fileVars, edit, live, failures, failedAt, midWrite, hidden>>

Reload ==
    /\ app = "reload"
    /\ Parse
    /\ midWrite' = (file = Torn /\ edit # NoEdit)
    /\ UNCHANGED <<fileVars, edit, lastSeen, hidden>>

Kill ==
    /\ Running \/ Booting
    /\ app' = "down"
    /\ UNCHANGED <<fileVars, edit, live, lastSeen, failures, failedAt, midWrite, hidden>>

App == Start \/ CheckExists \/ Provision \/ RecordProvisioned
       \/ RecordExisting \/ Load \/ Poll \/ Reload
User == BeginEdit \/ FinishEdit \/ ReplaceFile \/ RemoveFile

Next == App \/ User \/ Kill

Spec == Init /\ [][Next]_vars

\* Frames keep coming, so the main thread goes on; the user and the killer owe
\* nothing.
FairSpec == Spec /\ WF_vars(App)

-----------------------------------------------------------------------------
\* Both intervals are divisors in on_tick(): whatever the file says, a running
\* process never sees one below its floor.
LiveIsValid == Running => \A f \in Fields : live[f] >= Floor[f]

\* The live configuration moves from one whole document to the next; a
\* document with a fault leaves nothing behind, not even the fields before it.
Whole(d) == d # NoFile /\ d.fault = "none"
LiveChangesWhole ==
    [][live' # live =>
          \/ live' \in {Defaults, Clamp(Defaults)}
          \/ \E d \in Docs : Whole(d) /\ live' = Clamp(Merge(live, d))]_vars

\* No edit is missed in silence.  When the times agree the next poll does nothing,
\* and has nothing to do: the live configuration is what the file says, or the one
\* attempt to read a file of this time has failed and was reported, unless the
\* file's last write was hidden from the comparison of times.
Reflects(d) ==
    \A f \in DOMAIN d.vals :
        live[f] = IF d.vals[f] < Floor[f] THEN Floor[f] ELSE d.vals[f]
Reported == failedAt = mtime
UpToDate ==
    app = "run" /\ mtime = lastSeen /\ Readable /\ ~hidden => Reflects(file) \/ Reported

\* A failure is reported once per file time, not once per poll; one more is the
\* load of a file that is gone after exists() found it.
FailuresPerEdit == failures <= clock + 1

\* "A torn read (polling mid-write) self-heals anyway, because the writer's
\* remaining write()s bump mtime past what was recorded here"
\* (json_config_file.hpp:125-127): a finished edit is not left unread.
TornReadHeals ==
    app = "run" /\ midWrite /\ edit = NoEdit /\ mtime = lastSeen /\ Readable
        => Reflects(file)

\* "kParseFailed: a file EXISTS but couldn't be parsed - a content-level problem
\* (bad JSON, wrong field types)" (json_config_file.hpp:47-48): a wrong field
\* type is an outcome, not the end of the process.
WrongTypeIsAnOutcome == app # "aborted"

\* An edit that stays takes effect, or the app says that it could not be loaded
\* (its time is recorded before it is read, so a read that fails is not tried
\* again), unless the process dies or it was hidden from the comparison of times.
EditTakesEffect ==
    \A d \in Docs :
        Whole(d) /\ file = d /\ ~hidden ~> Reflects(d) \/ Reported \/ file # d \/ ~Running
=============================================================================
