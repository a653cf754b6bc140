------------------------------ MODULE JniOnLoad ------------------------------
(***************************************************************************)
(* JNI_OnLoad(): from a JavaVM* to the one call that hands the process to  *)
(* Kotlin.  It is a sequence of stages, each a few JNI calls, each call    *)
(* able to fail with or without a Java exception.  A required stage that   *)
(* fails ends JNI_OnLoad; an optional one costs its own feature.  After a  *)
(* call that can throw, check_and_clear_exception() clears what it threw.  *)
(***************************************************************************)
EXTENDS Naturals, Sequences

\* The JNI calls of call_static_method(), call_instance_method(), of the upgrade
\* to a resource-aware loader and of get_files_dir_path(), in order.
StaticCall == <<"GetStaticMethodID", "CallStaticObjectMethod">>
InstanceCall == <<"GetObjectClass", "GetMethodID", "CallObjectMethod">>
UpgradeCalls == <<"NewStringUTF", "GetMethodID", "CallObjectMethod",
                  "GetMethodID", "NewObject", "NewObject">>
FilesDirCalls == InstanceCall \o InstanceCall \o <<"GetStringUTFChars">>

\* load_class_from_dex().  The two NewGlobalRef() calls, whose results are looked
\* at together, are one.
DexStages == <<
    [name |-> "ActivityThread", calls |-> <<"FindClass">>],
    [name |-> "Application",    calls |-> StaticCall],
    [name |-> "ClassLoader",    calls |-> InstanceCall],
    [name |-> "DexBuffer",      calls |-> <<"NewDirectByteBuffer">>],
    [name |-> "DexLoader",      calls |-> <<"FindClass", "GetMethodID", "NewObject">>],
    [name |-> "UpgradeBuffer",  calls |-> <<"NewDirectByteBuffer">>],
    [name |-> "Upgrade",        calls |-> UpgradeCalls],
    [name |-> "EntryClass",     calls |-> <<"NewStringUTF">> \o InstanceCall],
    [name |-> "Promote",        calls |-> <<"NewGlobalRef">>] >>

\* JNI_OnLoad(): what is verified, loaded, bound and handed over, in order.
Stages ==
    << [name |-> "GetEnv",      calls |-> <<"GetEnv">>],
       [name |-> "VerifyDex",   calls |-> <<"verify_blob">>] >>
    \o DexStages \o
    << [name |-> "Resources",   calls |-> <<"verify_blob", "NewDirectByteBuffer">>],
       [name |-> "Natives",     calls |-> <<"RegisterNatives">>],
       [name |-> "FilesDir",    calls |-> FilesDirCalls],
       [name |-> "FindInstall", calls |-> <<"GetStaticMethodID">>],
       [name |-> "Install",     calls |-> <<"CallStaticVoidMethod">>] >>

Optional == {"Upgrade", "Resources", "Natives", "FilesDir"}
Names == {Stages[i].name : i \in 1 .. Len(Stages)}
\* The stages before the class and the Application are held.
LoadStages == {Stages[i].name : i \in 1 .. 11} \ Optional

VARIABLES
    stage, call,    \* the JNI call that comes next
    phase,          \* "load" in JNI_OnLoad, "returned", or "aborted" by the VM
    pending,        \* an exception is pending on the JNIEnv
    failed,         \* (history) the stages that failed
    globals,        \* the GlobalRefs that hold an object
    loader,         \* what loads the entry class
    resources,      \* the ByteBuffer install() gets is not null
    natives,        \* RegisterNatives bound the native methods
    configDir,      \* config_directory_ is not empty
    installed       \* install() was called

featureVars == <<globals, loader, resources, natives, configDir, installed>>
vars == <<stage, call, phase, pending, failed, featureVars>>

GlobalRefs == {"clazz", "application"}

TypeOK ==
    /\ stage \in 1 .. Len(Stages)
    /\ call \in 1 .. Len(Stages[stage].calls)
    /\ phase \in {"load", "returned", "aborted"}
    /\ pending \in BOOLEAN
    /\ failed \subseteq Names
    /\ globals \subseteq GlobalRefs
    /\ loader \in {"none", "plain", "aware"}
    /\ {resources, natives, configDir, installed} \subseteq BOOLEAN

Init ==
    /\ stage = 1 /\ call = 1 /\ phase = "load"
    /\ pending = FALSE /\ failed = {}
    /\ globals = {} /\ loader = "none"
    /\ resources = FALSE /\ natives = FALSE /\ configDir = FALSE /\ installed = FALSE

-----------------------------------------------------------------------------
Name == Stages[stage].name
LastCall == call = Len(Stages[stage].calls)
LastStage == stage = Len(Stages)

Return ==
    /\ phase' = "returned"
    /\ UNCHANGED <<stage, call>>

\* Variant with a bug: nothing returns after install().
NextStageForever == stage' = stage + 1 /\ call' = 1 /\ UNCHANGED phase

NextStage ==
    IF LastStage THEN Return
    ELSE stage' = stage + 1 /\ call' = 1 /\ UNCHANGED phase

\* What a stage leaves behind.  Until the upgrade has succeeded the class loader
\* of the entry class is the plain one.
Effect ==
    /\ globals' = IF Name = "Promote" THEN GlobalRefs ELSE globals
    /\ loader' = CASE Name = "DexLoader" -> "plain"
                   [] Name = "Upgrade" -> "aware"
                   [] OTHER -> loader
    /\ resources' = (resources \/ Name = "Resources")
    /\ natives' = (natives \/ Name = "Natives")
    /\ configDir' = (configDir \/ Name = "FilesDir")
    /\ installed' = (installed \/ Name = "Install")

CallSucceeds ==
    /\ phase = "load" /\ ~pending
    /\ IF LastCall THEN Effect /\ NextStage
       ELSE call' = call + 1 /\ UNCHANGED <<stage, phase, featureVars>>
    /\ UNCHANGED <<pending, failed>>

-----------------------------------------------------------------------------
\* Variant with a bug: the reference that was promoted is not reset.
LeaveFeaturesLeaking ==
    /\ globals' \in IF Name = "Promote" THEN SUBSET GlobalRefs \ {GlobalRefs} ELSE {globals}
    /\ installed' = (installed \/ Name = "Install")
    /\ UNCHANGED <<loader, resources, natives, configDir>>

\* A stage that fails leaves no feature: a GlobalRef that was promoted is reset
\* with the other.  install() was called even if it threw.
LeaveFeatures ==
    /\ globals' = IF Name = "Promote" THEN {} ELSE globals
    /\ installed' = (installed \/ Name = "Install")
    /\ UNCHANGED <<loader, resources, natives, configDir>>

\* Variant with a bug: no handoff without a files directory.
FailStrictly ==
    /\ failed' = failed \cup {Name}
    /\ IF Name \in Optional \ {"FilesDir"} THEN NextStage ELSE Return

Fail ==
    /\ failed' = failed \cup {Name}
    /\ IF Name \in Optional THEN NextStage ELSE Return

\* A null or error result; what was thrown with it is cleared, except that
\* RegisterNatives() != JNI_OK skips its check.
CallFails ==
    /\ phase = "load" /\ ~pending
    /\ Fail
    /\ LeaveFeatures
    /\ pending' \in IF Name = "Natives" THEN BOOLEAN ELSE {FALSE}

\* A JNI call with an exception pending: the VM may abort, or the call does
\* nothing and the check that follows it takes the exception for its own.
CallPending ==
    /\ phase = "load" /\ pending
    /\ \/ phase' = "aborted" /\ UNCHANGED <<stage, call, pending, failed, featureVars>>
       \/ Fail /\ LeaveFeatures /\ pending' = FALSE

Next == CallSucceeds \/ CallFails \/ CallPending

Spec == Init /\ [][Next]_vars

-----------------------------------------------------------------------------
\* An optional failure, or any number of them, never stops the handoff, and a
\* required one always does ("non-fatal", jni_onload.cpp:1259-1264, 1289-1293,
\* 1378-1380); what is handed over lacks exactly the features whose own stage
\* failed, an exception that one stage left to the next included.
FeaturesMatch ==
    /\ resources <=> "Resources" \notin failed
    /\ natives <=> "Natives" \notin failed
    /\ configDir <=> "FilesDir" \notin failed
    /\ loader = IF "Upgrade" \in failed THEN "plain" ELSE "aware"
HandoffReached ==
    phase = "returned" =>
        /\ installed <=> failed \subseteq Optional \cup {"Install"}
        /\ installed => FeaturesMatch

\* Whatever failed on the way, JNI_OnLoad leaves either both the class and the
\* Application held for the rest of the process or no global reference at all,
\* and no exception pending, which System.loadLibrary() would throw in the host's
\* class initializer.
LeavesNoHalf ==
    phase = "returned" =>
        /\ globals = IF failed \cap LoadStages = {} THEN GlobalRefs ELSE {}
        /\ ~pending

\* "a pending exception must be cleared before making ANY further JNI call"
\* (call.hpp:19-21; jni/README.md:24-27).
NoCallWhilePending == phase = "load" => ~pending
=============================================================================
