-------------------------- MODULE RuntimeResources --------------------------
(***************************************************************************)
(* What the resources.arsc blob that JNI_OnLoad hands to install() becomes *)
(* in each Activity: onActivityCreated() attaches the real table to the    *)
(* Activity's Resources (tryInstallGeneralResourcesLoader) or wraps its    *)
(* Context in a two-string override.  Every call on the way may throw.     *)
(*                                                                         *)
(* The callbacks object keeps one ByteBuffer and reads it once per         *)
(* Activity.  All of it runs on the main thread, after JNI_OnLoad.         *)
(***************************************************************************)
EXTENDS JniOnLoad

CONSTANT MaxActivities      \* Activity instances of the process (bound)

ASSUME ResourcesAssumption == MaxActivities \in Nat

Activities == 1 .. MaxActivities

\* The calls of the inner try block, in order; each may throw.
TableCalls == <<"Write", "Lseek", "Dup", "LoadFromTable", "AddProvider", "AddLoaders">>

VARIABLES
    apiR,       \* the device has API level 30
    created,    \* Activity instances created so far
    step,       \* "idle", or the step of tryInstallGeneralResourcesLoader()
    tableCall,  \* the call of the inner try block that comes next
    throwing,   \* an exception is on its way through the finally block
    drained,    \* the captured buffer's position is at its limit
    bytes,      \* what was read from it: "none" of the table or the "whole"
    memfd,      \* what the open memfd holds, or "closed"
    attached,   \* the Activities whose Resources have the loader
    sound,      \* (framework) those whose table has the field looked up
    context,    \* the Context each Activity's ComposeView got
    faults      \* (history) the steps that threw, of each Activity

resourceVars == <<apiR, created, step, tableCall, throwing, drained, bytes, memfd,
                  attached, sound, context, faults>>

ResourcesTypeOK ==
    /\ TypeOK
    /\ {apiR, throwing, drained} \subseteq BOOLEAN
    /\ created \in 0 .. MaxActivities
    /\ step \in {"idle", "Read", "Table", "Close", "Verify"}
    /\ tableCall \in 1 .. Len(TableCalls)
    /\ bytes \in {"none", "whole"}
    /\ memfd \in {"closed", "empty", "part", "whole"}
    /\ attached \subseteq Activities /\ sound \subseteq Activities
    /\ context \in [Activities -> {"none", "activity", "override"}]
    /\ DOMAIN faults = Activities

ResourcesInit ==
    /\ Init
    /\ apiR \in BOOLEAN
    /\ created = 0
    /\ step = "idle" /\ tableCall = 1 /\ throwing = FALSE
    /\ drained = FALSE /\ bytes = "none" /\ memfd = "closed"
    /\ attached = {} /\ sound = {}
    /\ context = [a \in Activities |-> "none"]
    /\ faults = [a \in Activities |-> {}]

-----------------------------------------------------------------------------
\* install() registered its callbacks.
Registered == phase = "returned" /\ installed /\ "Install" \notin failed

\* The early returns: API level 30 is needed, and a blob that passed its check.
Usable == apiR /\ resources

\* wrapContextForResourceStringOverride(); its self check only logs.
OnActivityCreated ==
    /\ Registered /\ step = "idle" /\ created < MaxActivities
    /\ created' = created + 1
    /\ IF Usable
       THEN step' = "Read" /\ UNCHANGED context
       ELSE context' = [context EXCEPT ![created + 1] = "override"] /\ UNCHANGED step
    /\ UNCHANGED <<apiR, tableCall, throwing, drained, bytes, memfd, attached, sound, faults>>

\* The function returns, and the caller picks the Context by what it returned.
Result(c) ==
    /\ step' = "idle" /\ tableCall' = 1 /\ throwing' = FALSE
    /\ context' = [context EXCEPT ![created] = c]

Threw(c) == faults' = [faults EXCEPT ![created] = @ \cup {c}]

-----------------------------------------------------------------------------
\* Variant with a bug: get() on the captured buffer (the code before 2026-07-22).
CopyBlobShared ==
    /\ bytes' = IF drained THEN "none" ELSE "whole"
    /\ drained' = TRUE

\* duplicate() has the captured buffer's position, and leaves it alone.
CopyBlob ==
    /\ bytes' = IF drained THEN "none" ELSE "whole"
    /\ UNCHANGED drained

\* The copy, and the memfd that takes it, outside the inner try.
Read ==
    /\ step = "Read"
    /\ CopyBlob
    /\ \/ step' = "Table" /\ memfd' = "empty" /\ UNCHANGED <<tableCall, throwing, context, faults>>
       \/ Result("override") /\ Threw("MemfdCreate") /\ UNCHANGED memfd
    /\ UNCHANGED <<apiR, created, attached, sound>>

\* Os.write() may write less than it was given; what it returns is ignored.
Written == IF bytes = "none" THEN {"empty"} ELSE {"part", "whole"}

\* An empty table is refused; one that loads may still lack the field.
TableCallReturns ==
    /\ step = "Table" /\ ~(TableCalls[tableCall] = "LoadFromTable" /\ memfd = "empty")
    /\ memfd' \in IF TableCalls[tableCall] = "Write" THEN Written ELSE {memfd}
    /\ sound' \in IF TableCalls[tableCall] = "LoadFromTable"
                  THEN {sound, sound \cup {created}} ELSE {sound}
    /\ attached' = IF TableCalls[tableCall] = "AddLoaders" THEN attached \cup {created}
                                                           ELSE attached
    /\ IF tableCall = Len(TableCalls) THEN step' = "Close" /\ UNCHANGED tableCall
                                      ELSE tableCall' = tableCall + 1 /\ UNCHANGED step
    /\ UNCHANGED <<apiR, created, throwing, drained, bytes, context, faults>>

\* Variant with a bug: no finally, so a throw goes past Os.close().
TableCallThrowsPast ==
    /\ step = "Table"
    /\ Threw(TableCalls[tableCall]) /\ Result("override")
    /\ UNCHANGED <<apiR, created, drained, bytes, memfd, attached, sound>>

TableCallThrows ==
    /\ step = "Table"
    /\ Threw(TableCalls[tableCall])
    /\ throwing' = TRUE /\ step' = "Close"
    /\ UNCHANGED <<apiR, created, tableCall, drained, bytes, memfd, attached, sound, context>>

\* The finally block.  Linux releases a descriptor even if close() reports an
\* error; an error here takes the place of what was thrown before.
CloseMemfd ==
    /\ step = "Close"
    /\ memfd' = "closed"
    /\ \/ ~throwing /\ step' = "Verify" /\ UNCHANGED <<tableCall, throwing, context, faults>>
       \/ throwing /\ Result("override") /\ UNCHANGED faults
       \/ Result("override") /\ Threw("Close")
    /\ UNCHANGED <<apiR, created, drained, bytes, attached, sound>>

-----------------------------------------------------------------------------
\* Variant with a bug: the loader stays (the code before the review of 2026-07-22).
UndoLoaderNot == UNCHANGED <<attached, faults>>

\* removeLoaders(); if it throws, the outer catch returns false all the same.
UndoLoader ==
    \/ attached' = attached \ {created} /\ UNCHANGED faults
    \/ Threw("RemoveLoaders") /\ UNCHANGED attached

\* Variant with a bug: addLoaders() is trusted.
VerifyTrusting ==
    /\ step = "Verify"
    /\ Result("activity") /\ UNCHANGED <<attached, faults>>
    /\ UNCHANGED <<apiR, created, drained, bytes, memfd, sound>>

\* getString() of one field, caught whatever it throws.
Verify ==
    /\ step = "Verify"
    /\ \/ created \in sound /\ Result("activity") /\ UNCHANGED <<attached, faults>>
       \/ created \notin sound /\ Result("override") /\ UndoLoader
    /\ UNCHANGED <<apiR, created, drained, bytes, memfd, sound>>

ResourcesNext ==
    \/ Next /\ UNCHANGED resourceVars
    \/ /\ \/ OnActivityCreated \/ Read \/ TableCallReturns \/ TableCallThrows
          \/ CloseMemfd \/ Verify
       /\ UNCHANGED vars

ResourcesSpec == ResourcesInit /\ [][ResourcesNext]_<<vars, resourceVars>>

-----------------------------------------------------------------------------
Done == {a \in Activities : context[a] # "none"}

\* Exactly one mechanism is in force in each Activity: the attached table with
\* the plain Context, or the override with no table ("a clean either/or",
\* KonativeResourcesLoader.kt:129-138), through a failure of any call but the
\* two after which nothing can be undone.
OneMechanism ==
    \A a \in Done : faults[a] \cap {"Close", "RemoveLoaders"} = {} =>
        (context[a] = "activity" <=> a \in attached)

\* An Activity keeps its own Context only if the field the accessibility
\* delegate reads resolves in it; else it gets the override, which does resolve
\* it, so a Switch or Tab role never throws, on any API level and after any
\* failure, that of the blob's checksum in JNI_OnLoad included.
RolesResolve ==
    \A a \in Done : context[a] = "activity" =>
        apiR /\ "Resources" \notin failed /\ a \in attached \cap sound

\* No descriptor outlives the call that opened it.
MemfdReleased == step \in {"idle", "Verify"} => memfd = "closed"

\* The n-th Activity of the process, a rotated one for instance, reads as much
\* of the blob as the first: no table is ever handed over empty.
TableNeverEmpty == step = "Table" /\ tableCall > 1 => memfd # "empty"
=============================================================================
