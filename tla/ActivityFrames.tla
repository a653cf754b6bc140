--------------------------- MODULE ActivityFrames ---------------------------
(***************************************************************************)
(* The Kotlin half of Konative: the ActivityLifecycleCallbacks object that *)
(* KonativeEntryPoint.install() registers, FrameTicker, and what both send *)
(* to the native Application.                                              *)
(*                                                                         *)
(* Everything here runs on the main thread, one callback at a time.  The   *)
(* Android framework decides the order: it drives each Activity through    *)
(* its lifecycle, resumes one at a time, and calls each posted frame       *)
(* callback at the next vsync.  A rotation destroys an Activity's instance *)
(* and creates the next; another Activity may be created and resumed       *)
(* before an older one is stopped and destroyed (back, then a quick        *)
(* relaunch).  The system may end the process at any time and start it     *)
(* anew.                                                                   *)
(***************************************************************************)
EXTENDS Naturals

CONSTANTS
    Activities,     \* Activities of the task; each may have many instances, in turn
    NoOwner

ASSUME ActivityAssumption == NoOwner \notin Activities

Stages == {"none", "created", "started", "resumed", "paused", "stopped", "destroyed"}
HostStates == {"INITIALIZED", "CREATED", "STARTED", "RESUMED", "DESTROYED"}

VARIABLES
    stage,          \* (framework) where the instance of each Activity is
    owner,          \* the callbacks object's owner field
    host,           \* state of the LifecycleRegistry of each one's ComposeHostOwner
    nativeStarted,  \* the callbacks object's nativeStarted field
    active,         \* FrameTicker.active
    lastFrame,      \* FrameTicker.lastFrameTimeNanos: zero, or when it was taken
    posted,         \* (framework) doFrame callbacks waiting for the next vsync
    bound,          \* RegisterNatives bound the native methods
    starts,         \* on_started() calls
    native,         \* the last lifecycle event the native Application saw
    bundle,         \* whose host's state the saved-state Bundle of each Activity holds
    ticked,         \* (history) doFrame ticks of the last vsync since the last callback
    overlapping     \* (history) those created before another was gone

tickerVars == <<active, lastFrame, posted>>
nativeVars == <<starts, native>>
vars == <<stage, owner, host, nativeStarted, tickerVars, bound, nativeVars, bundle,
          ticked, overlapping>>

TypeOK ==
    /\ stage \in [Activities -> Stages] /\ host \in [Activities -> HostStates]
    /\ owner \in Activities \cup {NoOwner}
    /\ nativeStarted \in BOOLEAN /\ active \in BOOLEAN /\ bound \in BOOLEAN
    /\ lastFrame \in {"zero", "thisResume", "earlierResume"}
    /\ posted \in Nat /\ starts \in Nat /\ ticked \in Nat
    /\ overlapping \subseteq Activities
    /\ bundle \in [Activities -> Activities \cup {NoOwner}]
    /\ native \in {"none", "STARTED", "RESUMED", "PAUSED", "DESTROYED"}

\* A new process: System.loadLibrary() has run JNI_OnLoad, nothing else.
Init ==
    /\ stage = [a \in Activities |-> "none"]
    /\ host = [a \in Activities |-> "INITIALIZED"]
    /\ owner = NoOwner
    /\ nativeStarted = FALSE
    /\ active = FALSE /\ lastFrame = "zero" /\ posted = 0
    /\ bound \in BOOLEAN
    /\ starts = 0 /\ native = "none"
    /\ bundle = [a \in Activities |-> NoOwner]
    /\ ticked = 0 /\ overlapping = {}

-----------------------------------------------------------------------------
\* The one native Application hears the event, and on_started() runs on STARTED.
NativeDispatchLifecycleEvent(event) ==
    /\ native' = event
    /\ starts' = IF event = "STARTED" THEN starts + 1 ELSE starts

\* dispatchToNative(): an unbound method throws UnsatisfiedLinkError, which is
\* caught and logged.
Dispatch(event) ==
    IF bound THEN NativeDispatchLifecycleEvent(event) ELSE UNCHANGED nativeVars

\* owner?.registry?.handleLifecycleEvent(...): whichever instance owner is.
HandleLifecycleEvent(state) ==
    host' = IF owner = NoOwner THEN host ELSE [host EXCEPT ![owner] = state]

\* The framework tells Activity a of its next stage.
Advance(a, from, to) ==
    /\ stage[a] \in from
    /\ stage' = [stage EXCEPT ![a] = to]
    /\ ticked' = 0
    /\ UNCHANGED bound

Resumed == {a \in Activities : stage[a] = "resumed"}

-----------------------------------------------------------------------------
\* FrameTicker.

FrameTickerStart ==
    IF active THEN UNCHANGED tickerVars
    ELSE active' = TRUE /\ lastFrame' = "zero" /\ posted' = posted + 1

\* Variant with a bug: no removeFrameCallback() (the code before 2026-07-22).
FrameTickerStopPosted ==
    /\ active' = FALSE
    /\ posted' = posted
    /\ lastFrame' = IF lastFrame = "zero" THEN "zero" ELSE "earlierResume"

\* Variant with a bug: the callback is removed, active stays set.
FrameTickerStopActive ==
    /\ active' = active
    /\ posted' = 0
    /\ lastFrame' = IF lastFrame = "zero" THEN "zero" ELSE "earlierResume"

\* lastFrameTimeNanos is left alone: from here on it is an old time.
FrameTickerStop ==
    /\ active' = FALSE
    /\ posted' = 0
    /\ lastFrame' = IF lastFrame = "zero" THEN "zero" ELSE "earlierResume"

\* Vsync runs every posted callback; each one ticks and posts itself again.
DoFrame ==
    /\ posted > 0
    /\ IF active THEN /\ ticked' = posted /\ posted' = posted
                      /\ lastFrame' = "thisResume"
                 ELSE ticked' = 0 /\ posted' = 0 /\ UNCHANGED lastFrame
    /\ UNCHANGED <<stage, owner, host, nativeStarted, active, bound, nativeVars, bundle,
                    overlapping>>

-----------------------------------------------------------------------------
\* ActivityLifecycleCallbacks.

\* Variant with a bug: each new instance starts the native side.
StartNativeAlways == nativeStarted' = TRUE /\ Dispatch("STARTED")

StartNative ==
    IF nativeStarted THEN UNCHANGED <<nativeStarted, nativeVars>>
    ELSE nativeStarted' = TRUE /\ Dispatch("STARTED")

\* Variant with a bug: one guard for both (the code before 2026-07-22); an
\* instance created after the first gets no host of its own.
InstallHostOnce(a) ==
    IF nativeStarted THEN UNCHANGED <<owner, host>>
    ELSE owner' = a /\ host' = [host EXCEPT ![a] = "CREATED"]

InstallHost(a) ==
    /\ owner' = a
    /\ host' = [host EXCEPT ![a] = "CREATED"]

\* Any other has at least paused.  The Bundle is there when the Activity is
\* created again, and not when it is launched anew.
OnActivityCreated(a) ==
    /\ Advance(a, {"none", "destroyed"}, "created")
    /\ \A b \in Activities \ {a} :
          stage[b] \in {"none", "paused", "stopped", "destroyed"}
    /\ overlapping' = IF \E b \in Activities \ {a} : stage[b] \in {"paused", "stopped"}
                      THEN overlapping \cup {a} ELSE overlapping
    /\ StartNative
    /\ InstallHost(a)
    /\ bundle' \in {bundle, [bundle EXCEPT ![a] = NoOwner]}
    /\ UNCHANGED tickerVars

InForeground(a) == \A b \in Activities \ {a} : stage[b] \notin {"created", "started", "resumed"}

OnActivityStarted(a) ==
    /\ Advance(a, {"created", "stopped"}, "started")
    /\ InForeground(a)
    /\ HandleLifecycleEvent("STARTED")
    /\ UNCHANGED <<owner, nativeStarted, tickerVars, nativeVars, bundle, overlapping>>

OnActivityResumed(a) ==
    /\ Advance(a, {"started", "paused"}, "resumed")
    /\ InForeground(a)
    /\ HandleLifecycleEvent("RESUMED")
    /\ Dispatch("RESUMED")
    /\ FrameTickerStart
    /\ UNCHANGED <<owner, nativeStarted, bundle, overlapping>>

OnActivityPaused(a) ==
    /\ Advance(a, {"resumed"}, "paused")
    /\ HandleLifecycleEvent("STARTED")
    /\ FrameTickerStop
    /\ Dispatch("PAUSED")
    /\ UNCHANGED <<owner, nativeStarted, bundle, overlapping>>

OnActivityStopped(a) ==
    /\ Advance(a, {"started", "paused"}, "stopped")
    /\ HandleLifecycleEvent("CREATED")
    /\ UNCHANGED <<owner, nativeStarted, tickerVars, nativeVars, bundle, overlapping>>

\* owner?.performSave(outState), which the framework asks of an Activity that it
\* may create again, once it has paused or stopped.
OnActivitySaveInstanceState(a) ==
    /\ Advance(a, {"paused", "stopped"}, stage[a])
    /\ bundle' = IF owner = NoOwner THEN bundle ELSE [bundle EXCEPT ![a] = owner]
    /\ UNCHANGED <<owner, host, nativeStarted, tickerVars, nativeVars, overlapping>>

OnActivityDestroyed(a) ==
    /\ Advance(a, {"created", "stopped"}, "destroyed")
    /\ HandleLifecycleEvent("DESTROYED")
    /\ owner' = NoOwner
    /\ Dispatch("DESTROYED")
    /\ UNCHANGED <<nativeStarted, tickerVars, bundle, overlapping>>

ActivityCallback(a) ==
    \/ OnActivityCreated(a) \/ OnActivityStarted(a) \/ OnActivityResumed(a)
    \/ OnActivityPaused(a) \/ OnActivityStopped(a) \/ OnActivityDestroyed(a)
    \/ OnActivitySaveInstanceState(a)

\* The system ends the process and starts it again for the next Activity.
ProcessKilled ==
    /\ stage' = [a \in Activities |-> "none"]
    /\ host' = [a \in Activities |-> "INITIALIZED"]
    /\ owner' = NoOwner /\ nativeStarted' = FALSE
    /\ active' = FALSE /\ lastFrame' = "zero" /\ posted' = 0
    /\ bound' \in BOOLEAN
    /\ starts' = 0 /\ native' = "none"
    /\ bundle' = [a \in Activities |-> NoOwner]
    /\ ticked' = 0 /\ overlapping' = {}

Next == DoFrame \/ ProcessKilled \/ \E a \in Activities : ActivityCallback(a)

Spec == Init /\ [][Next]_vars

-----------------------------------------------------------------------------
OneCallback == posted = IF active THEN 1 ELSE 0
TicksWhileResumed ==
    /\ active <=> Resumed # {}
    /\ active /\ bound => starts = 1
    /\ ticked <= 1

\* The delta of a tick never spans the time between a pause and a resume.
NoStaleGap == active => lastFrame # "earlierResume"

\* Exactly one frame callback is posted while an Activity is resumed and none
\* otherwise, through any pause/resume pairs within one frame: neither a doubled
\* tick rate (the 2026-07-22 bug stop() describes) nor a frozen one, nor a tick
\* of the time in between.  The ticks go to an Application whose on_started() has
\* run, and run only once, however many instances came and went.
OneTickPerFrame == OneCallback /\ TicksWhileResumed /\ NoStaleGap

HostOf(s) == CASE s = "none" -> "INITIALIZED" [] s \in {"created", "stopped"} -> "CREATED"
               [] s \in {"started", "paused"} -> "STARTED" [] s = "resumed" -> "RESUMED"
               [] s = "destroyed" -> "DESTROYED"

\* Each instance's Compose host is where its Activity is: the view tree of a
\* resumed Activity is never stopped or destroyed, nor that of a destroyed one
\* left alive ("each one gets its own fresh ComposeHostOwner",
\* KonativeEntryPoint.kt:96-99).
HostFollowsActivity == \A a \in Activities : host[a] = HostOf(stage[a])

\* It holds through every rotation and restart as long as no two instances
\* overlap, although all of them share one owner field; what was saved for an
\* instance is then its own state, and while an Activity is resumed that is the
\* last thing the native side has heard.
FollowsAlone ==
    overlapping = {} =>
        /\ HostFollowsActivity
        /\ \A a \in Activities : bundle[a] \in {a, NoOwner}
        /\ bound /\ Resumed # {} => native = "RESUMED"
=============================================================================
