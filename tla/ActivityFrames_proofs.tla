------------------------ MODULE ActivityFrames_proofs ------------------------
(***************************************************************************)
(* The frame driver of ActivityFrames is right for every set of            *)
(* Activities, overlapping or not, bound or not; the Compose hosts are     *)
(* where their Activities are as long as none overlap.                     *)
(***************************************************************************)
EXTENDS ActivityFrames, TLAPS

\* The framework resumes one instance at a time, and the native side has been
\* started before any of them gets anywhere.
OneResumed == \A a, b \in Resumed : a = b
StartedFirst == \A a \in Activities : stage[a] # "none" => nativeStarted

\* on_started() runs once per process, however many instances come and go.
StartedOnce == starts = IF bound /\ nativeStarted THEN 1 ELSE 0

\* The type invariant in two parts: the flags, and the rest.
FlagsOK == nativeStarted \in BOOLEAN /\ active \in BOOLEAN /\ bound \in BOOLEAN
NativeOK ==
    /\ native \in {"none", "STARTED", "RESUMED", "PAUSED", "DESTROYED"}
    /\ starts \in Nat
RestOK ==
    /\ stage \in [Activities -> Stages] /\ host \in [Activities -> HostStates]
    /\ owner \in Activities \cup {NoOwner}
    /\ lastFrame \in {"zero", "thisResume", "earlierResume"}
    /\ posted \in Nat /\ ticked \in Nat
    /\ overlapping \subseteq Activities
    /\ bundle \in [Activities -> Activities \cup {NoOwner}]

IInv ==
    /\ FlagsOK /\ NativeOK /\ RestOK
    /\ OneCallback /\ TicksWhileResumed /\ StartedOnce /\ NoStaleGap
    /\ OneResumed /\ StartedFirst

LEMMA TypeParts == FlagsOK /\ NativeOK /\ RestOK => TypeOK
  BY Zenon DEF TypeOK, FlagsOK, NativeOK, RestOK

\* Initially nothing is posted and nothing resumed.
LEMMA InitIInv == Init => IInv
  <1> SUFFICES ASSUME Init PROVE IInv
    OBVIOUS
  <1>1. FlagsOK /\ NativeOK
    <2>1. FlagsOK
      BY Zenon DEF Init, FlagsOK
    <2> QED
      BY <2>1 DEF Init, NativeOK
  <1>2. RestOK
    BY DEF Init, RestOK, Stages, HostStates
  <1>3. Resumed = {} /\ ~active /\ ~nativeStarted
    BY DEF Init, Resumed
  <1>4. posted = 0 /\ starts = 0 /\ ticked = 0
    BY DEF Init
  <1>5. OneCallback /\ TicksWhileResumed /\ StartedOnce /\ NoStaleGap /\ OneResumed
    BY <1>3, <1>4 DEF OneCallback, TicksWhileResumed, StartedOnce, NoStaleGap, OneResumed
  <1>6. StartedFirst
    BY DEF Init, StartedFirst
  <1> QED
    BY <1>1, <1>2, <1>5, <1>6 DEF IInv

\* owner?.registry?.handleLifecycleEvent() keeps the type of host.
LEMMA HandleType ==
    ASSUME RestOK, NEW s \in HostStates, HandleLifecycleEvent(s)
    PROVE  host' \in [Activities -> HostStates]
  BY DEF RestOK, HandleLifecycleEvent

\* dispatchToNative() of anything but STARTED keeps the number of starts.
LEMMA DispatchType ==
    ASSUME NativeOK, NEW e \in {"RESUMED", "PAUSED", "DESTROYED"}, Dispatch(e)
    PROVE  NativeOK' /\ starts' = starts
  <1>1. starts' = starts
    BY DEF Dispatch, NativeDispatchLifecycleEvent, nativeVars
  <1>2. native' = e \/ native' = native
    BY Zenon DEF Dispatch, NativeDispatchLifecycleEvent, nativeVars
  <1> QED
    BY <1>1, <1>2 DEF NativeOK

\* The first instance starts the native side, once.
LEMMA StartType ==
    ASSUME FlagsOK, NativeOK, StartedOnce, StartNative, bound' = bound
    PROVE  /\ FlagsOK' \/ active' # active
           /\ NativeOK' /\ StartedOnce' /\ nativeStarted'
  <1>1. CASE nativeStarted
    <2>1. UNCHANGED <<nativeStarted, bound, starts, native>>
      BY <1>1 DEF StartNative, nativeVars
    <2> QED
      BY <1>1, <2>1 DEF FlagsOK, NativeOK, StartedOnce
  <1>2. CASE ~nativeStarted
    <2>1. nativeStarted' = TRUE /\ Dispatch("STARTED")
      BY <1>2 DEF StartNative
    <2>2. starts = 0
      BY <1>2 DEF StartedOnce
    <2>3. starts' = IF bound THEN 1 ELSE 0
      BY <2>1, <2>2 DEF Dispatch, NativeDispatchLifecycleEvent, nativeVars
    <2>4. native' = "STARTED" \/ native' = native
      BY <2>1, Zenon DEF Dispatch, NativeDispatchLifecycleEvent, nativeVars
    <2>5. NativeOK'
      BY <2>3, <2>4 DEF NativeOK
    <2>6. StartedOnce'
      BY <2>1, <2>3 DEF StartedOnce
    <2>7. FlagsOK' \/ active' # active
      BY <2>1, Zenon DEF FlagsOK
    <2> QED
      BY <2>1, <2>5, <2>6, <2>7
  <1> QED
    BY <1>1, <1>2

\* A callback that leaves the ticker and the resumed instances alone keeps the
\* invariant.
LEMMA QuietStep ==
    ASSUME IInv, FlagsOK', NativeOK', RestOK', UNCHANGED <<tickerVars, bound>>, ticked' = 0,
           Resumed' = Resumed, StartedFirst', StartedOnce', nativeStarted => nativeStarted'
    PROVE  IInv'
  <1>1. OneCallback' /\ NoStaleGap' /\ OneResumed'
    BY DEF IInv, OneCallback, NoStaleGap, OneResumed, tickerVars
  <1>2. active => nativeStarted'
    BY DEF IInv, StartedFirst, TicksWhileResumed, Resumed
  <1>3. TicksWhileResumed'
    BY <1>2 DEF IInv, TicksWhileResumed, StartedOnce, tickerVars
  <1> QED
    BY <1>1, <1>3 DEF IInv

\* A callback moves one instance.
LEMMA AdvanceType ==
    ASSUME RestOK, NEW a \in Activities, NEW from, NEW to \in Stages, Advance(a, from, to)
    PROVE  /\ stage' \in [Activities -> Stages] /\ ticked' = 0
           /\ stage'[a] = to /\ stage[a] \in from
           /\ \A b \in Activities : b # a => stage'[b] = stage[b]
  BY DEF RestOK, Advance

LEMMA FrameStep == ASSUME IInv, DoFrame PROVE IInv'
  <1>1. active /\ posted = 1
    BY DEF DoFrame, IInv, OneCallback, FlagsOK
  <1>2. ticked' = 1 /\ posted' = 1 /\ lastFrame' = "thisResume"
    BY <1>1 DEF DoFrame
  <1>3. UNCHANGED <<stage, owner, host, nativeStarted, active, bound, starts, native,
                    bundle, overlapping>>
    BY DEF DoFrame, nativeVars
  <1>4. FlagsOK' /\ NativeOK' /\ Resumed' = Resumed
    BY <1>3 DEF IInv, FlagsOK, NativeOK, Resumed
  <1>5. RestOK'
    BY <1>2, <1>3 DEF IInv, RestOK
  <1>6. OneCallback' /\ NoStaleGap' /\ TicksWhileResumed'
    BY <1>1, <1>2, <1>3, <1>4 DEF IInv, OneCallback, NoStaleGap, TicksWhileResumed
  <1>7. StartedOnce' /\ OneResumed' /\ StartedFirst'
    BY <1>3, <1>4 DEF IInv, StartedOnce, OneResumed, StartedFirst
  <1> QED
    BY <1>4, <1>5, <1>6, <1>7 DEF IInv

LEMMA CreatedStep == ASSUME IInv, NEW a \in Activities, OnActivityCreated(a) PROVE IInv'
  <1>1. UNCHANGED <<tickerVars, bound>> /\ ticked' = 0
    BY DEF OnActivityCreated, Advance
  <1>2. FlagsOK' /\ NativeOK' /\ StartedOnce' /\ nativeStarted'
    BY <1>1, StartType DEF IInv, OnActivityCreated, tickerVars
  <1>3. RestOK'
    <2>1. bundle' \in [Activities -> Activities \cup {NoOwner}]
      BY DEF IInv, RestOK, OnActivityCreated
    <2>2. stage' \in [Activities -> Stages] /\ overlapping' \subseteq Activities
      BY DEF IInv, RestOK, OnActivityCreated, Advance, Stages
    <2>3. host' \in [Activities -> HostStates] /\ owner' \in Activities \cup {NoOwner}
      BY DEF IInv, RestOK, OnActivityCreated, InstallHost, HostStates
    <2> QED
      BY <1>1, <2>1, <2>2, <2>3 DEF IInv, RestOK, tickerVars
  <1>4. Resumed' = Resumed /\ StartedFirst'
    BY <1>2 DEF IInv, RestOK, OnActivityCreated, Advance, Resumed, StartedFirst
  <1> QED
    BY <1>1, <1>2, <1>3, <1>4, QuietStep

LEMMA StartedStep == ASSUME IInv, NEW a \in Activities, OnActivityStarted(a) PROVE IInv'
  <1>1. UNCHANGED <<tickerVars, bound, nativeStarted, starts, native>> /\ ticked' = 0
    BY DEF OnActivityStarted, Advance, nativeVars
  <1>2. FlagsOK' /\ NativeOK' /\ StartedOnce'
    BY <1>1 DEF IInv, FlagsOK, NativeOK, StartedOnce, tickerVars
  <1>3. RestOK'
    BY <1>1, HandleType DEF IInv, RestOK, OnActivityStarted, Advance, tickerVars,
       Stages, HostStates
  <1>4. Resumed' = Resumed /\ StartedFirst'
    BY <1>1 DEF IInv, RestOK, OnActivityStarted, Advance, Resumed, StartedFirst
  <1> QED
    BY <1>1, <1>2, <1>3, <1>4, QuietStep

LEMMA StoppedStep == ASSUME IInv, NEW a \in Activities, OnActivityStopped(a) PROVE IInv'
  <1>1. UNCHANGED <<tickerVars, bound, nativeStarted, starts, native>> /\ ticked' = 0
    BY DEF OnActivityStopped, Advance, nativeVars
  <1>2. FlagsOK' /\ NativeOK' /\ StartedOnce'
    BY <1>1 DEF IInv, FlagsOK, NativeOK, StartedOnce, tickerVars
  <1>3. RestOK'
    BY <1>1, HandleType DEF IInv, RestOK, OnActivityStopped, Advance, tickerVars,
       Stages, HostStates
  <1>4. Resumed' = Resumed /\ StartedFirst'
    BY <1>1 DEF IInv, RestOK, OnActivityStopped, Advance, Resumed, StartedFirst
  <1> QED
    BY <1>1, <1>2, <1>3, <1>4, QuietStep

LEMMA SaveStep ==
    ASSUME IInv, NEW a \in Activities, OnActivitySaveInstanceState(a) PROVE IInv'
  <1>1. UNCHANGED <<tickerVars, bound, nativeStarted, starts, native>> /\ ticked' = 0
    BY DEF OnActivitySaveInstanceState, Advance, nativeVars
  <1>2. FlagsOK' /\ NativeOK' /\ StartedOnce'
    BY <1>1 DEF IInv, FlagsOK, NativeOK, StartedOnce, tickerVars
  <1>3. stage' = stage
    BY DEF OnActivitySaveInstanceState, Advance, IInv, RestOK
  <1>4. RestOK'
    BY <1>1, <1>3 DEF IInv, RestOK, OnActivitySaveInstanceState, tickerVars
  <1>5. Resumed' = Resumed /\ StartedFirst'
    BY <1>1, <1>3 DEF IInv, Resumed, StartedFirst
  <1> QED
    BY <1>1, <1>2, <1>4, <1>5, QuietStep

LEMMA DestroyedStep == ASSUME IInv, NEW a \in Activities, OnActivityDestroyed(a) PROVE IInv'
  <1>1. UNCHANGED <<tickerVars, bound, nativeStarted>> /\ ticked' = 0
    BY DEF OnActivityDestroyed, Advance
  <1>2. NativeOK' /\ starts' = starts
    BY DispatchType DEF OnActivityDestroyed, IInv
  <1>3. FlagsOK' /\ StartedOnce'
    BY <1>1, <1>2 DEF IInv, FlagsOK, StartedOnce, tickerVars
  <1>4. RestOK'
    BY <1>1, HandleType DEF IInv, RestOK, OnActivityDestroyed, Advance, tickerVars,
       Stages, HostStates
  <1>5. Resumed' = Resumed /\ StartedFirst'
    BY <1>1 DEF IInv, RestOK, OnActivityDestroyed, Advance, Resumed, StartedFirst
  <1> QED
    BY <1>1, <1>2, <1>3, <1>4, <1>5, QuietStep

LEMMA ResumedStep == ASSUME IInv, NEW a \in Activities, OnActivityResumed(a) PROVE IInv'
  <1>1. Resumed = {} /\ ~active
    <2>1. Resumed = {}
      BY DEF OnActivityResumed, Advance, InForeground, Resumed
    <2> QED
      BY <2>1 DEF IInv, TicksWhileResumed
  <1>2. Resumed' = {a}
    BY <1>1 DEF OnActivityResumed, Advance, Resumed, IInv, RestOK
  <1>3. active' = TRUE /\ posted' = 1 /\ lastFrame' = "zero" /\ ticked' = 0
    <2>1. posted = 0
      BY <1>1 DEF IInv, OneCallback
    <2> QED
      BY <1>1, <2>1 DEF OnActivityResumed, FrameTickerStart, Advance
  <1>4. UNCHANGED <<nativeStarted, bound>> /\ nativeStarted
    BY DEF OnActivityResumed, Advance, IInv, StartedFirst
  <1>5. NativeOK' /\ starts' = starts
    BY DispatchType DEF OnActivityResumed, IInv
  <1>6. FlagsOK'
    BY <1>3, <1>4, Zenon DEF FlagsOK, IInv
  <1>7. RestOK'
    BY <1>3, HandleType DEF IInv, RestOK, OnActivityResumed, Advance, Stages, HostStates
  <1>8. StartedOnce' /\ StartedFirst'
    BY <1>4, <1>5 DEF IInv, StartedOnce, StartedFirst
  <1>9. OneCallback' /\ NoStaleGap' /\ OneResumed'
    BY <1>2, <1>3 DEF OneCallback, NoStaleGap, OneResumed
  <1>10. TicksWhileResumed'
    BY <1>2, <1>3, <1>4, <1>8 DEF TicksWhileResumed, StartedOnce
  <1> QED
    BY <1>5, <1>6, <1>7, <1>8, <1>9, <1>10 DEF IInv

LEMMA PausedStep == ASSUME IInv, NEW a \in Activities, OnActivityPaused(a) PROVE IInv'
  <1>1. Resumed' = {}
    BY DEF OnActivityPaused, Advance, Resumed, IInv, RestOK, OneResumed
  <1>2. active' = FALSE /\ posted' = 0 /\ ticked' = 0
        /\ lastFrame' \in {"zero", "earlierResume"}
    BY DEF OnActivityPaused, FrameTickerStop, Advance
  <1>3. UNCHANGED <<nativeStarted, bound>>
    BY DEF OnActivityPaused, Advance
  <1>4. NativeOK' /\ starts' = starts
    BY DispatchType DEF OnActivityPaused, IInv
  <1>5. FlagsOK'
    BY <1>2, <1>3, Zenon DEF FlagsOK, IInv
  <1>6. RestOK'
    BY <1>2, HandleType DEF IInv, RestOK, OnActivityPaused, Advance, Stages, HostStates
  <1>7. StartedOnce' /\ StartedFirst'
    BY <1>3, <1>4 DEF IInv, RestOK, StartedOnce, StartedFirst, OnActivityPaused, Advance
  <1>8. OneCallback' /\ NoStaleGap' /\ OneResumed' /\ TicksWhileResumed'
    BY <1>1, <1>2 DEF OneCallback, NoStaleGap, OneResumed, TicksWhileResumed
  <1> QED
    BY <1>4, <1>5, <1>6, <1>7, <1>8 DEF IInv

\* A new process is as at the beginning.
LEMMA KilledStep == ASSUME IInv, ProcessKilled PROVE IInv'
  <1>1. FlagsOK'
    BY Zenon DEF ProcessKilled, FlagsOK
  <1>2. NativeOK'
    BY DEF ProcessKilled, NativeOK
  <1>3. RestOK'
    BY DEF ProcessKilled, RestOK, Stages, HostStates
  <1>4. Resumed' = {} /\ ~active' /\ ~nativeStarted'
    BY DEF ProcessKilled, Resumed
  <1>5. posted' = 0 /\ starts' = 0 /\ ticked' = 0
    BY DEF ProcessKilled
  <1>6. OneCallback' /\ TicksWhileResumed' /\ StartedOnce' /\ NoStaleGap' /\ OneResumed'
    BY <1>4, <1>5 DEF OneCallback, TicksWhileResumed, StartedOnce, NoStaleGap, OneResumed
  <1>7. StartedFirst'
    BY DEF ProcessKilled, StartedFirst
  <1> QED
    BY <1>1, <1>2, <1>3, <1>6, <1>7 DEF IInv

LEMMA NextIInv == IInv /\ [Next]_vars => IInv'
  <1>1. ASSUME IInv, UNCHANGED vars PROVE IInv'
    BY <1>1 DEF vars, tickerVars, nativeVars, IInv, FlagsOK, NativeOK, RestOK, OneCallback,
       TicksWhileResumed, StartedOnce, NoStaleGap, OneResumed, StartedFirst, Resumed
  <1> QED
    BY <1>1, FrameStep, CreatedStep, StartedStep, ResumedStep, PausedStep, StoppedStep,
       DestroyedStep, SaveStep, KilledStep DEF Next, ActivityCallback

\* The inductive invariant of the frame driver.
THEOREM FramesInductive == Spec => []IInv
  BY InitIInv, NextIInv, PTL DEF Spec

\* Types.
THEOREM FramesTyped == Spec => []TypeOK
  <1>1. IInv => TypeOK
    BY TypeParts DEF IInv
  <1> QED
    BY <1>1, FramesInductive, PTL

\* FrameTicker: one posted callback while an Activity is resumed, none otherwise,
\* for any number of Activities and any pause/resume pattern between two frames;
\* nativeTick() reaches an Application that was started once.
THEOREM NeitherDoubledNorFrozen == Spec => []OneTickPerFrame
  <1>1. IInv => OneTickPerFrame
    BY DEF IInv, OneTickPerFrame
  <1> QED
    BY <1>1, FramesInductive, PTL

\* on_started() runs once per process.
THEOREM StartsOncePerProcess == Spec => []StartedOnce
  <1>1. IInv => StartedOnce
    BY DEF IInv
  <1> QED
    BY <1>1, FramesInductive, PTL

\* A delta measures time within one resume.
THEOREM DeltasAreFresh == Spec => []NoStaleGap
  <1>1. IInv => NoStaleGap
    BY DEF IInv
  <1> QED
    BY <1>1, FramesInductive, PTL

-----------------------------------------------------------------------------
\* Without overlaps the owner field is that of the one Activity there is.
Gone == {"none", "destroyed"}
OwnerIsLive == \A a \in Activities : stage[a] \notin Gone => owner = a
OwnBundle == \A a \in Activities : bundle[a] \in {a, NoOwner}
NativeHeard == bound /\ Resumed # {} => native = "RESUMED"
AloneInv == overlapping = {} => HostFollowsActivity /\ OwnBundle /\ NativeHeard /\ OwnerIsLive

\* A callback of the one live Activity moves its host and the stage together.
LEMMA MoveTogether ==
    ASSUME RestOK, HostFollowsActivity, OwnerIsLive, NEW a \in Activities,
           NEW from \in SUBSET (Stages \ Gone), NEW to \in Stages, NEW s \in HostStates,
           Advance(a, from, to), HandleLifecycleEvent(s), s = HostOf(to)
    PROVE  /\ HostFollowsActivity' /\ owner = a
           /\ \A b \in Activities \ {a} : stage'[b] \in Gone
  <1>1. stage[a] \notin Gone /\ owner = a
    BY DEF Advance, OwnerIsLive
  <1>2. a # NoOwner
    BY ActivityAssumption
  <1>3. host' = [host EXCEPT ![a] = s] /\ stage' = [stage EXCEPT ![a] = to]
    BY <1>1, <1>2 DEF HandleLifecycleEvent, Advance
  <1>4. \A b \in Activities : host'[b] = IF b = a THEN s ELSE host[b]
    BY <1>3 DEF RestOK
  <1>5. \A b \in Activities : stage'[b] = IF b = a THEN to ELSE stage[b]
    BY <1>3 DEF RestOK
  <1>6. HostFollowsActivity'
    BY <1>4, <1>5, Zenon DEF HostFollowsActivity
  <1>7. \A b \in Activities \ {a} : stage'[b] \in Gone
    BY <1>1, <1>5 DEF OwnerIsLive
  <1> QED
    BY <1>1, <1>6, <1>7

LEMMA AloneCreated ==
    ASSUME IInv, AloneInv, NEW a \in Activities, OnActivityCreated(a) PROVE AloneInv'
  <1> SUFFICES ASSUME overlapping' = {}
               PROVE  HostFollowsActivity' /\ OwnBundle' /\ NativeHeard' /\ OwnerIsLive'
    BY DEF AloneInv
  <1>1. overlapping = {} /\ \A b \in Activities \ {a} : stage[b] \in Gone
    BY DEF OnActivityCreated, Gone
  <1>2. HostFollowsActivity /\ OwnBundle
    BY <1>1 DEF AloneInv
  <1>3. \A b \in Activities : stage'[b] = IF b = a THEN "created" ELSE stage[b]
    BY DEF OnActivityCreated, Advance, IInv, RestOK
  <1>4. owner' = a /\ \A b \in Activities : host'[b] = IF b = a THEN "CREATED" ELSE host[b]
    BY DEF OnActivityCreated, InstallHost, IInv, RestOK
  <1>5. HostOf("created") = "CREATED"
    BY DEF HostOf
  <1>6. HostFollowsActivity'
    BY <1>2, <1>3, <1>4, <1>5, Zenon DEF HostFollowsActivity
  <1>7. OwnBundle'
    BY <1>2 DEF OwnBundle, OnActivityCreated, IInv, RestOK
  <1>8. Resumed' = {} /\ OwnerIsLive'
    BY <1>1, <1>3, <1>4 DEF Resumed, OwnerIsLive, Gone
  <1> QED
    BY <1>6, <1>7, <1>8 DEF NativeHeard

\* The callbacks that move a live Activity and its host, and save nothing.
LEMMA AloneMoved ==
    ASSUME IInv, AloneInv, NEW a \in Activities,
           NEW from \in SUBSET (Stages \ Gone), NEW to \in Stages, NEW s \in HostStates,
           Advance(a, from, to), HandleLifecycleEvent(s), s = HostOf(to),
           UNCHANGED <<bundle, overlapping>>, owner' = owner \/ to \in Gone,
           to = "resumed" => (bound => native' = "RESUMED")
    PROVE  AloneInv'
  <1> SUFFICES ASSUME overlapping' = {}
               PROVE  HostFollowsActivity' /\ OwnBundle' /\ NativeHeard' /\ OwnerIsLive'
    BY DEF AloneInv
  <1>1. RestOK /\ HostFollowsActivity /\ OwnBundle /\ OwnerIsLive
    BY DEF IInv, AloneInv
  <1>2. /\ HostFollowsActivity' /\ owner = a
        /\ \A b \in Activities \ {a} : stage'[b] \in Gone
    BY <1>1, MoveTogether
  <1>3. stage'[a] = to /\ bound' = bound
    BY <1>1 DEF Advance, RestOK
  <1>4. OwnerIsLive'
    BY <1>2, <1>3 DEF OwnerIsLive
  <1>5. Resumed' # {} => to = "resumed"
    BY <1>2, <1>3 DEF Resumed, Gone
  <1> QED
    BY <1>1, <1>2, <1>3, <1>4, <1>5 DEF OwnBundle, NativeHeard

LEMMA AloneSaved ==
    ASSUME IInv, AloneInv, NEW a \in Activities, OnActivitySaveInstanceState(a)
    PROVE  AloneInv'
  <1> SUFFICES ASSUME overlapping' = {}
               PROVE  HostFollowsActivity' /\ OwnBundle' /\ NativeHeard' /\ OwnerIsLive'
    BY DEF AloneInv
  <1>1. UNCHANGED <<owner, host, native, bound>> /\ overlapping = {}
    BY DEF OnActivitySaveInstanceState, Advance, nativeVars
  <1>2. stage' = stage /\ stage[a] \notin Gone
    BY DEF OnActivitySaveInstanceState, Advance, IInv, RestOK, Gone
  <1>3. owner = a
    BY <1>1, <1>2 DEF AloneInv, OwnerIsLive
  <1>4. OwnBundle'
    BY <1>1, <1>3 DEF AloneInv, OwnBundle, OnActivitySaveInstanceState, IInv, RestOK
  <1> QED
    BY <1>1, <1>2, <1>4 DEF AloneInv, HostFollowsActivity, NativeHeard, OwnerIsLive, Resumed

\* dispatchToNative() reaches the native side when it is bound.
LEMMA Heard == ASSUME NEW e, bound, Dispatch(e) PROVE native' = e
  BY DEF Dispatch, NativeDispatchLifecycleEvent

LEMMA AloneCallback ==
    ASSUME IInv, AloneInv, NEW a \in Activities, ActivityCallback(a) PROVE AloneInv'
  <1> USE DEF Gone, Stages, HostStates, HostOf
  <1>1. CASE OnActivityStarted(a)
    BY <1>1, AloneMoved DEF OnActivityStarted
  <1>2. CASE OnActivityResumed(a)
    <2>1. bound => native' = "RESUMED"
      BY <1>2, Heard DEF OnActivityResumed
    <2> QED
      BY <1>2, <2>1, AloneMoved DEF OnActivityResumed
  <1>3. CASE OnActivityPaused(a)
    BY <1>3, AloneMoved DEF OnActivityPaused
  <1>4. CASE OnActivityStopped(a)
    BY <1>4, AloneMoved DEF OnActivityStopped
  <1>5. CASE OnActivityDestroyed(a)
    BY <1>5, AloneMoved DEF OnActivityDestroyed
  <1> QED
    BY <1>1, <1>2, <1>3, <1>4, <1>5, AloneCreated, AloneSaved DEF ActivityCallback

LEMMA NextAlone == IInv /\ AloneInv /\ [Next]_vars => AloneInv'
  <1> USE DEF AloneInv, HostFollowsActivity, OwnBundle, NativeHeard, OwnerIsLive, Resumed, HostOf
  <1>1. ASSUME AloneInv, UNCHANGED vars PROVE AloneInv'
    BY <1>1 DEF vars, nativeVars
  <1>2. ASSUME AloneInv, DoFrame PROVE AloneInv'
    BY <1>2 DEF DoFrame, nativeVars
  <1>3. ASSUME ProcessKilled PROVE AloneInv'
    BY <1>3 DEF ProcessKilled, Gone
  <1> QED
    BY <1>1, <1>2, <1>3, AloneCallback DEF Next

\* Each Compose host is where its Activity is, each Bundle holds its own state and
\* the native side has heard the last resume, for any number of Activities that
\* come one after the other.
THEOREM FollowsWhenAlone == Spec => []FollowsAlone
  <1>1. Init => AloneInv
    BY DEF Init, AloneInv, HostFollowsActivity, OwnBundle, NativeHeard, OwnerIsLive, Resumed,
       HostOf, Gone
  <1>2. AloneInv => FollowsAlone
    BY DEF AloneInv, FollowsAlone, OwnBundle, NativeHeard
  <1> QED
    BY <1>1, <1>2, NextAlone, FramesInductive, PTL DEF Spec
=============================================================================
