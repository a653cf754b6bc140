-------------------------- MODULE KonativeApp_proofs --------------------------
(***************************************************************************)
(* KonativeApp implements ActivityFrames and Follower, so that whatever is *)
(* proved of either holds of the app; and every touch has its effect.  For *)
(* all Activities, fingers, touches and windows.                           *)
(***************************************************************************)
EXTENDS KonativeApp, ActivityFrames_proofs, FiniteSetTheorems

DotFacts == INSTANCE Follower_proofs

-----------------------------------------------------------------------------
\* The lifecycle half.  Only frames, callbacks and kills touch its variables.

LEMMA StepIsFrames == [AppNext]_appVars => [Next]_vars
  <1> SUFFICES ASSUME [AppNext]_appVars PROVE [Next]_vars
    OBVIOUS
  <1>1. CASE UNCHANGED appVars
    BY <1>1 DEF appVars
  <1>2. CASE Frame
    BY <1>2 DEF Frame, Next
  <1>3. CASE Continue
    BY <1>3 DEF Continue, FrameSnapshot, FrameShown, TouchesShown, VisitChange
  <1>4. CASE Kill
    BY <1>4 DEF Kill, Next
  <1>5. CASE \E a \in Activities : Lifecycle(a)
    BY <1>5 DEF Lifecycle, Next
  <1>6. CASE \E c \in Centres : WindowResized(c)
    BY <1>6 DEF WindowResized
  <1>7. CASE \E f \in Fingers, p \in Touches : FingerDown(f, p) \/ FingerUp(f, p)
    BY <1>7 DEF FingerDown, FingerUp, PointerEvent
  <1>8. CASE \E to \in [Fingers -> Touches] : FingersMoved(to)
    BY <1>8 DEF FingersMoved, PointerEvent
  <1>9. CASE FingersCancelled
    BY <1>9 DEF FingersCancelled, PointerEvent
  <1> QED
    BY <1>1, <1>2, <1>3, <1>4, <1>5, <1>6, <1>7, <1>8, <1>9 DEF AppNext

\* The app drives the lifecycle half as ActivityFrames says.
THEOREM AppImplementsFrames == AppSpec => Spec
  <1>1. AppInit => Init
    BY DEF AppInit
  <1> QED
    BY <1>1, StepIsFrames, PTL DEF AppSpec, Spec

\* One posted frame callback per resumed Activity, in the whole app.
THEOREM AppTicksOnce == AppSpec => []OneTickPerFrame
  BY AppImplementsFrames, NeitherDoubledNorFrozen, PTL

\* Hosts, Bundles and the native side follow the Activities, in the whole app.
THEOREM AppFollows == AppSpec => []FollowsAlone
  BY AppImplementsFrames, FollowsWhenAlone, PTL

-----------------------------------------------------------------------------
\* The native half.

\* The follower is up exactly when on_started() has run.
UpWhenStarted == (up => bound) /\ (bound => (up <=> starts = 1))

\* Before that there are no windows, so nothing is touched.
UntouchedBefore == bound /\ ~up => dragged = None /\ changes = {} /\ seen = 0 /\ touchCount = 0

\* on_started() runs at most once, and never unbound.
LEMMA StartsFromZero ==
    ASSUME IInv, IInv', NEW a \in Activities, ActivityCallback(a)
    PROVE  bound' = bound /\ (starts' # starts => bound /\ starts = 0 /\ starts' = 1)
  <1>1. bound' = bound
    BY DEF ActivityCallback, OnActivityCreated, OnActivityStarted, OnActivityResumed,
       OnActivityPaused, OnActivityStopped, OnActivityDestroyed,
       OnActivitySaveInstanceState, Advance
  <1>2. nativeStarted => nativeStarted'
    BY DEF ActivityCallback, OnActivityCreated, OnActivityStarted, OnActivityResumed,
       OnActivityPaused, OnActivityStopped, OnActivityDestroyed,
       OnActivitySaveInstanceState, StartNative
  <1> QED
    BY <1>1, <1>2 DEF IInv, StartedOnce

\* An attached window means that an Activity was created, and the native side
\* started if it is bound.
LEMMA AttachedMeansStarted ==
    ASSUME IInv, UpWhenStarted, Attached # {}, bound PROVE up
  <1>1. nativeStarted
    BY DEF IInv, StartedFirst, Attached
  <1> QED
    BY <1>1 DEF IInv, StartedOnce, UpWhenStarted

-----------------------------------------------------------------------------
\* Touches.  Each one is counted when the loop has visited it, and the last that
\* was put or dragged aims the dot.
UiOK ==
    /\ touchCount \in Nat /\ shownTouches \in Nat /\ seen \in Nat
    /\ task \in Tasks /\ changes \subseteq Changes /\ IsFiniteSet(changes)
    /\ dragged \in Places /\ fingers \in [Fingers -> Places]
Counted == bound => touchCount + Cardinality(Felt(changes)) = seen
Rested == task # "pointer" => changes = {} /\ (bound => shownTouches = touchCount)
TouchIsDrag == up => touch = dragged

AppIInv == UpWhenStarted /\ UntouchedBefore /\ UiOK /\ Counted /\ Rested /\ TouchIsDrag

\* What the native half keeps in every call but those that start, touch or kill it.
Quiet == UNCHANGED <<up, touch>>

LEMMA FeltNothing == Felt({}) = {} /\ Cardinality(Felt({})) = 0
  BY FS_EmptySet DEF Felt

LEMMA InitApp == AppInit => AppIInv
  <1> SUFFICES ASSUME AppInit PROVE AppIInv
    OBVIOUS
  <1>1. up = FALSE /\ starts = 0 /\ dragged = None /\ touch = None
    BY DEF AppInit, Init, Dot!Init
  <1>2. UiOK
    BY FS_EmptySet DEF AppInit, UiOK, Tasks, Places, NoFingers
  <1>3. Counted /\ Rested /\ UntouchedBefore
    BY FeltNothing DEF AppInit, Counted, Rested, UntouchedBefore
  <1> QED
    BY <1>1, <1>2, <1>3 DEF AppIInv, UpWhenStarted, TouchIsDrag

LEMMA LifecycleApp ==
    ASSUME AppIInv, IInv, IInv', NEW a \in Activities, Lifecycle(a) PROVE AppIInv'
  <1>1. UNCHANGED <<touchCount, task, changes, shownTouches, dragged, seen>>
        /\ fingers' \in {NoFingers, fingers}
    BY DEF Lifecycle
  <1>2. bound' = bound /\ (starts' # starts => bound /\ starts = 0 /\ starts' = 1)
    BY StartsFromZero DEF Lifecycle
  <1>3. UiOK' /\ Counted' /\ Rested'
    BY <1>1, <1>2 DEF AppIInv, UiOK, Counted, Rested, NoFingers, Places
  <1>4. CASE starts' # starts
    <2>1. up' = TRUE /\ touch' = None
      BY <1>4 DEF Lifecycle, Dot!Started
    <2>2. dragged = None
      BY <1>2, <1>4 DEF AppIInv, UpWhenStarted, UntouchedBefore
    <2> QED
      BY <1>1, <1>2, <1>3, <1>4, <2>1, <2>2
         DEF AppIInv, UpWhenStarted, UntouchedBefore, TouchIsDrag
  <1>5. CASE starts' = starts
    <2>1. up' = up /\ touch' = touch
      BY <1>5 DEF Lifecycle, dotVars
    <2> QED
      BY <1>1, <1>2, <1>3, <1>5, <2>1
         DEF AppIInv, UpWhenStarted, UntouchedBefore, TouchIsDrag
  <1> QED
    BY <1>4, <1>5

\* A step that starts no native side and touches nothing.
LEMMA QuietApp ==
    ASSUME AppIInv, Quiet, UNCHANGED <<starts, bound>>, UiOK', Rested',
           UNCHANGED <<touchCount, changes, dragged, seen>>
    PROVE  AppIInv'
  BY DEF AppIInv, Quiet, UpWhenStarted, UntouchedBefore, TouchIsDrag, Counted

LEMMA FrameApp == ASSUME AppIInv, Frame PROVE AppIInv'
  <1>1. Quiet /\ UNCHANGED <<starts, bound>>
    BY DEF Frame, DoFrame, nativeVars, Native, Dot!Tick, dotVars, Quiet
  <1>2. UNCHANGED <<touchCount, changes, shownTouches, fingers, dragged, seen>>
        /\ task = "idle" /\ task' \in {"idle", "frame"}
    BY DEF Frame
  <1> QED
    BY <1>1, <1>2, QuietApp DEF AppIInv, UiOK, Rested, Tasks

LEMMA FrameRestApp == ASSUME AppIInv, FrameSnapshot \/ FrameShown PROVE AppIInv'
  <1>1. Quiet /\ UNCHANGED <<starts, bound>>
    BY DEF FrameSnapshot, FrameShown, Dot!Snapshot, dotVars, vars, nativeVars, Quiet
  <1>2. UNCHANGED <<touchCount, changes, shownTouches, fingers, dragged, seen>>
        /\ task \in {"frame", "saved"} /\ task' \in {"idle", "saved"}
    BY DEF FrameSnapshot, FrameShown
  <1> QED
    BY <1>1, <1>2, QuietApp DEF AppIInv, UiOK, Rested, Tasks

LEMMA ResizeApp == ASSUME AppIInv, NEW c \in Centres, WindowResized(c) PROVE AppIInv'
  <1>1. Quiet /\ UNCHANGED <<starts, bound>>
    BY DEF WindowResized, Native, Dot!OnWindowResized, dotVars, vars, nativeVars, Quiet
  <1>2. UNCHANGED uiVars
    BY DEF WindowResized
  <1> QED
    BY <1>1, <1>2, QuietApp DEF AppIInv, UiOK, Rested, uiVars

LEMMA TouchesShownApp == ASSUME AppIInv, TouchesShown PROVE AppIInv'
  <1>1. Quiet /\ UNCHANGED <<starts, bound>>
    BY DEF TouchesShown, dotVars, vars, nativeVars, Quiet
  <1>2. UNCHANGED <<touchCount, changes, fingers, dragged, seen>> /\ changes = {}
        /\ task' = "idle" /\ shownTouches' = IF bound THEN touchCount ELSE shownTouches
    BY DEF TouchesShown
  <1> QED
    BY <1>1, <1>2, QuietApp DEF AppIInv, UiOK, Rested, Tasks

LEMMA KillApp == ASSUME AppIInv, Kill PROVE AppIInv'
  <1>1. ~up' /\ starts' = 0
    BY DEF Kill, ProcessKilled, Dot!Kill, dotVars
  <1>2. UiOK'
    BY FS_EmptySet DEF Kill, UiOK, Tasks, Places, NoFingers
  <1>3. Counted' /\ Rested' /\ UntouchedBefore'
    BY FeltNothing DEF Kill, Counted, Rested, UntouchedBefore
  <1> QED
    BY <1>1, <1>2, <1>3 DEF AppIInv, UpWhenStarted, TouchIsDrag

\* Compose hands over an event: what it will count is owed until it is visited.
LEMMA EventApp ==
    ASSUME AppIInv, IInv, NEW event \in SUBSET Changes, IsFiniteSet(event),
           PointerEvent(event), fingers' \in [Fingers -> Places]
    PROVE  AppIInv'
  <1>1. Quiet /\ UNCHANGED <<starts, bound>>
    BY DEF PointerEvent, dotVars, vars, nativeVars, Quiet
  <1>2. /\ task = "idle" /\ task' = "pointer" /\ changes = {} /\ changes' = event
        /\ seen' = seen + Cardinality(Felt(event))
        /\ UNCHANGED <<touchCount, shownTouches, dragged>>
    BY DEF PointerEvent, AppIInv, Rested
  <1>3. IsFiniteSet(Felt(event)) /\ Cardinality(Felt(event)) \in Nat
    BY FS_Subset, FS_CardinalityType DEF Felt
  <1>4. UiOK'
    BY <1>2, <1>3 DEF AppIInv, UiOK, Tasks
  <1>5. Counted'
    <2>1. bound => touchCount = seen
      BY <1>2, FeltNothing DEF AppIInv, Counted, UiOK
    <2> QED
      BY <1>1, <1>2, <2>1 DEF Counted
  <1>6. Rested'
    BY <1>2 DEF Rested
  <1>7. bound => up
    BY AttachedMeansStarted DEF PointerEvent, AppIInv
  <1> QED
    BY <1>1, <1>2, <1>4, <1>5, <1>6, <1>7
       DEF AppIInv, Quiet, UpWhenStarted, UntouchedBefore, TouchIsDrag

LEMMA ChangeTyped ==
    ASSUME UiOK, NEW f \in Fingers, NEW p \in Touches, NEW pressed \in BOOLEAN
    PROVE  Change(f, p, pressed) \in Changes
  BY DEF UiOK, Change, Changes

LEMMA DownApp ==
    ASSUME AppIInv, IInv, NEW f \in Fingers, NEW p \in Touches,
           FingerDown(f, p) \/ FingerUp(f, p)
    PROVE  AppIInv'
  <1>1. fingers' \in [Fingers -> Places]
    BY DEF FingerDown, FingerUp, AppIInv, UiOK, Places
  <1>2. PICK b \in BOOLEAN : PointerEvent({Change(f, p, b)})
    BY DEF FingerDown, FingerUp
  <1>3. {Change(f, p, b)} \in SUBSET Changes /\ IsFiniteSet({Change(f, p, b)})
    <2>1. Change(f, p, b) \in Changes
      BY ChangeTyped DEF AppIInv
    <2>2. IsFiniteSet({Change(f, p, b)})
      BY FS_Singleton, Zenon
    <2> QED
      BY <2>1, <2>2
  <1> QED
    BY <1>1, <1>2, <1>3, EventApp

LEMMA MovedApp ==
    ASSUME AppIInv, IInv, NEW to \in [Fingers -> Touches], FingersMoved(to) PROVE AppIInv'
  <1> DEFINE event == {Change(f, to[f], TRUE) : f \in Down}
  <1>1. fingers' \in [Fingers -> Places]
    BY DEF FingersMoved, Places
  <1>2. event \in SUBSET Changes
    BY ChangeTyped DEF AppIInv, Down
  <1>3. IsFiniteSet(event)
    <2> DEFINE g == [f \in Down |-> Change(f, to[f], TRUE)]
    <2>1. IsFiniteSet(Down)
      BY FS_Subset, AppAssumption DEF Down
    <2>2. g \in Surjection(Down, event)
      BY DEF Surjection
    <2> HIDE DEF g, event
    <2> QED
      BY <2>1, <2>2, FS_Surjection
  <1> QED
    BY <1>1, <1>2, <1>3, EventApp DEF FingersMoved

LEMMA CancelledApp == ASSUME AppIInv, IInv, FingersCancelled PROVE AppIInv'
  <1>1. fingers' \in [Fingers -> Places]
    BY DEF FingersCancelled, NoFingers, Places
  <1> QED
    BY <1>1, EventApp, FS_EmptySet DEF FingersCancelled

-----------------------------------------------------------------------------
\* The loop visits a change: one touch less is owed if it is one, and a finger
\* that is put or dragged aims the dot.
LEMMA VisitApp ==
    ASSUME AppIInv, NEW change \in changes, VisitChange(change) PROVE AppIInv'
  <1>1. /\ task = "pointer" /\ task' = task /\ changes' = changes \ {change}
        /\ UNCHANGED <<starts, bound, shownTouches, fingers, seen>>
        /\ dragged' = IF change.pressed /\ change.from # change.at THEN change.at ELSE dragged
    BY DEF VisitChange, vars, nativeVars
  <1>2. change \in Changes /\ change.at \in Touches /\ change.at # None
    <2>1. change \in Changes
      BY DEF AppIInv, UiOK
    <2>2. Touches \subseteq Int /\ None \notin Int
      BY AppAssumption DEF Dot!FollowerAssumption
    <2> QED
      BY <2>1, <2>2 DEF Changes
  <1>3. IsFiniteSet(changes') /\ changes' \subseteq Changes /\ dragged' \in Places
    BY <1>1, <1>2, FS_Subset DEF AppIInv, UiOK, Places
  <1>4. Rested'
    BY <1>1 DEF Rested
  <1>5. CASE ~bound
    <2>1. UNCHANGED <<touchCount, up, touch>> /\ ~up
      BY <1>5 DEF VisitChange, dotVars, AppIInv, UpWhenStarted
    <2> QED
      BY <1>1, <1>3, <1>4, <1>5, <2>1
         DEF AppIInv, UiOK, UpWhenStarted, UntouchedBefore, TouchIsDrag, Counted
  <1>6. CASE bound
    <2>1. up /\ DispatchTouch(change)
      BY <1>6 DEF VisitChange, AppIInv, UntouchedBefore
    <2>2. up' = up
      BY <2>1 DEF DispatchTouch, Native, Dot!AimFollowerAt, dotVars
    <2>3. IsFiniteSet(Felt(changes))
      BY FS_Subset DEF AppIInv, UiOK, Felt
    <2>4. CASE change \in Felt(changes)
      <3>1. touchCount' = touchCount + 1
        BY <2>1, <2>4 DEF DispatchTouch, CountTouch, Felt, ChangedToDown, PositionChanged
      <3>2. Felt(changes') = Felt(changes) \ {change}
        BY <1>1 DEF Felt
      <3>3. Cardinality(Felt(changes')) = Cardinality(Felt(changes)) - 1
        BY <2>3, <2>4, <3>2, FS_RemoveElement
      <3>4. Cardinality(Felt(changes)) \in Nat
        BY <2>3, FS_CardinalityType
      <3> QED
        <4>1. touchCount' + Cardinality(Felt(changes')) = seen' /\ touchCount' \in Nat
          BY <1>1, <1>6, <3>1, <3>3, <3>4 DEF AppIInv, Counted, UiOK
        <4>2. UiOK' /\ Counted'
          BY <1>1, <1>3, <4>1 DEF AppIInv, UiOK, Counted
        <4>3. TouchIsDrag'
          BY <1>1, <1>2, <2>1, <2>2 DEF AppIInv, TouchIsDrag, DispatchTouch, Native,
             Dot!AimFollowerAt, dotVars, ChangedToDown, ChangedToUp, PositionChanged
        <4> QED
          BY <1>1, <1>4, <2>1, <2>2, <4>2, <4>3 DEF AppIInv, UpWhenStarted, UntouchedBefore
    <2>5. CASE change \notin Felt(changes)
      <3>1. change.pressed /\ change.from = change.at
        BY <2>5 DEF Felt
      <3>2. UNCHANGED <<touchCount, touch>>
        BY <1>2, <2>1, <3>1 DEF DispatchTouch, dotVars, ChangedToDown, ChangedToUp,
           PositionChanged
      <3>3. Felt(changes') = Felt(changes)
        BY <1>1, <2>5 DEF Felt
      <3>4. UiOK' /\ Counted' /\ TouchIsDrag'
        BY <1>1, <1>3, <2>2, <3>1, <3>2, <3>3 DEF AppIInv, UiOK, Counted, TouchIsDrag
      <3> QED
        BY <1>1, <1>4, <2>1, <2>2, <3>4 DEF AppIInv, UpWhenStarted, UntouchedBefore
    <2> QED
      BY <2>4, <2>5
  <1> QED
    BY <1>5, <1>6

LEMMA NextApp == AppIInv /\ IInv /\ IInv' /\ [AppNext]_appVars => AppIInv'
  <1>1. ASSUME AppIInv, UNCHANGED appVars PROVE AppIInv'
    <2>1. Quiet /\ UNCHANGED <<starts, bound>> /\ UNCHANGED uiVars
      BY <1>1 DEF appVars, vars, nativeVars, dotVars, Quiet
    <2> QED
      BY <1>1, <2>1, QuietApp DEF AppIInv, UiOK, Rested, uiVars
  <1>2. ASSUME AppIInv, Continue PROVE AppIInv'
    BY <1>2, FrameRestApp, TouchesShownApp, VisitApp DEF Continue
  <1> QED
    BY <1>1, <1>2, LifecycleApp, FrameApp, ResizeApp, KillApp, DownApp, MovedApp,
       CancelledApp DEF AppNext

\* The inductive invariant of the composition, on top of that of the frames.
THEOREM AppInductive == AppSpec => []AppIInv
  <1>1. AppSpec => []IInv
    BY AppImplementsFrames, FramesInductive, PTL
  <1> QED
    BY <1>1, InitApp, NextApp, PTL DEF AppSpec

-----------------------------------------------------------------------------
\* Every step of the app is a step of the follower, or none.
LEMMA StepIsDot == AppIInv /\ IInv /\ IInv' /\ [AppNext]_appVars => [Dot!Next]_dotVars
  <1> SUFFICES ASSUME AppIInv, IInv, IInv', [AppNext]_appVars PROVE [Dot!Next]_dotVars
    OBVIOUS
  <1>1. CASE UNCHANGED appVars
    BY <1>1 DEF appVars
  <1>2. CASE Frame
    BY <1>2 DEF Frame, Native, Dot!Next
  <1>3. CASE FrameSnapshot \/ FrameShown \/ TouchesShown
    BY <1>3 DEF FrameSnapshot, FrameShown, TouchesShown, Dot!Next
  <1>4. CASE \E c \in changes : VisitChange(c)
    <2>1. PICK c \in changes : VisitChange(c)
      BY <1>4
    <2>2. c.at \in Touches
      BY DEF AppIInv, UiOK, Changes
    <2> QED
      BY <2>1, <2>2 DEF VisitChange, DispatchTouch, Native, Dot!Next
  <1>5. CASE Kill
    BY <1>5 DEF Kill, Dot!Next
  <1>6. CASE \E a \in Activities : Lifecycle(a)
    <2>1. PICK a \in Activities : Lifecycle(a)
      BY <1>6
    <2>2. starts' # starts => ~up
      BY <2>1, StartsFromZero DEF Lifecycle, AppIInv, UpWhenStarted
    <2> QED
      BY <2>1, <2>2 DEF Lifecycle, Dot!OnStarted, Dot!Next
  <1>7. CASE \E c \in Centres : WindowResized(c)
    BY <1>7 DEF WindowResized, Native, Dot!Next
  <1>8. CASE \/ \E f \in Fingers, p \in Touches : FingerDown(f, p) \/ FingerUp(f, p)
             \/ \E to \in [Fingers -> Touches] : FingersMoved(to)
             \/ FingersCancelled
    BY <1>8 DEF FingerDown, FingerUp, FingersMoved, FingersCancelled, PointerEvent
  <1> QED
    BY <1>1, <1>2, <1>3, <1>4, <1>5, <1>6, <1>7, <1>8 DEF AppNext, Continue

\* The native half of the app is the follower: started once per process, before
\* any frame or touch, and then only aimed, moved and saved.
THEOREM AppImplementsFollower == AppSpec => DotSpec
  <1>1. AppInit => Dot!Init
    BY DEF AppInit
  <1>2. AppSpec => []IInv
    BY AppImplementsFrames, FramesInductive, PTL
  <1>3. [Dot!Next]_dotVars => [Dot!Next]_Dot!vars
    BY DEF dotVars, Dot!vars
  <1> QED
    BY <1>1, <1>2, <1>3, AppInductive, StepIsDot, PTL DEF AppSpec, DotSpec, Dot!Spec

\* The proofs of Follower, in the names of this module.
LEMMA DotInvariants == Dot!Spec => [](Dot!TypeOK /\ Dot!Aimed /\ Dot!RestoredStaysOnCourse)
  <1>1. Dot!FollowerAssumption
    BY AppAssumption
  <1>2. DotFacts!Spec => []DotFacts!TypeOK
    BY <1>1, DotFacts!FollowerTyped
  <1>3. DotFacts!Spec => []DotFacts!Aimed
    BY <1>1, DotFacts!AimIsRight
  <1>4. DotFacts!Spec => []DotFacts!RestoredStaysOnCourse
    BY <1>1, DotFacts!CourseIsKept
  <1>5. Dot!Init => DotFacts!Init
    BY DEF Dot!Init, DotFacts!Init, Dot!Origin, DotFacts!Origin
  <1>6. [Dot!Next]_Dot!vars => [DotFacts!Next]_DotFacts!vars
    BY DEF Dot!vars, DotFacts!vars, Dot!Next, DotFacts!Next,
       Dot!OnStarted, DotFacts!OnStarted, Dot!Started, DotFacts!Started,
       Dot!FindFollower, DotFacts!FindFollower, Dot!Origin, DotFacts!Origin,
       Dot!Tick, DotFacts!Tick, Dot!Approach, DotFacts!Approach,
       Dot!Between, DotFacts!Between, Dot!Pixels, DotFacts!Pixels,
       Dot!Snapshot, DotFacts!Snapshot, Dot!Kill, DotFacts!Kill,
       Dot!OnWindowResized, DotFacts!OnWindowResized,
       Dot!AimFollowerAt, DotFacts!AimFollowerAt
  <1>7. DotFacts!TypeOK /\ DotFacts!Aimed => Dot!TypeOK /\ Dot!Aimed
    BY DEF Dot!TypeOK, DotFacts!TypeOK, Dot!Aimed, DotFacts!Aimed, Dot!Origin,
       DotFacts!Origin, Dot!Pixels, DotFacts!Pixels, Dot!Snapshots, DotFacts!Snapshots
  <1>8. DotFacts!RestoredStaysOnCourse => Dot!RestoredStaysOnCourse
    BY DEF Dot!RestoredStaysOnCourse, DotFacts!RestoredStaysOnCourse,
       Dot!Between, DotFacts!Between, Dot!Pixels, DotFacts!Pixels
  <1> QED
    BY <1>2, <1>3, <1>4, <1>5, <1>6, <1>7, <1>8, PTL DEF Dot!Spec, DotFacts!Spec

\* Every touch, and nothing else, is counted and aims the dot, for any number of
\* fingers, Activities and windows.
THEOREM EveryTouchTakesEffect == AppSpec => []TouchesTakeEffect
  <1>1. ASSUME AppIInv, Dot!Aimed PROVE TouchesTakeEffect
    <2> SUFFICES ASSUME task = "idle" PROVE
                   /\ bound => shownTouches = seen
                   /\ up => target = IF dragged # None THEN dragged
                                     ELSE IF restored # None THEN restored.target
                                     ELSE IF window # None THEN window ELSE Dot!Origin
      BY DEF TouchesTakeEffect
    <2>1. changes = {} /\ (bound => shownTouches = touchCount)
      BY <1>1 DEF AppIInv, Rested
    <2>2. bound => touchCount = seen
      BY <1>1, <2>1, FeltNothing DEF AppIInv, Counted, UiOK
    <2> QED
      BY <1>1, <2>1, <2>2 DEF AppIInv, TouchIsDrag, Dot!Aimed
  <1>2. AppSpec => []Dot!Aimed
    BY AppImplementsFollower, DotInvariants, PTL DEF DotSpec
  <1> QED
    BY <1>1, <1>2, AppInductive, PTL

ShownOK == shown \in Dot!Pixels

\* Types of the whole app; the queries show a pixel.
THEOREM AppTyped == AppSpec => []AppTypeOK
  <1>1. AppInit => ShownOK
    BY AppAssumption DEF ShownOK, AppInit, Dot!Origin, Dot!Pixels, Dot!FollowerAssumption
  <1>2. ShownOK /\ Dot!TypeOK /\ [AppNext]_appVars => ShownOK'
    <2> SUFFICES ASSUME ShownOK, Dot!TypeOK, [AppNext]_appVars PROVE ShownOK'
      OBVIOUS
    <2>1. FrameShown \/ Kill \/ shown' = shown
      BY DEF appVars, uiVars, AppNext, Frame, Continue, FrameSnapshot, TouchesShown,
         VisitChange, Lifecycle, WindowResized, FingerDown, FingerUp,
         FingersMoved, FingersCancelled, PointerEvent
    <2>3. shown' \in {shown, position, Dot!Origin}
      BY <2>1 DEF FrameShown, Kill
    <2>2. Dot!Origin \in Dot!Pixels
      BY AppAssumption DEF Dot!Origin, Dot!Pixels, Dot!FollowerAssumption
    <2> QED
      BY <2>2, <2>3 DEF Dot!TypeOK, ShownOK, Dot!Pixels
  <1>3. AppSpec => []Dot!TypeOK
    BY AppImplementsFollower, DotInvariants, PTL DEF DotSpec
  <1>4. AppSpec => []TypeOK
    BY AppImplementsFrames, FramesTyped, PTL
  <1>5. TypeOK /\ Dot!TypeOK /\ AppIInv /\ ShownOK => AppTypeOK
    BY DEF ShownOK, AppTypeOK, AppIInv, UiOK
  <1> QED
    BY <1>1, <1>2, <1>3, <1>4, <1>5, AppInductive, PTL DEF AppSpec

\* An untouched dot keeps the course that the last process saved.
THEOREM DotKeepsCourse == AppSpec => []DotStaysOnCourse
  BY AppImplementsFollower, DotInvariants, PTL DEF DotSpec, DotStaysOnCourse
=============================================================================
