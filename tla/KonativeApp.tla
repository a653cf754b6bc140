---------------------------- MODULE KonativeApp ----------------------------
(***************************************************************************)
(* The app as the user meets it: Activity callbacks, frames, resizes and   *)
(* pointer events reach the Kotlin side on the main thread, which calls    *)
(* the native methods and then asks them what to show.  ActivityFrames is  *)
(* the lifecycle half, Follower the native half; this module is the        *)
(* KonativeRootComposable and the calls between them.                      *)
(*                                                                         *)
(* The main thread runs one task to its end before the next: a frame is a  *)
(* tick, perhaps a snapshot, and the queries; a pointer event is a loop    *)
(* over its changes and one query.  The process may be killed in between.  *)
(***************************************************************************)
EXTENDS ActivityFrames, Integers, FiniteSets

CONSTANTS
    Width, Touches, Centres, None,      \* see Follower
    Fingers,        \* pointer ids
    MaxTouches      \* (bound) changes of fingers in one process

VARIABLES
    up, position, target, hasUserTarget, window, touch, restored, saved,  \* see Follower
    touchCount,     \* touch_event_count_
    task,           \* what the main thread is doing
    changes,        \* changes of the PointerEvent the loop has still to visit
    shown,          \* followerXDisplay, followerYDisplay
    shownTouches,   \* touchCountDisplay
    fingers,        \* (user) where each finger touches the screen
    dragged,        \* (history) where a finger last was put or dragged to
    seen            \* (history) fingers put, dragged and lifted in this process

Dot == INSTANCE Follower

ASSUME AppAssumption ==
    Dot!FollowerAssumption /\ IsFiniteSet(Fingers) /\ MaxTouches \in Nat

dotVars == <<up, position, target, hasUserTarget, window, touch, restored, saved>>
uiVars == <<touchCount, task, changes, shown, shownTouches, fingers, dragged, seen>>
appVars == <<vars, dotVars, uiVars>>

Places == Touches \cup {None}
Tasks == {"idle", "frame", "saved", "pointer"}
Changes == [finger : Fingers, from : Places, at : Touches, pressed : BOOLEAN]

AppTypeOK ==
    /\ TypeOK /\ Dot!TypeOK
    /\ touchCount \in Nat /\ shownTouches \in Nat /\ seen \in Nat
    /\ task \in Tasks /\ changes \subseteq Changes
    /\ shown \in Dot!Pixels /\ dragged \in Places
    /\ fingers \in [Fingers -> Places]

NoFingers == [f \in Fingers |-> None]

AppInit ==
    /\ Init /\ Dot!Init
    /\ touchCount = 0 /\ task = "idle" /\ changes = {}
    /\ shown = Dot!Origin /\ shownTouches = 0
    /\ fingers = NoFingers /\ dragged = None /\ seen = 0

-----------------------------------------------------------------------------
\* The Activities whose Compose content is attached to a window and not disposed
\* of: input and layout reach no other.
Attached == {a \in Activities : /\ stage[a] \in {"resumed", "paused"}
                                /\ host[a] \notin {"INITIALIZED", "DESTROYED"}}

\* A lifecycle callback, with all of on_started() when it is dispatched STARTED.
\* A window that goes takes the fingers on it along.
Lifecycle(a) ==
    /\ task = "idle"
    /\ ActivityCallback(a)
    /\ IF starts' # starts THEN Dot!Started ELSE UNCHANGED dotVars
    /\ fingers' = IF Attached' = {} THEN NoFingers ELSE fingers
    /\ UNCHANGED <<touchCount, task, changes, shown, shownTouches, dragged, seen>>

\* Before on_started() has run, the World has no systems and the Dispatcher no
\* sinks: a call finds nobody.
Native(Effect) == IF up THEN Effect ELSE UNCHANGED dotVars

\* doFrame() up to and including nativeTick().
Frame ==
    /\ task = "idle"
    /\ DoFrame
    /\ IF active THEN task' = "frame" /\ Native(Dot!Tick)
                 ELSE UNCHANGED <<task, dotVars>>
    /\ UNCHANGED <<touchCount, changes, shown, shownTouches, fingers, dragged, seen>>

\* on_tick() takes a snapshot in some frames.
FrameSnapshot ==
    /\ task = "frame" /\ up
    /\ task' = "saved"
    /\ Dot!Snapshot
    /\ UNCHANGED <<vars, touchCount, changes, shown, shownTouches, fingers, dragged, seen>>

\* The queries that end doFrame(); unbound, each returns what is shown already.
FrameShown ==
    /\ task \in {"frame", "saved"}
    /\ task' = "idle"
    /\ shown' = IF bound THEN position ELSE shown
    /\ UNCHANGED <<vars, dotVars, touchCount, changes, shownTouches, fingers, dragged, seen>>

WindowResized(centre) ==
    /\ task = "idle" /\ Attached # {}
    /\ Native(Dot!OnWindowResized(centre))
    /\ UNCHANGED <<vars, uiVars>>

-----------------------------------------------------------------------------
\* What Compose hands to awaitPointerEvent().

Down == {f \in Fingers : fingers[f] # None}

\* The changes of an event that are a touch: a finger put, dragged or lifted.
Felt(event) == {c \in event : c.from # c.at \/ ~c.pressed}

PointerEvent(event) ==
    /\ task = "idle" /\ Attached # {}
    /\ task' = "pointer" /\ changes' = event
    /\ seen' = seen + Cardinality(Felt(event))
    /\ seen' <= MaxTouches
    /\ UNCHANGED <<vars, dotVars, touchCount, shown, shownTouches, dragged>>

Change(f, p, pressed) == [finger |-> f, from |-> fingers[f], at |-> p, pressed |-> pressed]

FingerDown(f, p) ==
    /\ f \notin Down
    /\ fingers' = [fingers EXCEPT ![f] = p]
    /\ PointerEvent({Change(f, p, TRUE)})

\* A finger may be lifted away from where its last event had it.
FingerUp(f, p) ==
    /\ f \in Down
    /\ fingers' = [fingers EXCEPT ![f] = None]
    /\ PointerEvent({Change(f, p, FALSE)})

\* One event tells of every finger on the screen, also of one that rests.
FingersMoved(to) ==
    /\ fingers' = [f \in Fingers |-> IF f \in Down THEN to[f] ELSE None]
    /\ fingers' # fingers
    /\ PointerEvent({Change(f, to[f], TRUE) : f \in Down})

\* The system takes the gesture: every change of that event is consumed already.
FingersCancelled ==
    /\ Down # {}
    /\ fingers' = NoFingers
    /\ PointerEvent({})

-----------------------------------------------------------------------------
\* The body of the pointer loop.

ChangedToDown(change) == change.from = None /\ change.pressed
ChangedToUp(change) == change.from # None /\ ~change.pressed
PositionChanged(change) == change.from # None /\ change.from # change.at

CountTouch == touchCount' = IF up THEN touchCount + 1 ELSE touchCount

\* Variant with a bug: a finger that is lifted elsewhere counts as a move.
DispatchMoveFirst(change) ==
    \/ /\ ChangedToDown(change) \/ PositionChanged(change)
       /\ CountTouch /\ Native(Dot!AimFollowerAt(change.at))
    \/ /\ ChangedToUp(change) /\ ~PositionChanged(change)
       /\ CountTouch /\ UNCHANGED dotVars
    \/ /\ ~ChangedToDown(change) /\ ~ChangedToUp(change) /\ ~PositionChanged(change)
       /\ UNCHANGED <<touchCount, dotVars>>

\* on_touch_down() and on_touch_move() count and aim, on_touch_up() counts.
DispatchTouch(change) ==
    \/ /\ ChangedToDown(change) \/ (PositionChanged(change) /\ change.pressed)
       /\ CountTouch /\ Native(Dot!AimFollowerAt(change.at))
    \/ /\ ChangedToUp(change)
       /\ CountTouch /\ UNCHANGED dotVars
    \/ /\ change.pressed /\ ~ChangedToDown(change) /\ ~PositionChanged(change)
       /\ UNCHANGED <<touchCount, dotVars>>

VisitChange(change) ==
    /\ task = "pointer" /\ change \in changes
    /\ changes' = changes \ {change}
    /\ IF bound THEN DispatchTouch(change) ELSE UNCHANGED <<touchCount, dotVars>>
    /\ dragged' = IF change.pressed /\ change.from # change.at THEN change.at ELSE dragged
    /\ UNCHANGED <<vars, task, shown, shownTouches, fingers, seen>>

TouchesShown ==
    /\ task = "pointer" /\ changes = {}
    /\ task' = "idle"
    /\ shownTouches' = IF bound THEN touchCount ELSE shownTouches
    /\ UNCHANGED <<vars, dotVars, touchCount, changes, shown, fingers, dragged, seen>>

-----------------------------------------------------------------------------
\* Whatever the main thread was doing.
Kill ==
    /\ ProcessKilled
    /\ IF up THEN Dot!Kill ELSE UNCHANGED dotVars
    /\ touchCount' = 0 /\ task' = "idle" /\ changes' = {}
    /\ shown' = Dot!Origin /\ shownTouches' = 0
    /\ fingers' = NoFingers /\ dragged' = None /\ seen' = 0

\* The rest of the task the main thread is in.
Continue == FrameSnapshot \/ FrameShown \/ TouchesShown \/ \E c \in changes : VisitChange(c)

AppNext ==
    \/ Frame \/ Continue \/ Kill
    \/ \E a \in Activities : Lifecycle(a)
    \/ \E c \in Centres : WindowResized(c)
    \/ \E f \in Fingers, p \in Touches : FingerDown(f, p) \/ FingerUp(f, p)
    \/ \E to \in [Fingers -> Touches] : FingersMoved(to)
    \/ FingersCancelled

\* A task ends, and between tasks the posted frame gets its turn, at each vsync,
\* however much input there is; a frame that lasts moves the dot.
MainThreadFairness ==
    /\ WF_appVars(FrameShown \/ TouchesShown \/ \E c \in changes : VisitChange(c))
    /\ SF_appVars(Frame /\ active /\ (up /\ position # target => position' # position))

AppSpec == AppInit /\ [][AppNext]_appVars /\ MainThreadFairness

-----------------------------------------------------------------------------
\* Whatever the Activities, the window and the fingers do, the native side sees a
\* follower that is started once per process and then only aimed, moved and
\* saved: on_started() runs before the first frame and touch, and no rotation
\* runs it again and throws the dot back.
DotSpec == Dot!Spec

\* Between two tasks every touch has had its effect and no other: the count on
\* the screen is that of the fingers put down, dragged and lifted, and the dot is
\* aimed where a finger was last put or dragged to, not where it was lifted; else
\* where it was aimed when it was saved, else at the centre of the window
\* (KonativeEntryPoint.kt:565-581, jni_onload.cpp:1002-1033).
TouchesTakeEffect ==
    task = "idle" =>
        /\ bound => shownTouches = seen
        /\ up => target = IF dragged # None THEN dragged
                          ELSE IF restored # None THEN restored.target
                          ELSE IF window # None THEN window ELSE Dot!Origin

\* Over a kill and a restart the dot keeps its course until it is touched (see
\* Follower), through any rotations, resizes and frames of the new process.
DotStaysOnCourse == Dot!RestoredStaysOnCourse

\* The user sees the dot arrive at the finger, while the app stays in the
\* foreground and the finger is not dragged elsewhere first.
DotFollowsFinger ==
    \A p \in Touches :
        up /\ dragged = p ~> shown = p \/ dragged # p \/ Resumed = {} \/ ~up
=============================================================================
