------------------------------- MODULE Follower -------------------------------
(***************************************************************************)
(* The follower dot: a touch or a resize aims it, every frame it glides    *)
(* towards its target, the periodic snapshot keeps both across processes.  *)
(* Touches and resizes arrive between frames and act at once (trigger()).  *)
(*                                                                         *)
(* The plane is abstracted to a line of pixels, a window to its centre,    *)
(* the snapshot to one step: one that does reach the state file, before    *)
(* the next one is taken.  SnapshotPersistence has those that do not.      *)
(* KonativeApp shows when each of these steps happens.                     *)
(***************************************************************************)
EXTENDS Integers

CONSTANTS
    Width,      \* the pixels are 0 .. Width
    Touches,    \* where the user touches
    Centres,    \* the centres of the windows there are
    None

ASSUME FollowerAssumption ==
    /\ Width \in Nat
    /\ Touches \subseteq 0 .. Width /\ Centres \subseteq 0 .. Width
    /\ None \notin Int

Pixels == 0 .. Width
Origin == 0

VARIABLES
    up,             \* the process runs and on_started() has returned
    position,       \* Transform::position of follower_entity_
    target,         \* PointerFollow::target
    hasUserTarget,  \* follower_has_user_target_
    window,         \* (history) the centre of the window last reported
    touch,          \* (history) the last touch of this process
    restored,       \* (history) the follower this process restored
    saved           \* the follower in the state file

vars == <<up, position, target, hasUserTarget, window, touch, restored, saved>>

Snapshots == [position : Pixels, target : Pixels]

TypeOK ==
    /\ up \in BOOLEAN /\ hasUserTarget \in BOOLEAN
    /\ position \in Pixels /\ target \in Pixels
    /\ window \in Centres \cup {None} /\ touch \in Touches \cup {None}
    /\ {restored, saved} \subseteq Snapshots \cup {None}

Init ==
    /\ up = FALSE /\ hasUserTarget = FALSE
    /\ position = Origin /\ target = Origin
    /\ window = None /\ touch = None /\ restored = None /\ saved = None

-----------------------------------------------------------------------------
\* Variant with a bug: a restored follower is not taken to be aimed.
FindFollowerUnaimed ==
    \/ /\ saved # None
       /\ position' = saved.position /\ target' = saved.target
       /\ hasUserTarget' = FALSE /\ restored' = saved
    \/ /\ position' = Origin /\ target' = Origin
       /\ hasUserTarget' = FALSE /\ restored' = None

\* Find-or-create.  A restored follower counts as aimed by the user.
FindFollower ==
    \/ /\ saved # None
       /\ position' = saved.position /\ target' = saved.target
       /\ hasUserTarget' = TRUE /\ restored' = saved
    \/ /\ position' = Origin /\ target' = Origin
       /\ hasUserTarget' = FALSE /\ restored' = None

\* on_started(); the state file may be missing or refused.
Started ==
    /\ up' = TRUE
    /\ FindFollower
    /\ window' = None /\ touch' = None
    /\ UNCHANGED saved

OnStarted == ~up /\ Started

OnWindowResized(centre) ==
    /\ up
    /\ window' = centre
    /\ target' = IF hasUserTarget THEN target ELSE centre
    /\ UNCHANGED <<up, position, hasUserTarget, touch, restored, saved>>

\* on_touch_down() and on_touch_move() aim; on_touch_up() only counts.
AimFollowerAt(p) ==
    /\ up
    /\ hasUserTarget' = TRUE /\ target' = p
    /\ touch' = p
    /\ UNCHANGED <<up, position, window, restored, saved>>

Between(p, q) == {r \in Pixels : (p <= r /\ r <= q) \/ (q <= r /\ r <= p)}

\* Variant with a bug: the glide swings as far beyond the target.
ApproachBeyond == position' \in Between(position, target) \cup {2 * target - position}

\* approach(): part of the way, or none of it in a frame of no duration, and
\* never beyond the target.
Approach == position' \in Between(position, target)

Tick ==
    /\ up
    /\ Approach
    /\ UNCHANGED <<up, target, hasUserTarget, window, touch, restored, saved>>

Snapshot ==
    /\ up
    /\ saved' = [position |-> position, target |-> target]
    /\ UNCHANGED <<up, position, target, hasUserTarget, window, touch, restored>>

Kill ==
    /\ up
    /\ up' = FALSE
    /\ UNCHANGED <<position, target, hasUserTarget, window, touch, restored, saved>>

Next ==
    \/ OnStarted \/ Tick \/ Snapshot \/ Kill
    \/ \E c \in Centres : OnWindowResized(c)
    \/ \E p \in Touches : AimFollowerAt(p)

Spec == Init /\ [][Next]_vars

-----------------------------------------------------------------------------
\* What aims the dot: the user's last touch, over any resize before or after
\* it; else, in a restored process, whatever it was aimed at when it was saved;
\* else the centre of the window as it is now (jni_onload.cpp:1002-1006).
Aimed ==
    up => target = IF touch # None THEN touch
                   ELSE IF restored # None THEN restored.target
                   ELSE IF window # None THEN window ELSE Origin

\* "A restored follower has a real, user-chosen position - treat its target as a
\* user target so the first WindowResizedEvent below doesn't yank it back to center"
\* (jni_onload.cpp:581-583): until the user touches it again, a restored dot is on its
\* way from where it was saved to where it was then aimed, whatever windows open and
\* however many frames go by.
RestoredStaysOnCourse ==
    up /\ restored # None /\ touch = None =>
        position \in Between(restored.position, restored.target)
=============================================================================
