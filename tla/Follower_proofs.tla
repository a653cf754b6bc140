--------------------------- MODULE Follower_proofs ---------------------------
(***************************************************************************)
(* What aims the dot of Follower, for every width, every set of touches    *)
(* and every set of windows.                                               *)
(***************************************************************************)
EXTENDS Follower, TLAPS

\* The flag is set exactly when something the user may have chosen aims the dot.
FlagFollowsHistory ==
    up => (hasUserTarget = TRUE <=> touch # None \/ restored # None)

IInv == TypeOK /\ Aimed /\ FlagFollowsHistory

LEMMA PixelsAreNotNone == None \notin Touches /\ None \notin Centres /\ Origin \in Pixels
  <1>1. \A r : r \in 0 .. Width => r \in Int
    OBVIOUS
  <1>2. None \notin 0 .. Width
    BY <1>1, FollowerAssumption
  <1>3. 0 \in 0 .. Width
    BY FollowerAssumption
  <1> QED
    BY <1>2, <1>3, FollowerAssumption DEF Pixels, Origin

LEMMA InitIInv == Init => IInv
  BY PixelsAreNotNone DEF Init, IInv, TypeOK, Aimed, FlagFollowsHistory

LEMMA OnStartedStep == ASSUME IInv, OnStarted PROVE IInv'
  <1>1. up' = TRUE /\ window' = None /\ touch' = None /\ saved' = saved
    BY DEF OnStarted, Started
  <1>2. CASE /\ saved # None
             /\ position' = saved.position /\ target' = saved.target
             /\ hasUserTarget' = TRUE /\ restored' = saved
    <2>1. saved \in Snapshots
      BY <1>2 DEF IInv, TypeOK
    <2>2. position' \in Pixels /\ target' \in Pixels
      BY <1>2, <2>1 DEF Snapshots
    <2> QED
      BY <1>1, <1>2, <2>1, <2>2 DEF IInv, TypeOK, Aimed, FlagFollowsHistory
  <1>3. CASE /\ position' = Origin /\ target' = Origin
             /\ hasUserTarget' = FALSE /\ restored' = None
    BY <1>1, <1>3, PixelsAreNotNone DEF IInv, TypeOK, Aimed, FlagFollowsHistory
  <1> QED
    BY <1>2, <1>3 DEF OnStarted, Started, FindFollower

\* A resize is an aim only while nothing the user may have chosen is.
LEMMA ResizeStep == ASSUME IInv, NEW c \in Centres, OnWindowResized(c) PROVE IInv'
  <1>1. up = TRUE /\ window' = c /\ c # None /\ c \in Pixels
    BY PixelsAreNotNone, FollowerAssumption DEF OnWindowResized, IInv, TypeOK, Pixels
  <1>2. UNCHANGED <<up, position, hasUserTarget, touch, restored, saved>>
    BY DEF OnWindowResized
  <1>3. CASE hasUserTarget = TRUE
    <2>1. target' = target
      BY <1>3 DEF OnWindowResized
    <2> QED
      BY <1>1, <1>2, <1>3, <2>1 DEF IInv, TypeOK, Aimed, FlagFollowsHistory
  <1>4. CASE hasUserTarget = FALSE
    <2>1. target' = c
      BY <1>4 DEF OnWindowResized
    <2> QED
      BY <1>1, <1>2, <1>4, <2>1 DEF IInv, TypeOK, Aimed, FlagFollowsHistory
  <1> QED
    BY <1>3, <1>4 DEF IInv, TypeOK

LEMMA TouchStep == ASSUME IInv, NEW p \in Touches, AimFollowerAt(p) PROVE IInv'
  <1>1. p # None /\ p \in Pixels
    BY PixelsAreNotNone, FollowerAssumption DEF Pixels
  <1> QED
    BY <1>1 DEF AimFollowerAt, IInv, TypeOK, Aimed, FlagFollowsHistory

\* A frame moves the dot to a pixel and aims at nothing.
LEMMA TickStep == ASSUME IInv, Tick PROVE IInv'
  <1>1. position' \in Pixels
    BY DEF Tick, Approach, Between
  <1> QED
    BY <1>1 DEF Tick, IInv, TypeOK, Aimed, FlagFollowsHistory

LEMMA SnapshotStep == ASSUME IInv, Snapshot PROVE IInv'
  <1>1. saved' \in Snapshots
    BY DEF Snapshot, Snapshots, IInv, TypeOK
  <1> QED
    BY <1>1 DEF Snapshot, IInv, TypeOK, Aimed, FlagFollowsHistory

LEMMA KillStep == ASSUME IInv, Kill PROVE IInv'
  BY DEF Kill, IInv, TypeOK, Aimed, FlagFollowsHistory

LEMMA NextIInv == IInv /\ [Next]_vars => IInv'
  <1>1. ASSUME IInv, UNCHANGED vars PROVE IInv'
    BY <1>1 DEF vars, IInv, TypeOK, Aimed, FlagFollowsHistory
  <1> QED
    BY <1>1, OnStartedStep, ResizeStep, TouchStep, TickStep, SnapshotStep, KillStep DEF Next

\* The inductive invariant of the dot.
THEOREM FollowerInductive == Spec => []IInv
  BY InitIInv, NextIInv, PTL DEF Spec

\* Types: above all, the glide never leaves the pixels between dot and target.
THEOREM FollowerTyped == Spec => []TypeOK
  <1>1. IInv => TypeOK
    BY DEF IInv
  <1> QED
    BY <1>1, FollowerInductive, PTL

\* on_touch_down(), on_touch_move(), on_window_resized() and the restore of
\* on_started() aim the dot in this order of precedence, whatever the order in
\* which they happen.
THEOREM AimIsRight == Spec => []Aimed
  <1>1. IInv => Aimed
    BY DEF IInv
  <1> QED
    BY <1>1, FollowerInductive, PTL

\* A glide towards the end of an interval stays in it.
LEMMA GlideStaysBetween ==
    ASSUME NEW p \in Pixels, NEW q \in Pixels, NEW r \in Between(p, q),
           NEW s \in Between(r, q)
    PROVE  s \in Between(p, q)
  <1>1. \A n : n \in Pixels => n \in Int
    BY FollowerAssumption DEF Pixels
  <1>2. p \in Int /\ q \in Int /\ r \in Int /\ s \in Int /\ s \in Pixels
    BY <1>1 DEF Between
  <1> QED
    BY <1>2 DEF Between

LEMMA PositionIsBetween == ASSUME NEW p \in Pixels, NEW q \in Pixels PROVE p \in Between(p, q)
  <1>1. p \in Int /\ q \in Int
    BY FollowerAssumption DEF Pixels
  <1> QED
    BY <1>1 DEF Between

\* find-or-create and the flag it sets: whatever is resized and however long it
\* glides, an untouched dot keeps the course it was restored with.
THEOREM CourseIsKept == Spec => []RestoredStaysOnCourse
  <1>1. Init => RestoredStaysOnCourse
    BY DEF Init, RestoredStaysOnCourse
  <1>2. IInv /\ RestoredStaysOnCourse /\ [Next]_vars => RestoredStaysOnCourse'
    <2> SUFFICES ASSUME IInv, RestoredStaysOnCourse, [Next]_vars
                 PROVE  RestoredStaysOnCourse'
      OBVIOUS
    <2>1. CASE OnStarted
      <3> SUFFICES ASSUME restored' # None
                   PROVE  position' \in Between(restored'.position, restored'.target)
        BY DEF RestoredStaysOnCourse, Between
      <3>1. saved # None /\ position' = saved.position /\ restored' = saved
        BY <2>1 DEF OnStarted, Started, FindFollower
      <3>2. saved.position \in Pixels /\ saved.target \in Pixels
        BY <3>1 DEF IInv, TypeOK, Snapshots
      <3> QED
        BY <3>1, <3>2, PositionIsBetween
    <2>2. CASE Tick
      <3>1. up' = up /\ restored' = restored /\ touch' = touch
            /\ position' \in Between(position, target)
        BY <2>2 DEF Tick, Approach
      <3> SUFFICES ASSUME up, restored # None, touch = None
                   PROVE  position' \in Between(restored.position, restored.target)
        BY <3>1 DEF RestoredStaysOnCourse, Between
      <3>2. target = restored.target
        BY DEF IInv, Aimed
      <3>3. restored.position \in Pixels /\ restored.target \in Pixels
        BY DEF IInv, TypeOK, Snapshots
      <3>4. position \in Between(restored.position, restored.target)
        BY DEF RestoredStaysOnCourse
      <3> QED
        BY <3>1, <3>2, <3>3, <3>4, GlideStaysBetween
    <2>3. ASSUME NEW p \in Touches, AimFollowerAt(p) PROVE RestoredStaysOnCourse'
      BY <2>3, PixelsAreNotNone DEF AimFollowerAt, RestoredStaysOnCourse
    <2>4. CASE Snapshot \/ Kill \/ (\E c \in Centres : OnWindowResized(c)) \/ UNCHANGED vars
      BY <2>4 DEF Snapshot, Kill, OnWindowResized, vars, RestoredStaysOnCourse, Between
    <2> QED
      BY <2>1, <2>2, <2>3, <2>4 DEF Next
  <1> QED
    BY <1>1, <1>2, FollowerInductive, PTL DEF Spec
=============================================================================
