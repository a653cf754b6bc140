---------------------------- MODULE DurableState ----------------------------
(***************************************************************************)
(* What Konative promises about the state that outlives its process: one   *)
(* durable value, replaced as a whole by a newer value of the running      *)
(* process, and read back as a whole by the next process.  There are no    *)
(* threads, no temporary files and no flag here; SnapshotPersistence,      *)
(* which has them all, is shown to implement this specification.           *)
(*                                                                         *)
(* A value is identified by the process that took it and by the combined   *)
(* HeartbeatCounter ticks it holds (src/src/platform/android/              *)
(* jni_onload.cpp:694-698: the count carries over across a restore).       *)
(***************************************************************************)
EXTENDS Naturals

CONSTANT NoFile

VARIABLES
    durable,    \* the value a restart would find
    up,         \* the process runs and has called on_started()
    boots,      \* processes started so far
    restored,   \* this process continues from the durable value
    live,       \* the running process's own tick count
    told        \* counts the application has been told are durable, by the
                \* processes the running one continues from and by itself

vars == <<durable, up, boots, restored, live, told>>

Init ==
    /\ durable = NoFile
    /\ up = FALSE
    /\ boots = 0
    /\ restored = FALSE
    /\ live = 0
    /\ told = {}

\* The next process continues from the durable value, or from scratch; then
\* what an earlier one was told no longer concerns it.
Boot ==
    /\ ~up
    /\ up' = TRUE
    /\ boots' = boots + 1
    /\ \/ durable # NoFile /\ restored' = TRUE /\ live' = durable.ticks /\ UNCHANGED told
       \/ restored' = FALSE /\ live' = 0 /\ told' = {}
    /\ UNCHANGED durable

\* What this process may say it has made durable: nothing newer than it has.
OwnDurable == IF durable # NoFile /\ durable.boot = boots THEN 0 .. durable.ticks ELSE {}

Work ==
    /\ up
    /\ live' = live + 1
    /\ \E news \in SUBSET OwnDurable : told' = told \cup news
    /\ UNCHANGED <<durable, up, boots, restored>>

\* The durable value is one this process descends from or wrote itself.
Ancestor == durable # NoFile /\ (restored \/ durable.boot = boots)

\* Some value this process has held becomes durable; never an older one.
Commit ==
    /\ up
    /\ \E t \in 1 .. live :
          /\ Ancestor => durable.ticks < t
          /\ durable' = [boot |-> boots, ticks |-> t]
    /\ UNCHANGED <<up, boots, restored, live, told>>

Crash ==
    /\ up
    /\ up' = FALSE
    /\ UNCHANGED <<durable, boots, restored, live, told>>

Next == Boot \/ Work \/ Commit \/ Crash

Spec == Init /\ [][Next]_vars

\* What the application was told is durable is in the durable value, and in
\* the process that continues from it, whatever crashed in between.
ToldIsKept ==
    \A t \in told : durable # NoFile /\ t <= durable.ticks /\ t <= live
=============================================================================
