------------------------------ MODULE KoReload ------------------------------
(***************************************************************************)
(* A build with KONATIVE_ENABLE_KORELOAD: the dot is moved by the module   *)
(* pointer_follow, which calls the module waypoint_cycler when there is    *)
(* one; every polling frame the host loads or reloads a module whose next  *)
(* generation was pushed to its private directory.                         *)
(*                                                                         *)
(* Touches, resizes, snapshots and kills are those of Follower.  KoReload  *)
(* itself, ManagedModuleSlot and ModuleRegistry, is another repository's:  *)
(* what a load may come to is modelled from what the host makes of it.     *)
(***************************************************************************)
EXTENDS Follower, Sequences

CONSTANTS
    MaxGen,         \* generations pushed of a module (bound)
    PollInterval    \* kConfigPollIntervalTicks

ASSUME KoReloadAssumption == MaxGen \in Nat \ {0} /\ PollInterval \in Nat \ {0}

Modules == {"pointer_follow", "waypoint_cycler"}

\* The cycle on the line of pixels: there and back.
Waypoints == <<Width, Origin>>

\* What a module keeps in memory of its own.  pointer_follow: its
\* reload_survival_ticks, a 64-bit counter; a residue that is prime to
\* PollInterval is enough to see a tick lost or counted twice.  waypoint_cycler:
\* its elapsed_seconds, as far as the index computed from it shows.
Modulus == 2
Cells(m) == IF m = "pointer_follow" THEN 0 .. Modulus - 1 ELSE 0 .. Len(Waypoints) - 1

VARIABLES
    pushed,     \* generations of each module in config_directory_: 1 .. pushed
    slot,       \* of each module's ManagedModuleSlot, the generation to load next
    live,       \* the generation its handle points to, 0 for none
    poll,       \* the module poll_koreload_reload() comes to next, or "none"
    tickCount,  \* tick_count_, modulo PollInterval
    memory,     \* of each module, that of the library mapped from each path
    opened,     \* (history) the paths each module was dlopened from
    due         \* (history) what the live generation's memory should hold

moduleVars == <<pushed, slot, live, poll, tickCount, memory, opened, due>>

Generations == 1 .. MaxGen
NoMemory == [m \in Modules |-> [g \in Generations |-> 0]]

KoReloadTypeOK ==
    /\ TypeOK
    /\ pushed \in [Modules -> 0 .. MaxGen]
    /\ slot \in [Modules -> 1 .. MaxGen + 1] /\ live \in [Modules -> 0 .. MaxGen]
    /\ poll \in Modules \cup {"none"} /\ tickCount \in 0 .. PollInterval - 1
    /\ memory \in [Modules -> [Generations -> Nat]] /\ due \in [Modules -> Nat]
    /\ \A m \in Modules : due[m] \in Cells(m) /\ \A g \in Generations : memory[m][g] \in Cells(m)
    /\ opened \in [Modules -> Seq(Generations)]

KoReloadInit ==
    /\ Init
    /\ pushed = [m \in Modules |-> 0]
    /\ slot = [m \in Modules |-> 1] /\ live = [m \in Modules |-> 0]
    /\ poll = "none" /\ tickCount = 0
    /\ memory = NoMemory /\ due = [m \in Modules |-> 0]
    /\ opened = [m \in Modules |-> <<>>]

-----------------------------------------------------------------------------
\* koreload_cli pushes the next generation, whether or not the process runs.
Push(m) ==
    /\ pushed[m] < MaxGen
    /\ pushed' = [pushed EXCEPT ![m] = @ + 1]
    /\ UNCHANGED <<vars, slot, live, poll, tickCount, memory, opened, due>>

\* Variant with a bug: one path for all generations, told apart by its mtime.
KoreloadModulePathFixed(gen) == 1

KoreloadModulePath(gen) == gen

\* What dlopen() of a pushed file and the module's own create function come to:
\* a module that runs; a refusal (an ABI of another version, a missing symbol, a
\* state that is not restored) that leaves what was live; a crash, after which
\* nothing is.
Outcomes(m) == {KoreloadModulePath(slot[m]), live[m], 0}

\* Variant with a bug: the next file is taken to be there.
NextFileUnchecked(m) == TRUE

\* ManagedModuleSlot::poll() of a module whose next file has appeared.
NextFile(m) == KoreloadModulePath(slot[m]) \in 1 .. pushed[m]

\* Variant with a bug: the saved bytes are not handed over.
RestoreStateNot(m, g) == UNCHANGED <<memory, due>>

\* save_state() of the live generation and restore_state() of the new one: the
\* counter goes on, or the bytes are refused, in which case some of them may have
\* been read, and it goes on from there.
RestoreState(m, g) ==
    \/ memory' = [memory EXCEPT ![m][g] = memory[m][live[m]]] /\ UNCHANGED due
    \/ \E cell \in Cells(m) :
          /\ memory' = [memory EXCEPT ![m][g] = cell]
          /\ due' = [due EXCEPT ![m] = cell]

\* A library keeps the memory it was mapped with: loading it into an empty slot
\* restores nothing and is meant to start with its initializers.
ComesUp(m, g) ==
    IF live[m] # 0 THEN RestoreState(m, g)
                   ELSE due' = [due EXCEPT ![m] = 0] /\ UNCHANGED memory

LoadOrReload(m) ==
    /\ slot' = [slot EXCEPT ![m] = @ + 1]
    /\ opened' = [opened EXCEPT ![m] = Append(@, KoreloadModulePath(slot[m]))]
    /\ \E g \in Outcomes(m) :
          /\ live' = [live EXCEPT ![m] = g]
          /\ IF g \in {live[m], 0} THEN UNCHANGED <<memory, due>> ELSE ComesUp(m, g)

-----------------------------------------------------------------------------
\* setup_koreload_modules(), called by on_started(): generation 1 of each.  Where
\* it is missing the slot goes on to wait for it or for the second: that is
\* ManagedModuleSlot's to choose.
KoReloadOnStarted ==
    /\ OnStarted
    /\ slot' \in {s \in [Modules -> {1, 2}] : \A m \in Modules : pushed[m] > 0 => s[m] = 2}
    /\ opened' = [m \in Modules |-> IF pushed[m] > 0 THEN <<KoreloadModulePath(1)>> ELSE <<>>]
    /\ live' \in {l \in [Modules -> 0 .. 1] : \A m \in Modules : pushed[m] = 0 => l[m] = 0}
    /\ UNCHANGED <<pushed, poll, tickCount, memory, due>>

\* drive_targets() of the live waypoint_cycler: a frame takes the cycle any part
\* of the way round.  Without one the target is what a touch or a resize set.
DriveTargets(index) ==
    target' = IF live["waypoint_cycler"] # 0 THEN Waypoints[1 + index] ELSE target

\* What a frame makes of a module's memory.
Passed(m, cell, index) == IF m = "pointer_follow" THEN (cell + 1) % Modulus ELSE index

\* The live generation of each module runs, and remembers, the frame.
Remember(index) ==
    /\ memory' = [m \in Modules |->
                    IF live[m] = 0 THEN memory[m]
                    ELSE [memory[m] EXCEPT ![live[m]] = Passed(m, @, index)]]
    /\ due' = [m \in Modules |-> IF live[m] = 0 THEN due[m] ELSE Passed(m, due[m], index)]

\* Variant with a bug: the dot is moved before it is aimed.
TickThunkMovesFirst(index) ==
    /\ position' \in Between(position, target)
    /\ DriveTargets(index)
    /\ Remember(index)

TickThunk(index) ==
    /\ DriveTargets(index)
    /\ position' \in Between(position, target')
    /\ Remember(index)

\* World::tick() runs the one wrapper; without a handle nothing moves.  Then
\* on_tick() polls on every PollInterval-th frame.
KoReloadTick ==
    /\ up /\ poll = "none"
    /\ IF live["pointer_follow"] # 0
       THEN \E index \in Cells("waypoint_cycler") : TickThunk(index)
       ELSE UNCHANGED <<target, position, memory, due>>
    /\ tickCount' = (tickCount + 1) % PollInterval
    /\ poll' = IF tickCount' = 0 THEN "pointer_follow" ELSE "none"
    /\ UNCHANGED <<up, hasUserTarget, window, touch, restored, saved,
                   pushed, slot, live, opened>>

\* Variant with a bug: a module that is not active is left alone (a slot that
\* can only reload, never load again).
PollKoreloadModuleActive(m) ==
    /\ poll = m
    /\ poll' = IF m = "pointer_follow" THEN "waypoint_cycler" ELSE "none"
    /\ IF NextFile(m) /\ live[m] # 0 THEN LoadOrReload(m)
       ELSE UNCHANGED <<slot, opened, live, memory, due>>
    /\ UNCHANGED <<vars, pushed, tickCount>>

PollKoreloadModule(m) ==
    /\ poll = m
    /\ poll' = IF m = "pointer_follow" THEN "waypoint_cycler" ELSE "none"
    /\ IF NextFile(m) THEN LoadOrReload(m)
       ELSE UNCHANGED <<slot, opened, live, memory, due>>
    /\ UNCHANGED <<vars, pushed, tickCount>>

\* The modules and what they hold die with the process; the files stay.
KoReloadKill ==
    /\ Kill
    /\ slot' = [m \in Modules |-> 1] /\ live' = [m \in Modules |-> 0]
    /\ poll' = "none" /\ tickCount' = 0
    /\ memory' = NoMemory /\ due' = [m \in Modules |-> 0]
    /\ opened' = [m \in Modules |-> <<>>]
    /\ UNCHANGED pushed

\* What Follower does between frames.
BetweenFrames ==
    /\ poll = "none"
    /\ Snapshot \/ (\E c \in Centres : OnWindowResized(c))
                \/ (\E p \in Touches : AimFollowerAt(p))
    /\ UNCHANGED moduleVars

KoReloadNext ==
    \/ KoReloadOnStarted \/ KoReloadTick \/ KoReloadKill \/ BetweenFrames
    \/ \E m \in Modules : Push(m) \/ PollKoreloadModule(m)

KoReloadSpec == KoReloadInit /\ [][KoReloadNext]_<<vars, moduleVars>>

\* The main thread goes on: frames keep coming, and every one of them ends.
Main == KoReloadTick \/ \E m \in Modules : PollKoreloadModule(m)
KoReloadFairSpec == KoReloadSpec /\ WF_<<vars, moduleVars>>(Main)

-----------------------------------------------------------------------------
\* What a module remembers is what it should: every frame it ran since it came up
\* is counted once, and "an independent reload of THIS module must resume the cycle
\* where it left off, not snap back to waypoint 0" (waypoint_cycler/module.cpp:26-27),
\* over swaps, refusals and crashes of either module.  Only bytes that
\* restore_state() refuses are not carried over; and a module that comes up after a
\* crash knows nothing of the frames before it.
ReloadKeepsState ==
    \A m \in Modules : live[m] # 0 => memory[m][live[m]] = due[m]

\* Bionic caches dlopen() by path: "this process must never dlopen the same path
\* twice" (jni_onload.cpp:934-938), over failed loads and recoveries too.
PathOpenedOnce ==
    \A m \in Modules : \A i, j \in DOMAIN opened[m] :
        opened[m][i] = opened[m][j] => i = j

\* Built with modules the dot is still Follower's: loads, refusals, crashes and
\* swaps in the middle of a polling frame neither move it nor aim it.  The one
\* step that Follower does not have is a frame of a live waypoint_cycler, which
\* aims before the same frame glides (waypoint_cycler_interface.hpp:9-13).
CyclerFrame ==
    /\ up /\ live["pointer_follow"] # 0 /\ live["waypoint_cycler"] # 0
    /\ \E i \in DOMAIN Waypoints : target' = Waypoints[i]
    /\ position' \in Between(position, target')
    /\ UNCHANGED <<up, hasUserTarget, window, touch, restored, saved>>
FollowsWithModules == [][Next \/ CyclerFrame]_vars

\* From the second on, every generation that is pushed is opened in the end, also
\* by a process that starts from the first again and by one whose module failed to
\* load or crashed; so is a first one that the slot still waits for.  A first one
\* pushed to a slot that is past it never is (jni_onload.cpp:932-934).
Opened(m, n) == \E i \in DOMAIN opened[m] : opened[m][i] = n
CatchesUp ==
    \A m \in Modules, n \in Generations :
        up /\ pushed[m] >= n /\ (n >= 2 \/ slot[m] = 1) ~> Opened(m, n) \/ ~up
=============================================================================
