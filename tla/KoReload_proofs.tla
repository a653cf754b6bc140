--------------------------- MODULE KoReload_proofs ---------------------------
(***************************************************************************)
(* Theorems about the reloaded modules, for any number of generations,     *)
(* any polling interval and any plane: no path is opened twice, which is   *)
(* why a module that comes up again starts with its initializers, and no   *)
(* swap loses what a module remembers.                                     *)
(***************************************************************************)
EXTENDS KoReload, Follower_proofs

\* All of paths are different and lie before the generation to load next.
Fresh(paths, next) ==
    /\ \A i \in DOMAIN paths : paths[i] < next
    /\ \A i, j \in DOMAIN paths : paths[i] = paths[j] => i = j

SlotsTyped ==
    /\ slot \in [Modules -> Nat \ {0}]
    /\ opened \in [Modules -> Seq(Nat)]

PathsFresh == \A m \in Modules : Fresh(opened[m], slot[m])

SlotInv == SlotsTyped /\ PathsFresh

-----------------------------------------------------------------------------
\* Opening the next generation keeps the paths apart.
LEMMA AppendFresh ==
  ASSUME NEW s \in Seq(Nat), NEW n \in Nat, Fresh(s, n)
  PROVE  Append(s, n) \in Seq(Nat) /\ Fresh(Append(s, n), n + 1)
  <1> DEFINE t == Append(s, n)
  <1>1. t \in Seq(Nat) /\ Len(t) = Len(s) + 1 /\ Len(s) \in Nat
    OBVIOUS
  <1>2. \A i \in 1 .. Len(s) : t[i] = s[i] /\ s[i] < n /\ s[i] \in Nat
    BY DEF Fresh
  <1>3. t[Len(s) + 1] = n
    OBVIOUS
  <1>4. DOMAIN t = 1 .. Len(s) + 1 /\ DOMAIN s = 1 .. Len(s)
    BY <1>1
  <1> HIDE DEF t
  <1>5. ASSUME NEW i \in DOMAIN t PROVE t[i] < n + 1
    <2>1. CASE i = Len(s) + 1
      BY <1>3, <2>1
    <2>2. CASE i \in 1 .. Len(s)
      BY <1>2, <2>2
    <2> QED
      BY <1>1, <1>4, <2>1, <2>2
  <1>6. ASSUME NEW i \in DOMAIN t, NEW j \in DOMAIN t, t[i] = t[j] PROVE i = j
    <2>1. CASE i = Len(s) + 1 /\ j = Len(s) + 1
      BY <2>1
    <2>2. CASE i \in 1 .. Len(s) /\ j \in 1 .. Len(s)
      BY <1>2, <1>4, <1>6, <2>2 DEF Fresh
    <2>3. CASE i \in 1 .. Len(s) /\ j = Len(s) + 1
      BY <1>2, <1>3, <1>6, <2>3
    <2>4. CASE i = Len(s) + 1 /\ j \in 1 .. Len(s)
      BY <1>2, <1>3, <1>6, <2>4
    <2> QED
      BY <1>1, <1>4, <2>1, <2>2, <2>3, <2>4
  <1> QED
    BY <1>1, <1>5, <1>6 DEF Fresh, t

LEMMA SingleFresh == Fresh(<<>>, 1) /\ Fresh(<<>>, 2) /\ Fresh(<<1>>, 2)
  BY DEF Fresh

LEMMA InitSlot == KoReloadInit => SlotInv
  BY SingleFresh
  DEF KoReloadInit, SlotInv, SlotsTyped, PathsFresh, Fresh

-----------------------------------------------------------------------------
LEMMA StartedSlot == ASSUME SlotInv, KoReloadOnStarted PROVE SlotInv'
  <1>1. /\ slot' \in [Modules -> {1, 2}]
        /\ \A m \in Modules : pushed[m] > 0 => slot'[m] = 2
        /\ opened' = [m \in Modules |-> IF pushed[m] > 0 THEN <<1>> ELSE <<>>]
    BY DEF KoReloadOnStarted, KoreloadModulePath
  <1>2. opened' \in [Modules -> Seq(Nat)]
    <2>1. <<1>> \in Seq(Nat) /\ <<>> \in Seq(Nat)
      OBVIOUS
    <2> QED
      BY <1>1, <2>1
  <1>3. PathsFresh'
    BY <1>1, SingleFresh DEF PathsFresh
  <1> QED
    BY <1>1, <1>2, <1>3 DEF SlotInv, SlotsTyped

\* The heart: whatever a load comes to.
LEMMA LoadSlot == ASSUME SlotInv, NEW m \in Modules, LoadOrReload(m) PROVE SlotInv'
  <1>1. /\ slot' = [slot EXCEPT ![m] = @ + 1]
        /\ opened' = [opened EXCEPT ![m] = Append(@, slot[m])]
    BY DEF LoadOrReload, KoreloadModulePath
  <1>2. slot[m] \in Nat /\ slot[m] # 0 /\ opened[m] \in Seq(Nat)
    BY DEF SlotInv, SlotsTyped
  <1>3. Append(opened[m], slot[m]) \in Seq(Nat)
        /\ Fresh(Append(opened[m], slot[m]), slot[m] + 1)
    BY <1>2, AppendFresh DEF SlotInv, PathsFresh
  <1>4. PathsFresh'
    BY <1>1, <1>3 DEF SlotInv, SlotsTyped, PathsFresh
  <1>5. SlotsTyped'
    BY <1>1, <1>2, <1>3 DEF SlotInv, SlotsTyped
  <1> QED
    BY <1>4, <1>5 DEF SlotInv

LEMMA KillSlot == ASSUME SlotInv, KoReloadKill PROVE SlotInv'
  BY SingleFresh DEF KoReloadKill, SlotInv, SlotsTyped, PathsFresh

LEMMA OtherSlot == ASSUME SlotInv, UNCHANGED <<slot, opened>> PROVE SlotInv'
  BY DEF SlotInv, SlotsTyped, PathsFresh

LEMMA NextSlot == SlotInv /\ [KoReloadNext]_<<vars, moduleVars>> => SlotInv'
  <1> SUFFICES ASSUME SlotInv, [KoReloadNext]_<<vars, moduleVars>> PROVE SlotInv'
    OBVIOUS
  <1>1. CASE KoReloadTick \/ BetweenFrames \/ UNCHANGED <<vars, moduleVars>>
    BY <1>1, OtherSlot DEF KoReloadTick, BetweenFrames, moduleVars
  <1>2. ASSUME NEW m \in Modules, Push(m) \/ PollKoreloadModule(m) PROVE SlotInv'
    BY <1>2, LoadSlot, OtherSlot DEF Push, PollKoreloadModule
  <1> QED
    BY <1>1, <1>2, StartedSlot, KillSlot DEF KoReloadNext

-----------------------------------------------------------------------------
\* The slots' inductive invariant.
THEOREM SlotsInductive == KoReloadSpec => []SlotInv
  BY InitSlot, NextSlot, PTL DEF KoReloadSpec

\* ManagedModuleSlot under setup_koreload_modules() and poll_koreload_module():
\* no process opens a path twice, over failures, crashes and recoveries.
THEOREM NoPathTwice == KoReloadSpec => []PathOpenedOnce
  <1>1. SlotInv => PathOpenedOnce
    BY DEF SlotInv, PathsFresh, Fresh, PathOpenedOnce
  <1> QED
    BY <1>1, SlotsInductive, PTL

-----------------------------------------------------------------------------
\* Types of the dot and of the module variables.

DotTyped == TypeOK

GensTyped ==
    /\ pushed \in [Modules -> 0 .. MaxGen]
    /\ slot \in [Modules -> 1 .. MaxGen + 1] /\ live \in [Modules -> 0 .. MaxGen]
    /\ opened \in [Modules -> Seq(Generations)]

CountsTyped ==
    poll \in Modules \cup {"none"} /\ tickCount \in 0 .. PollInterval - 1

MemoryTyped ==
    /\ memory \in [Modules -> [Generations -> Nat]] /\ due \in [Modules -> Nat]
    /\ \A m \in Modules : due[m] \in Cells(m) /\ \A g \in Generations : memory[m][g] \in Cells(m)

LEMMA Parts == KoReloadTypeOK <=> DotTyped /\ GensTyped /\ CountsTyped /\ MemoryTyped
  BY DEF KoReloadTypeOK, DotTyped, GensTyped, CountsTyped, MemoryTyped

LEMMA PartsNext == DotTyped' /\ GensTyped' /\ CountsTyped' /\ MemoryTyped' => KoReloadTypeOK'
  BY DEF KoReloadTypeOK, DotTyped, GensTyped, CountsTyped, MemoryTyped

\* The counter's residues, and as many waypoints.
LEMMA CellsAre == \A m \in Modules : Cells(m) = 0 .. 1
  <1>1. Len(Waypoints) = 2
    BY DEF Waypoints
  <1> QED
    BY <1>1 DEF Cells, Modulus, Modules

LEMMA NumbersAre ==
    /\ None \notin Touches /\ None \notin Centres
    /\ Width \in Pixels /\ Origin \in Pixels
    /\ Touches \subseteq Pixels /\ Centres \subseteq Pixels
  <1>1. \A r : r \in 0 .. Width => r \in Int
    OBVIOUS
  <1>2. Width \in 0 .. Width /\ 0 \in 0 .. Width
    BY FollowerAssumption
  <1> QED
    BY <1>1, <1>2, FollowerAssumption DEF Pixels, Origin

LEMMA NothingRemembered ==
    ASSUME memory' = NoMemory, due' = [m \in Modules |-> 0] PROVE MemoryTyped'
  <1>1. \A m \in Modules : due'[m] \in Cells(m) /\ \A g \in Generations : memory'[m][g] \in Cells(m)
    BY CellsAre DEF NoMemory
  <1>2. memory' \in [Modules -> [Generations -> Nat]] /\ due' \in [Modules -> Nat]
    BY DEF NoMemory
  <1> QED
    BY <1>1, <1>2 DEF MemoryTyped

LEMMA InitTypes == KoReloadInit => KoReloadTypeOK
  <1> SUFFICES ASSUME KoReloadInit PROVE KoReloadTypeOK
    OBVIOUS
  <1>1. DotTyped
    BY NumbersAre DEF KoReloadInit, Init, DotTyped, TypeOK
  <1>2. GensTyped
    BY KoReloadAssumption DEF KoReloadInit, GensTyped, Generations
  <1>3. CountsTyped
    BY KoReloadAssumption DEF KoReloadInit, CountsTyped
  <1>4. MemoryTyped
    BY CellsAre DEF KoReloadInit, NoMemory, MemoryTyped
  <1> QED
    BY <1>1, <1>2, <1>3, <1>4, Parts

LEMMA StartedTypes == ASSUME KoReloadTypeOK, KoReloadOnStarted PROVE KoReloadTypeOK'
  <1>1. DotTyped'
    <2>1. /\ up' = TRUE /\ window' = None /\ touch' = None /\ saved' = saved
          /\ saved \in Snapshots \cup {None}
      BY DEF KoReloadOnStarted, OnStarted, Started, KoReloadTypeOK, TypeOK
    <2>2. CASE /\ saved # None
               /\ position' = saved.position /\ target' = saved.target
               /\ hasUserTarget' = TRUE /\ restored' = saved
      <3>1. saved.position \in Pixels /\ saved.target \in Pixels
        BY <2>1, <2>2 DEF Snapshots
      <3> QED
        BY <2>1, <2>2, <3>1 DEF DotTyped, TypeOK
    <2>3. CASE /\ position' = Origin /\ target' = Origin
               /\ hasUserTarget' = FALSE /\ restored' = None
      BY <2>1, <2>3, NumbersAre DEF DotTyped, TypeOK
    <2> QED
      BY <2>2, <2>3 DEF KoReloadOnStarted, OnStarted, Started, FindFollower
  <1>2. GensTyped'
    <2>1. 1 \in Generations /\ {1, 2} \subseteq 1 .. MaxGen + 1 /\ 0 .. 1 \subseteq 0 .. MaxGen
      BY KoReloadAssumption DEF Generations
    <2>2. <<1>> \in Seq(Generations) /\ <<>> \in Seq(Generations)
      BY <2>1
    <2>3. pushed' = pushed /\ slot' \in [Modules -> {1, 2}] /\ live' \in [Modules -> 0 .. 1]
          /\ opened' = [m \in Modules |-> IF pushed[m] > 0 THEN <<1>> ELSE <<>>]
      BY DEF KoReloadOnStarted, KoreloadModulePath
    <2>4. slot' \in [Modules -> 1 .. MaxGen + 1] /\ live' \in [Modules -> 0 .. MaxGen]
      BY <2>1, <2>3
    <2> QED
      BY <2>2, <2>3, <2>4, Parts DEF GensTyped
  <1>3. CountsTyped' /\ MemoryTyped'
    BY Parts DEF KoReloadOnStarted, CountsTyped, MemoryTyped
  <1> QED
    BY <1>1, <1>2, <1>3, PartsNext

\* What a frame passes on is a cell again.
LEMMA PassedIsCell ==
    ASSUME NEW m \in Modules, NEW cell \in 0 .. 1, NEW index \in 0 .. 1
    PROVE  Passed(m, cell, index) \in 0 .. 1
  <1>1. (cell + 1) % 2 \in 0 .. 1
    OBVIOUS
  <1> QED
    BY <1>1 DEF Passed, Modulus

LEMMA RememberTypes ==
    ASSUME MemoryTyped, NEW index \in 0 .. 1, Remember(index) PROVE MemoryTyped'
  <1>1. /\ memory' = [m \in Modules |->
                        IF live[m] = 0 THEN memory[m]
                        ELSE [memory[m] EXCEPT ![live[m]] = Passed(m, @, index)]]
        /\ due' = [m \in Modules |-> IF live[m] = 0 THEN due[m] ELSE Passed(m, due[m], index)]
    BY DEF Remember
  <1>2. ASSUME NEW m \in Modules
        PROVE  /\ memory'[m] \in [Generations -> 0 .. 1]
               /\ due'[m] \in 0 .. 1
    <2>1. memory[m] \in [Generations -> 0 .. 1] /\ due[m] \in 0 .. 1
      BY CellsAre DEF MemoryTyped
    <2>2. CASE live[m] = 0
      BY <1>1, <2>1, <2>2
    <2>3. CASE live[m] # 0
      <3>1. memory'[m] = [memory[m] EXCEPT ![live[m]] = Passed(m, @, index)]
            /\ due'[m] = Passed(m, due[m], index)
        BY <1>1, <2>3
      <3>2. Passed(m, due[m], index) \in 0 .. 1
        BY <2>1, PassedIsCell
      <3>3. live[m] \in Generations => Passed(m, memory[m][live[m]], index) \in 0 .. 1
        BY <2>1, PassedIsCell
      <3> QED
        BY <2>1, <3>1, <3>2, <3>3
    <2> QED
      BY <2>2, <2>3
  <1>3. \A m \in Modules : due'[m] \in Cells(m) /\ \A g \in Generations : memory'[m][g] \in Cells(m)
    BY <1>2, CellsAre
  <1>4. 0 .. 1 \subseteq Nat
    OBVIOUS
  <1>5. memory' \in [Modules -> [Generations -> Nat]] /\ due' \in [Modules -> Nat]
    BY <1>1, <1>2, <1>4
  <1> QED
    BY <1>3, <1>5 DEF MemoryTyped

\* A waypoint is a pixel.
LEMMA DriveTypes ==
    ASSUME target \in Pixels, NEW index \in 0 .. 1, DriveTargets(index) PROVE target' \in Pixels
  <1>1. index = 0 \/ index = 1
    OBVIOUS
  <1>2. Waypoints[1 + index] \in {Width, Origin}
    BY <1>1 DEF Waypoints
  <1> QED
    BY <1>2, NumbersAre DEF DriveTargets

LEMMA TickTypes == ASSUME KoReloadTypeOK, KoReloadTick PROVE KoReloadTypeOK'
  <1>1. /\ UNCHANGED <<up, hasUserTarget, window, touch, restored, saved>>
        /\ UNCHANGED <<pushed, slot, live, opened>>
        /\ tickCount' = (tickCount + 1) % PollInterval
        /\ poll' \in Modules \cup {"none"}
    BY DEF KoReloadTick, Modules
  <1>2. GensTyped'
    BY <1>1, Parts DEF GensTyped
  <1>3. tickCount' \in 0 .. PollInterval - 1
    BY <1>1, KoReloadAssumption DEF KoReloadTypeOK
  <1>4. CountsTyped'
    BY <1>1, <1>3 DEF CountsTyped
  <1>5. position' \in Pixels /\ target' \in Pixels /\ MemoryTyped'
    <2>1. CASE live["pointer_follow"] # 0
      <3>1. PICK index \in Cells("waypoint_cycler") : TickThunk(index)
        BY <2>1 DEF KoReloadTick
      <3>2. index \in 0 .. 1
        BY CellsAre DEF Modules
      <3>3. target' \in Pixels
        BY <3>1, <3>2, DriveTypes DEF TickThunk, KoReloadTypeOK, TypeOK
      <3>4. MemoryTyped'
        BY <3>1, <3>2, RememberTypes, Parts DEF TickThunk
      <3> QED
        BY <3>1, <3>3, <3>4 DEF TickThunk, Between
    <2>2. CASE live["pointer_follow"] = 0
      BY <2>2, Parts DEF KoReloadTick, DotTyped, TypeOK, MemoryTyped
    <2> QED
      BY <2>1, <2>2
  <1>6. DotTyped'
    BY <1>1, <1>5 DEF KoReloadTypeOK, DotTyped, TypeOK
  <1> QED
    BY <1>2, <1>4, <1>5, <1>6, PartsNext

LEMMA ComesUpTypes ==
    ASSUME MemoryTyped, NEW m \in Modules, NEW g \in Generations,
           live[m] \in 0 .. MaxGen, ComesUp(m, g)
    PROVE  MemoryTyped'
  <1>1. 0 \in Cells(m) /\ Cells(m) \subseteq Nat
    BY CellsAre
  <1>2. CASE live[m] # 0 /\ memory' = [memory EXCEPT ![m][g] = memory[m][live[m]]] /\ due' = due
    <2>1. live[m] \in Generations
      BY <1>2 DEF Generations
    <2>2. memory[m][live[m]] \in Cells(m)
      BY <2>1 DEF MemoryTyped
    <2> QED
      BY <1>1, <1>2, <2>2 DEF MemoryTyped
  <1>3. ASSUME NEW cell \in Cells(m), memory' = [memory EXCEPT ![m][g] = cell],
               due' = [due EXCEPT ![m] = cell]
        PROVE  MemoryTyped'
    BY <1>1, <1>3 DEF MemoryTyped
  <1>4. CASE due' = [due EXCEPT ![m] = 0] /\ memory' = memory
    BY <1>1, <1>4 DEF MemoryTyped
  <1> QED
    BY <1>2, <1>3, <1>4 DEF ComesUp, RestoreState

LEMMA LoadTypes ==
    ASSUME KoReloadTypeOK, NEW m \in Modules, NextFile(m), LoadOrReload(m), pushed' = pushed
    PROVE  GensTyped' /\ MemoryTyped'
  <1> DEFINE gen == slot[m]
  <1>1. gen \in Generations /\ gen + 1 \in 1 .. MaxGen + 1 /\ gen \in 0 .. MaxGen
    BY KoReloadAssumption DEF NextFile, KoreloadModulePath, KoReloadTypeOK, Generations
  <1>2. /\ slot' = [slot EXCEPT ![m] = @ + 1]
        /\ opened' = [opened EXCEPT ![m] = Append(@, gen)]
    BY DEF LoadOrReload, KoreloadModulePath
  <1>3. PICK g \in {gen, live[m], 0} :
          /\ live' = [live EXCEPT ![m] = g]
          /\ IF g \in {live[m], 0} THEN UNCHANGED <<memory, due>> ELSE ComesUp(m, g)
    BY DEF LoadOrReload, Outcomes, KoreloadModulePath
  <1> HIDE DEF gen
  <1>4. live[m] \in 0 .. MaxGen /\ g \in 0 .. MaxGen
    BY <1>1, <1>3, KoReloadAssumption DEF KoReloadTypeOK
  <1>5. Append(opened[m], gen) \in Seq(Generations)
    BY <1>1 DEF KoReloadTypeOK
  <1>6. slot' \in [Modules -> 1 .. MaxGen + 1]
    BY <1>1, <1>2 DEF KoReloadTypeOK, gen
  <1>7. opened' \in [Modules -> Seq(Generations)]
    BY <1>2, <1>5 DEF KoReloadTypeOK
  <1>8. live' \in [Modules -> 0 .. MaxGen]
    BY <1>3, <1>4 DEF KoReloadTypeOK
  <1>9. GensTyped'
    BY <1>6, <1>7, <1>8 DEF KoReloadTypeOK, GensTyped
  <1>10. MemoryTyped'
    <2>1. CASE UNCHANGED <<memory, due>>
      BY <2>1, Parts DEF MemoryTyped
    <2>2. CASE g = gen /\ ComesUp(m, g)
      BY <1>1, <1>4, <2>2, ComesUpTypes, Parts
    <2> QED
      BY <1>3, <2>1, <2>2
  <1> QED
    BY <1>9, <1>10

LEMMA PollTypes ==
    ASSUME KoReloadTypeOK, NEW m \in Modules, PollKoreloadModule(m) PROVE KoReloadTypeOK'
  <1>1. /\ UNCHANGED <<up, position, target, hasUserTarget, window, touch, restored, saved>>
        /\ pushed' = pushed /\ tickCount' = tickCount /\ poll' \in Modules \cup {"none"}
    BY DEF PollKoreloadModule, vars, Modules
  <1>2. DotTyped'
    BY <1>1, Parts DEF DotTyped, TypeOK
  <1>3. GensTyped' /\ MemoryTyped'
    <2>1. CASE NextFile(m) /\ LoadOrReload(m)
      BY <1>1, <2>1, LoadTypes
    <2>2. CASE UNCHANGED <<slot, opened, live, memory, due>>
      BY <1>1, <2>2, Parts DEF GensTyped, MemoryTyped
    <2> QED
      BY <2>1, <2>2 DEF PollKoreloadModule
  <1>4. CountsTyped'
    BY <1>1, Parts DEF CountsTyped
  <1> QED
    BY <1>2, <1>3, <1>4, PartsNext

LEMMA KillTypes == ASSUME KoReloadTypeOK, KoReloadKill PROVE KoReloadTypeOK'
  <1>1. DotTyped'
    BY Parts DEF KoReloadKill, Kill, DotTyped, TypeOK
  <1>2. GensTyped'
    BY KoReloadAssumption DEF KoReloadKill, KoReloadTypeOK, GensTyped, Generations
  <1>3. CountsTyped'
    BY KoReloadAssumption DEF KoReloadKill, CountsTyped
  <1>4. MemoryTyped'
    BY NothingRemembered DEF KoReloadKill
  <1> QED
    BY <1>1, <1>2, <1>3, <1>4, PartsNext

LEMMA OtherTypes ==
    ASSUME KoReloadTypeOK,
           BetweenFrames \/ (\E m \in Modules : Push(m)) \/ UNCHANGED <<vars, moduleVars>>
    PROVE  KoReloadTypeOK'
  <1>1. UNCHANGED <<slot, live, opened, memory, due, poll, tickCount>>
    BY DEF BetweenFrames, Push, moduleVars
  <1>2. pushed' \in [Modules -> 0 .. MaxGen]
    <2>1. CASE pushed' = pushed
      BY <2>1 DEF KoReloadTypeOK
    <2>2. ASSUME NEW m \in Modules, Push(m) PROVE pushed' \in [Modules -> 0 .. MaxGen]
      BY <2>2, KoReloadAssumption DEF Push, KoReloadTypeOK
    <2> QED
      BY <2>1, <2>2 DEF BetweenFrames, moduleVars
  <1>3. DotTyped'
    <2>1. CASE Snapshot
      BY <2>1, Parts DEF Snapshot, Snapshots, DotTyped, TypeOK
    <2>2. ASSUME NEW c \in Centres, OnWindowResized(c) PROVE DotTyped'
      BY <2>2, Parts, NumbersAre DEF OnWindowResized, DotTyped, TypeOK
    <2>3. ASSUME NEW p \in Touches, AimFollowerAt(p) PROVE DotTyped'
      BY <2>3, Parts, NumbersAre DEF AimFollowerAt, DotTyped, TypeOK
    <2>4. CASE UNCHANGED vars
      BY <2>4, Parts DEF vars, DotTyped, TypeOK
    <2> QED
      BY <2>1, <2>2, <2>3, <2>4 DEF BetweenFrames, Push, vars
  <1>4. GensTyped' /\ CountsTyped' /\ MemoryTyped'
    BY <1>1, <1>2, Parts DEF GensTyped, CountsTyped, MemoryTyped
  <1> QED
    BY <1>3, <1>4, PartsNext

\* Types: above all, no slot looks beyond the generation after the last, and
\* no module, restored or not, remembers an index outside its waypoints.
THEOREM ModulesTyped == KoReloadSpec => []KoReloadTypeOK
  <1>1. KoReloadTypeOK /\ [KoReloadNext]_<<vars, moduleVars>> => KoReloadTypeOK'
    BY StartedTypes, TickTypes, PollTypes, KillTypes, OtherTypes DEF KoReloadNext
  <1> QED
    BY <1>1, InitTypes, PTL DEF KoReloadSpec

-----------------------------------------------------------------------------
\* Of Follower's variables, in each kind of step.

LEMMA TickFollows ==
    ASSUME KoReloadTick PROVE Next \/ CyclerFrame \/ UNCHANGED vars
  <1>1. up /\ UNCHANGED <<up, hasUserTarget, window, touch, restored, saved>>
    BY DEF KoReloadTick
  <1>2. CASE live["pointer_follow"] = 0
    BY <1>1, <1>2 DEF KoReloadTick, vars
  <1>3. CASE live["pointer_follow"] # 0
    <2>1. PICK index \in Cells("waypoint_cycler") : TickThunk(index)
      BY <1>3 DEF KoReloadTick
    <2>2. index \in 0 .. 1
      BY CellsAre DEF Modules
    <2>3. CASE live["waypoint_cycler"] = 0
      <3>1. target' = target /\ position' \in Between(position, target)
        BY <2>1, <2>3 DEF TickThunk, DriveTargets
      <3>2. Tick
        BY <1>1, <3>1 DEF Tick, Approach
      <3> QED
        BY <3>2 DEF Next
    <2>4. CASE live["waypoint_cycler"] # 0
      <3>1. target' = Waypoints[1 + index] /\ position' \in Between(position, target')
        BY <2>1, <2>4 DEF TickThunk, DriveTargets
      <3>2. 1 + index \in DOMAIN Waypoints
        BY <2>2 DEF Waypoints
      <3> QED
        BY <1>1, <1>3, <2>4, <3>1, <3>2 DEF CyclerFrame
    <2> QED
      BY <2>3, <2>4
  <1> QED
    BY <1>2, <1>3

LEMMA StepFollows ==
    ASSUME [KoReloadNext]_<<vars, moduleVars>> PROVE [Next \/ CyclerFrame]_vars
  <1>1. CASE KoReloadOnStarted
    BY <1>1 DEF KoReloadOnStarted, Next
  <1>2. CASE KoReloadTick
    BY <1>2, TickFollows
  <1>3. CASE KoReloadKill
    BY <1>3 DEF KoReloadKill, Next
  <1>4. CASE BetweenFrames
    BY <1>4 DEF BetweenFrames, Next
  <1>5. CASE \E m \in Modules : Push(m) \/ PollKoreloadModule(m)
    BY <1>5 DEF Push, PollKoreloadModule
  <1>6. CASE UNCHANGED <<vars, moduleVars>>
    BY <1>6
  <1> QED
    BY <1>1, <1>2, <1>3, <1>4, <1>5, <1>6 DEF KoReloadNext

\* tick_thunk() sets the waypoint before it glides, whichever generations run,
\* and no load, refusal, crash or swap touches the dot.
THEOREM ModulesKeepTheDot == KoReloadSpec => FollowsWithModules
  <1>1. [KoReloadNext]_<<vars, moduleVars>> => [Next \/ CyclerFrame]_vars
    BY StepFollows
  <1> QED
    BY <1>1, PTL DEF KoReloadSpec, FollowsWithModules

\* While waypoint_cycler never comes up, a build with modules implements the
\* follower of a build without.
THEOREM WithoutCycler == KoReloadSpec /\ [](live["waypoint_cycler"] = 0) => Spec
  <1>1. KoReloadInit => Init
    BY DEF KoReloadInit
  <1>2. live["waypoint_cycler"] = 0
        /\ [KoReloadNext]_<<vars, moduleVars>> => [Next]_vars
    BY StepFollows DEF CyclerFrame
  <1> QED
    BY <1>1, <1>2, PTL DEF KoReloadSpec, Spec

\* So the user's last touch aims it there too.
THEOREM AimWithoutCycler == KoReloadSpec /\ [](live["waypoint_cycler"] = 0) => []Aimed
  BY WithoutCycler, AimIsRight, PTL

\* And a restored dot that nobody touches keeps its course there, over loads,
\* swaps and crashes of the module that moves it.
THEOREM CourseWithoutCycler ==
    KoReloadSpec /\ [](live["waypoint_cycler"] = 0) => []RestoredStaysOnCourse
  BY WithoutCycler, CourseIsKept, PTL

-----------------------------------------------------------------------------
\* What the modules remember.

\* The generations that are not loaded yet have their initializers.
Untouched == \A m \in Modules, g \in Generations : g >= slot[m] => memory[m][g] = 0

LiveBehind == \A m \in Modules : live[m] < slot[m]

\* A process that is not there remembers nothing and polls nothing.
DownIsClean ==
    ~up => /\ poll = "none" /\ memory = NoMemory
           /\ due = [m \in Modules |-> 0] /\ live = [m \in Modules |-> 0]

MemoryInv == ReloadKeepsState /\ Untouched /\ LiveBehind /\ DownIsClean

LEMMA InitMemory == KoReloadInit => MemoryInv
  <1> SUFFICES ASSUME KoReloadInit PROVE MemoryInv
    OBVIOUS
  <1>1. \A m \in Modules : live[m] = 0 /\ slot[m] = 1
    BY DEF KoReloadInit
  <1>2. ReloadKeepsState /\ LiveBehind
    BY <1>1 DEF ReloadKeepsState, LiveBehind
  <1>3. Untouched /\ DownIsClean
    BY DEF KoReloadInit, NoMemory, Untouched, DownIsClean
  <1> QED
    BY <1>2, <1>3 DEF MemoryInv

LEMMA StartedMemory ==
    ASSUME KoReloadTypeOK, MemoryInv, KoReloadOnStarted PROVE MemoryInv'
  <1>1. /\ memory' = NoMemory /\ due' = [m \in Modules |-> 0] /\ up'
        /\ live' \in [Modules -> 0 .. 1] /\ slot' \in [Modules -> {1, 2}]
        /\ \A m \in Modules : pushed[m] > 0 => slot'[m] = 2
        /\ \A m \in Modules : pushed[m] = 0 => live'[m] = 0
    BY DEF KoReloadOnStarted, OnStarted, Started, MemoryInv, DownIsClean
  <1>2. 1 \in Generations
    BY KoReloadAssumption DEF Generations
  <1>3. ReloadKeepsState' /\ Untouched'
    <2>1. ASSUME NEW m \in Modules, live'[m] # 0 PROVE memory'[m][live'[m]] = due'[m]
      <3>1. live'[m] = 1
        BY <1>1, <2>1
      <3> QED
        BY <1>1, <1>2, <3>1 DEF NoMemory
    <2>2. ReloadKeepsState'
      BY <2>1 DEF ReloadKeepsState
    <2>3. Untouched'
      BY <1>1 DEF Untouched, NoMemory
    <2> QED
      BY <2>2, <2>3
  <1>4. LiveBehind'
    <2> SUFFICES ASSUME NEW m \in Modules PROVE live'[m] < slot'[m]
      BY DEF LiveBehind
    <2>1. live'[m] \in 0 .. 1 /\ slot'[m] \in {1, 2}
      BY <1>1
    <2>2. pushed[m] = 0 \/ pushed[m] > 0
      BY DEF KoReloadTypeOK
    <2>3. CASE pushed[m] = 0
      BY <1>1, <2>1, <2>3
    <2>4. CASE pushed[m] > 0
      BY <1>1, <2>1, <2>4
    <2> QED
      BY <2>2, <2>3, <2>4
  <1> QED
    BY <1>1, <1>3, <1>4 DEF MemoryInv, DownIsClean

LEMMA TickMemory ==
    ASSUME KoReloadTypeOK, MemoryInv, KoReloadTick PROVE MemoryInv'
  <1>1. up /\ up' = up /\ UNCHANGED <<slot, live>>
    BY DEF KoReloadTick
  <1>2. LiveBehind' /\ DownIsClean'
    BY <1>1 DEF MemoryInv, LiveBehind, DownIsClean
  <1>3. CASE UNCHANGED <<memory, due>>
    BY <1>1, <1>2, <1>3 DEF MemoryInv, ReloadKeepsState, Untouched
  <1>4. ASSUME NEW index, Remember(index) PROVE MemoryInv'
    <2>1. ASSUME NEW m \in Modules
          PROVE  /\ live[m] # 0 => memory'[m][live[m]] = due'[m]
                 /\ \A g \in Generations : g >= slot[m] => memory'[m][g] = 0
      <3>1. /\ memory[m] \in [Generations -> Nat] /\ live[m] \in 0 .. MaxGen
            /\ slot[m] \in 1 .. MaxGen + 1 /\ live[m] < slot[m]
        BY DEF KoReloadTypeOK, MemoryInv, LiveBehind
      <3>2. CASE live[m] = 0
        <4>1. memory'[m] = memory[m]
          BY <1>4, <3>2 DEF Remember
        <4> QED
          BY <3>2, <4>1 DEF MemoryInv, Untouched
      <3>3. CASE live[m] # 0
        <4>1. memory'[m] = [memory[m] EXCEPT ![live[m]] = Passed(m, @, index)]
              /\ due'[m] = Passed(m, due[m], index)
          BY <1>4, <3>3 DEF Remember
        <4>2. live[m] \in Generations /\ memory[m][live[m]] = due[m]
          BY <3>1, <3>3 DEF Generations, MemoryInv, ReloadKeepsState
        <4>3. memory'[m][live[m]] = due'[m]
          BY <3>1, <4>1, <4>2
        <4>4. ASSUME NEW g \in Generations, g >= slot[m] PROVE memory'[m][g] = 0
          <5>1. g # live[m]
            BY <3>1, <4>4 DEF Generations
          <5> QED
            BY <3>1, <4>1, <4>4, <5>1 DEF MemoryInv, Untouched
        <4> QED
          BY <4>3, <4>4
      <3> QED
        BY <3>2, <3>3
    <2> QED
      BY <1>1, <1>2, <2>1 DEF MemoryInv, ReloadKeepsState, Untouched
  <1>5. UNCHANGED <<memory, due>> \/ \E index \in Cells("waypoint_cycler") : TickThunk(index)
    BY DEF KoReloadTick
  <1>6. ASSUME NEW index, TickThunk(index) PROVE Remember(index)
    BY <1>6 DEF TickThunk
  <1> QED
    BY <1>3, <1>4, <1>5, <1>6

\* The heart: whichever generation comes up, and however.
LEMMA LoadMemory ==
    ASSUME KoReloadTypeOK, MemoryInv, NEW m \in Modules, NextFile(m), LoadOrReload(m)
    PROVE  ReloadKeepsState' /\ Untouched' /\ LiveBehind'
  <1> DEFINE gen == slot[m]
  <1>1. gen \in Generations /\ gen \in Nat /\ gen # 0
    <2>1. gen \in 1 .. pushed[m] /\ pushed[m] \in 0 .. MaxGen
      BY DEF NextFile, KoreloadModulePath, KoReloadTypeOK
    <2>2. gen \in 1 .. MaxGen
      BY <2>1, KoReloadAssumption
    <2> QED
      BY <2>2, KoReloadAssumption DEF Generations
  <1>2. slot' = [slot EXCEPT ![m] = gen + 1]
    BY DEF LoadOrReload
  <1>3. PICK g \in {gen, live[m], 0} :
          /\ live' = [live EXCEPT ![m] = g]
          /\ IF g \in {live[m], 0} THEN UNCHANGED <<memory, due>> ELSE ComesUp(m, g)
    BY DEF LoadOrReload, Outcomes, KoreloadModulePath
  <1>4. live[m] \in 0 .. MaxGen /\ live[m] < gen
    BY DEF KoReloadTypeOK, MemoryInv, LiveBehind
  <1>5. /\ live'[m] = g /\ slot'[m] = gen + 1
        /\ \A n \in Modules : n # m => live'[n] = live[n] /\ slot'[n] = slot[n]
    BY <1>2, <1>3 DEF KoReloadTypeOK
  <1>6. \A n \in Modules : live[n] \in Nat /\ slot[n] \in Nat /\ live[n] < slot[n]
    BY DEF KoReloadTypeOK, MemoryInv, LiveBehind
  <1>7. LiveBehind'
    <2>1. g < gen + 1
      BY <1>1, <1>3, <1>4
    <2> QED
      BY <1>5, <1>6, <2>1 DEF LiveBehind
  <1> HIDE DEF gen
  <1>8. CASE UNCHANGED <<memory, due>> /\ g \in {live[m], 0}
    <2>1. \A n \in Modules : live'[n] # 0 => live'[n] = live[n]
      BY <1>5, <1>8
    <2>2. ReloadKeepsState'
      BY <1>8, <2>1 DEF MemoryInv, ReloadKeepsState
    <2>3. \A n \in Modules, h \in Generations : h >= slot'[n] => h >= slot[n]
      BY <1>1, <1>5 DEF gen, Generations
    <2>4. Untouched'
      BY <1>8, <2>3 DEF MemoryInv, Untouched
    <2> QED
      BY <1>7, <2>2, <2>4
  <1>9. CASE g = gen /\ ComesUp(m, g)
    <2>1. memory \in [Modules -> [Generations -> Nat]] /\ due \in [Modules -> Nat]
          /\ memory[m][gen] = 0
      BY <1>1 DEF KoReloadTypeOK, MemoryInv, Untouched, gen
    <2>2. /\ memory'[m][gen] = due'[m]
          /\ \A n \in Modules : n # m => memory'[n] = memory[n] /\ due'[n] = due[n]
          /\ \A h \in Generations : h # gen => memory'[m][h] = memory[m][h]
      <3>1. CASE live[m] # 0 /\ due' = due
                 /\ memory' = [memory EXCEPT ![m][gen] = memory[m][live[m]]]
        BY <1>1, <2>1, <3>1 DEF MemoryInv, ReloadKeepsState
      <3>2. ASSUME NEW cell, memory' = [memory EXCEPT ![m][gen] = cell],
                   due' = [due EXCEPT ![m] = cell]
            PROVE  /\ memory'[m][gen] = due'[m]
                   /\ \A n \in Modules : n # m => memory'[n] = memory[n] /\ due'[n] = due[n]
                   /\ \A h \in Generations : h # gen => memory'[m][h] = memory[m][h]
        BY <1>1, <2>1, <3>2
      <3>3. CASE due' = [due EXCEPT ![m] = 0] /\ memory' = memory
        BY <2>1, <3>3
      <3> QED
        BY <1>9, <3>1, <3>2, <3>3 DEF ComesUp, RestoreState
    <2>3. ReloadKeepsState'
      BY <1>5, <1>9, <2>2 DEF MemoryInv, ReloadKeepsState
    <2>4. ASSUME NEW n \in Modules, NEW h \in Generations, h >= slot'[n]
          PROVE  memory'[n][h] = 0
      <3>1. CASE n # m
        BY <1>5, <2>2, <2>4, <3>1 DEF MemoryInv, Untouched
      <3>2. CASE n = m
        <4>1. h >= gen /\ h # gen
          BY <1>1, <1>5, <2>4, <3>2 DEF Generations
        <4> QED
          BY <2>2, <3>2, <4>1 DEF MemoryInv, Untouched, gen
      <3> QED
        BY <3>1, <3>2
    <2> QED
      BY <1>7, <2>3, <2>4 DEF Untouched
  <1> QED
    BY <1>3, <1>8, <1>9

LEMMA PollMemory ==
    ASSUME KoReloadTypeOK, MemoryInv, NEW m \in Modules, PollKoreloadModule(m) PROVE MemoryInv'
  <1>1. poll = m /\ m # "none" /\ up' = up
    BY DEF PollKoreloadModule, Modules, vars
  <1>2. up
    BY <1>1 DEF MemoryInv, DownIsClean
  <1>3. DownIsClean'
    BY <1>1, <1>2 DEF DownIsClean
  <1>4. CASE NextFile(m) /\ LoadOrReload(m)
    BY <1>3, <1>4, LoadMemory DEF MemoryInv
  <1>5. CASE UNCHANGED <<slot, opened, live, memory, due>>
    BY <1>3, <1>5 DEF MemoryInv, ReloadKeepsState, Untouched, LiveBehind
  <1> QED
    BY <1>4, <1>5 DEF PollKoreloadModule

LEMMA KillMemory == ASSUME KoReloadKill PROVE MemoryInv'
  <1>1. /\ memory' = NoMemory /\ due' = [m \in Modules |-> 0] /\ poll' = "none"
        /\ live' = [m \in Modules |-> 0] /\ slot' = [m \in Modules |-> 1]
    BY DEF KoReloadKill
  <1>2. \A m \in Modules : live'[m] = 0 /\ slot'[m] = 1
    BY <1>1
  <1>3. ReloadKeepsState' /\ LiveBehind'
    BY <1>2 DEF ReloadKeepsState, LiveBehind
  <1>4. Untouched' /\ DownIsClean'
    BY <1>1 DEF Untouched, DownIsClean, NoMemory
  <1> QED
    BY <1>3, <1>4 DEF MemoryInv

LEMMA OtherMemory ==
    ASSUME MemoryInv, UNCHANGED <<up, slot, live, poll, memory, due>> PROVE MemoryInv'
  BY DEF MemoryInv, ReloadKeepsState, Untouched, LiveBehind, DownIsClean

\* save_state(), restore_state() and the path of each generation: what is handed
\* over is what the live generation remembers, what is not handed over starts with
\* its initializers, and no library is mapped a second time with a memory of before.
THEOREM StateSurvives == KoReloadSpec => []ReloadKeepsState
  <1>1. KoReloadTypeOK /\ MemoryInv /\ [KoReloadNext]_<<vars, moduleVars>> => MemoryInv'
    <2> SUFFICES ASSUME KoReloadTypeOK, MemoryInv, [KoReloadNext]_<<vars, moduleVars>>
                 PROVE  MemoryInv'
      OBVIOUS
    <2>1. CASE BetweenFrames \/ (\E m \in Modules : Push(m)) \/ UNCHANGED <<vars, moduleVars>>
      <3>1. UNCHANGED <<up, slot, live, poll, memory, due>>
        BY <2>1 DEF BetweenFrames, Push, Snapshot, OnWindowResized, AimFollowerAt, vars, moduleVars
      <3> QED
        BY <3>1, OtherMemory
    <2> QED
      BY <2>1, StartedMemory, TickMemory, PollMemory, KillMemory DEF KoReloadNext
  <1>2. MemoryInv => ReloadKeepsState
    BY DEF MemoryInv
  <1> QED
    BY <1>1, <1>2, InitMemory, ModulesTyped, PTL DEF KoReloadSpec
=============================================================================
