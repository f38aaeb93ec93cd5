------------------------- MODULE ServiceLifecycleProofs -------------------------
(***************************************************************************)
(* The hooks of a replica against the goroutines they start, for any       *)
(* number of replicas and commands and any combination of *.enabled.       *)
(***************************************************************************)
EXTENDS ServiceLifecycle, TLAPS

Modes == {"building", "starting", "running", "aborting", "stopping", "exited"}
Alive == {"idle", "busy"}

\* The hooks that have started and have not stopped.
Up(p) == {Hooks[i] : i \in 1..started[p]}

LifecycleTypes ==
  /\ mode \in [Replicas -> Modes]
  /\ built \in [Replicas -> 0..10] /\ started \in [Replicas -> 0..10]
  /\ open \in [Replicas -> SUBSET Resources]
  /\ routine \in [Replicas -> [Goroutines -> {"none", "idle", "busy", "ended"}]]
  /\ cancelled \in [Replicas -> SUBSET {Hooks[i] : i \in 1..10}]
  /\ left \in [Replicas -> Nat] /\ patience \in [Replicas -> Nat]

\* Hooks start only once everything is constructed, and are all started when
\* the replica runs.
Progress ==
  \A p \in Replicas :
    /\ mode[p] = "starting" => started[p] < 10
    /\ mode[p] = "aborting" => started[p] = 6
    /\ mode[p] = "building" => started[p] = 0

\* No goroutine before the first hook, none after the exit.
QuietOutside ==
  \A p \in Replicas : mode[p] \in {"building", "exited"} => \A g \in Goroutines : routine[p][g] = "none"

\* Construction opens everything; the rollback closes it from the last hook on.
Connected ==
  \A p \in Replicas :
    /\ mode[p] = "building" => {Hooks[i] : i \in 1..built[p]} \cap Resources \subseteq open[p]
    /\ mode[p] \in {"starting", "running", "aborting"} => open[p] = Resources
    /\ mode[p] = "stopping" => Up(p) \cap Resources \subseteq open[p]

\* A hook that is up is asked to stop only once all hooks above it have stopped.
InOrder ==
  \A p \in Replicas :
    /\ mode[p] \notin {"aborting", "stopping"} => cancelled[p] = {}
    /\ \A i \in 1..(started[p] - 1) : Hooks[i] \notin cancelled[p]

\* Worker.Stop loses no more time than the context in which it is called.
Patient ==
  \A p \in Replicas :
    /\ mode[p] # "stopping" => patience[p] = WorkerStopTimeout
    /\ left[p] =< ShutdownTimeout
    /\ left[p] + WorkerStopTimeout =< patience[p] + ShutdownTimeout

\* The context is over and no hook is being stopped: fx does not go on.
Halted(p) == left[p] = 0 /\ Hooks[started[p]] \notin cancelled[p]

\* The worker's hook has given up waiting.
WorkerLeft(p) ==
  /\ mode[p] = "stopping" /\ started[p] < 6 /\ patience[p] = 0
  /\ WorkerStopTimeout >= ShutdownTimeout => started[p] = 5 /\ Halted(p)

\* The hook of a server has given up waiting.
ServerLeft(p) == mode[p] = "stopping" /\ started[p] \in 8..9 /\ Halted(p)

\* A goroutine that is alive has its hook up, or its hook has given up waiting
\* for it; those of a start that fails are the first two of the event runtime.
Keeper(p, g) ==
  \/ \E i \in 1..started[p] : g \in Spawns(Hooks[i])
  \/ mode[p] = "aborting" /\ g \in {"dispatch", "cleanup"}
  \/ g = "worker" /\ WorkerLeft(p)
  \/ g \in {"grpc", "http"} /\ ServerLeft(p)

Attended == \A p \in Replicas, g \in Goroutines : routine[p][g] \in Alive => Keeper(p, g)

LifecycleInv ==
  LifecycleTypes /\ Progress /\ QuietOutside /\ Connected /\ InOrder /\ Patient /\ Attended

(* -- The tables -------------------------------------------------------------------- *)

LEMMA HookTable ==
  /\ Len(Hooks) = 10
  /\ Hooks[1] = "logger" /\ Hooks[2] = "database" /\ Hooks[3] = "redis" /\ Hooks[4] = "bus"
  /\ Hooks[5] = "outbound" /\ Hooks[6] = "temporal" /\ Hooks[7] = "events" /\ Hooks[8] = "retention"
  /\ Hooks[9] = "grpc" /\ Hooks[10] = "http"
BY DEF Hooks

LEMMA HooksDiffer == \A i, j \in 1..10 : Hooks[i] = Hooks[j] => i = j
<1> SUFFICES ASSUME NEW i \in 1..10, NEW j \in 1..10, Hooks[i] = Hooks[j] PROVE i = j
  OBVIOUS
<1>1. i \in {1, 2, 3, 4, 5, 6, 7, 8, 9, 10} /\ j \in {1, 2, 3, 4, 5, 6, 7, 8, 9, 10}
  OBVIOUS
<1> QED BY <1>1, HookTable

LEMMA ConnectionsAreHooks == Resources \subseteq {Hooks[i] : i \in 1..10}
<1>1. 1 \in 1..10 /\ 2 \in 1..10 /\ 3 \in 1..10 /\ 4 \in 1..10 /\ 5 \in 1..10 /\ 6 \in 1..10
  OBVIOUS
<1> SUFFICES ASSUME NEW x \in Resources PROVE \E i \in 1..10 : x = Hooks[i]
  OBVIOUS
<1> QED BY <1>1, HookTable DEF Resources

\* app.New constructs what a goroutine uses before the hook that starts it.
LEMMA UsesComeFirst ==
  ASSUME NEW i \in 1..10, NEW g \in Spawns(Hooks[i])
  PROVE  Uses[g] \subseteq {Hooks[j] : j \in 1..i} \cap Resources
<1>1. i \in {1, 2, 3, 4, 5, 6, 7, 8, 9, 10}
  OBVIOUS
<1>2. \/ i = 6 /\ g = "worker"
      \/ i = 7 /\ g \in {"dispatch", "cleanup", "consume"}
      \/ i = 8 /\ g = "cleaner"
      \/ i = 9 /\ g = "grpc"
      \/ i = 10 /\ g = "http"
  BY <1>1, HookTable DEF Spawns
<1>3. /\ Uses["worker"] = {"database", "outbound", "temporal"}
      /\ Uses["dispatch"] = {"database", "bus"} /\ Uses["cleanup"] = {"database"}
      /\ Uses["consume"] = {"bus", "temporal"} /\ Uses["cleaner"] = {"database"}
      /\ Uses["grpc"] = {"database", "redis", "outbound"} /\ Uses["http"] = {"database", "redis", "outbound"}
  BY DEF Uses
<1>4. i \in 6..10
  BY <1>2
<1>5. /\ "database" \in {Hooks[j] : j \in 1..i} /\ "redis" \in {Hooks[j] : j \in 1..i}
      /\ "bus" \in {Hooks[j] : j \in 1..i} /\ "outbound" \in {Hooks[j] : j \in 1..i}
      /\ "temporal" \in {Hooks[j] : j \in 1..i}
  <2>1. 2 \in 1..i /\ 3 \in 1..i /\ 4 \in 1..i /\ 5 \in 1..i /\ 6 \in 1..i
    BY <1>4
  <2> QED BY <2>1, HookTable
<1>6. Uses[g] \subseteq {"database", "redis", "bus", "outbound", "temporal"}
  BY <1>2, <1>3
<1> QED BY <1>5, <1>6 DEF Resources

LEMMA SpawnTable ==
  ASSUME NEW i \in 1..10, NEW g \in Spawns(Hooks[i])
  PROVE  /\ Hooks[i] = "temporal" => i = 6 /\ g = "worker"
         /\ Hooks[i] = "grpc" => i = 9 /\ g = "grpc"
         /\ Hooks[i] = "http" => i = 10 /\ g = "http"
<1>1. i \in {1, 2, 3, 4, 5, 6, 7, 8, 9, 10}
  OBVIOUS
<1> QED BY <1>1, HookTable DEF Spawns

LEMMA AbortUses == Uses["dispatch"] \subseteq Resources /\ Uses["cleanup"] \subseteq Resources
BY DEF Uses, Resources

(* -- What a step can do -------------------------------------------------------------- *)

\* What keeps a goroutine is a matter of its own replica.
LEMMA KeeperFrame ==
  ASSUME NEW o \in Replicas, NEW g \in Goroutines, Keeper(o, g),
         mode'[o] = mode[o], started'[o] = started[o], cancelled'[o] = cancelled[o],
         left'[o] = left[o], patience'[o] = patience[o]
  PROVE  Keeper(o, g)'
BY DEF Keeper, WorkerLeft, ServerLeft, Halted

\* The goroutines of a replica go on: none comes to life that was not alive.
RoutineStep(p) ==
  /\ UNCHANGED <<mode, built, started, open, cancelled, timers>>
  /\ \E g \in Goroutines, s \in {"idle", "busy", "ended"} :
       /\ routine[p][g] \in Alive
       /\ routine' = [routine EXCEPT ![p][g] = s]

LEMMA RoutineKeeps ==
  ASSUME LifecycleInv, NEW p \in Replicas, RoutineStep(p)
  PROVE  LifecycleInv'
<1> USE DEF LifecycleInv
<1>1. PICK g \in Goroutines, s \in {"idle", "busy", "ended"} :
        routine[p][g] \in Alive /\ routine' = [routine EXCEPT ![p][g] = s]
  BY DEF RoutineStep
<1>2. UNCHANGED <<mode, built, started, open, cancelled, left, patience>>
  BY DEF RoutineStep, timers
<1>3. /\ routine' \in [Replicas -> [Goroutines -> {"none", "idle", "busy", "ended"}]]
      /\ \A o \in Replicas, h \in Goroutines :
           routine'[o][h] = IF o = p /\ h = g THEN s ELSE routine[o][h]
  BY <1>1 DEF LifecycleTypes
<1>4. LifecycleTypes' /\ Progress'
  BY <1>2, <1>3 DEF LifecycleTypes, Progress
<1>5. QuietOutside'
  <2>1. mode[p] \notin {"building", "exited"}
    BY <1>1 DEF QuietOutside, Alive
  <2> QED BY <1>2, <1>3, <2>1 DEF QuietOutside
<1>6. Connected' /\ InOrder' /\ Patient'
  BY <1>2 DEF Connected, Up, InOrder, Patient
<1>7. Attended'
  <2>1. \A o \in Replicas, h \in Goroutines : routine'[o][h] \in Alive => routine[o][h] \in Alive
    BY <1>1, <1>3
  <2> QED BY <1>2, <2>1, KeeperFrame DEF Attended
<1> QED BY <1>4, <1>5, <1>6, <1>7

LEMMA RoutineView ==
  ASSUME LifecycleInv, NEW p \in Replicas,
         (\E g \in Goroutines : Loop(p, g)) \/ Dispatch(p) \/ Consume(p) \/ ConsumeReturns(p)
  PROVE  RoutineStep(p)
<1>1. {"dispatch", "consume"} \subseteq Goroutines /\ {"idle", "busy"} \subseteq Alive
  BY DEF Goroutines, Alive
<1>2. ASSUME NEW g \in Goroutines, Loop(p, g) PROVE RoutineStep(p)
  BY <1>1, <1>2 DEF Loop, Begin, EndRound, EndLoop, Set, RoutineStep
<1>3. CASE Dispatch(p)
  BY <1>1, <1>3 DEF Dispatch, RunOnce, RunOnceFails, Set, RoutineStep
<1>4. CASE Consume(p)
  BY <1>1, <1>4 DEF Consume, Handle, HandleFails, NothingToHandle, Set, RoutineStep
<1>5. CASE ConsumeReturns(p)
  BY <1>1, <1>5 DEF ConsumeReturns, Set, RoutineStep
<1> QED BY <1>2, <1>3, <1>4, <1>5

\* A replica is gone with its connections and goroutines.
LEMMA GoneKeeps ==
  ASSUME LifecycleInv, NEW p \in Replicas, Gone(p)
  PROVE  LifecycleInv'
<1> USE DEF LifecycleInv
<1> DEFINE none == [g \in Goroutines |-> "none"]
<1>1. /\ UNCHANGED <<built, started>>
      /\ mode' \in [Replicas -> Modes] /\ open' \in [Replicas -> SUBSET Resources]
      /\ cancelled' \in [Replicas -> SUBSET {Hooks[i] : i \in 1..10}]
      /\ \A o \in Replicas : mode'[o] = IF o = p THEN "exited" ELSE mode[o]
      /\ \A o \in Replicas : o # p => open'[o] = open[o] /\ cancelled'[o] = cancelled[o]
      /\ cancelled'[p] = {}
  BY DEF Gone, LifecycleTypes, Modes
<1>0. /\ left' \in [Replicas -> Nat] /\ patience' \in [Replicas -> Nat]
      /\ left'[p] = ShutdownTimeout /\ patience'[p] = WorkerStopTimeout
      /\ \A o \in Replicas : o # p => left'[o] = left[o] /\ patience'[o] = patience[o]
  BY TimeoutAssumption DEF Gone, LifecycleTypes
<1>2. /\ routine' \in [Replicas -> [Goroutines -> {"none", "idle", "busy", "ended"}]]
      /\ \A o \in Replicas : routine'[o] = IF o = p THEN none ELSE routine[o]
  BY DEF Gone, LifecycleTypes
<1>3. \A g \in Goroutines : none[g] = "none"
  OBVIOUS
<1> HIDE DEF none
<1>4. LifecycleTypes' /\ Progress'
  BY <1>0, <1>1, <1>2 DEF LifecycleTypes, Progress
<1>5. QuietOutside'
  BY <1>1, <1>2, <1>3 DEF QuietOutside
<1>6. Connected' /\ InOrder' /\ Patient'
  <2>1. Connected'
    BY <1>1 DEF Connected, Up
  <2>2. InOrder'
    BY <1>1 DEF InOrder
  <2>3. Patient'
    BY <1>0, <1>1, TimeoutAssumption DEF Patient
  <2> QED BY <2>1, <2>2, <2>3
<1>7. Attended'
  <2> SUFFICES ASSUME NEW o \in Replicas, NEW g \in Goroutines, routine'[o][g] \in Alive
               PROVE  Keeper(o, g)'
    BY DEF Attended
  <2>1. o # p
    BY <1>2, <1>3 DEF Alive
  <2> QED BY <1>0, <1>1, <1>2, <2>1, KeeperFrame DEF Attended
<1> QED BY <1>4, <1>5, <1>6, <1>7

LEMMA ConstructKeeps ==
  ASSUME LifecycleInv, NEW p \in Replicas, Construct(p)
  PROVE  LifecycleInv'
<1> USE DEF LifecycleInv
<1> DEFINE n == built[p] + 1
           m == IF n = 10 THEN "starting" ELSE "building"
           added == {Hooks[n]} \cap Resources
<1>1. mode[p] = "building" /\ built[p] \in 0..10 /\ built[p] < 10 /\ started[p] = 0 /\ n \in 1..10
  BY HookTable DEF Construct, LifecycleTypes, Progress
<1>2. /\ UNCHANGED <<started, routine, cancelled, left, patience>>
      /\ \A o \in Replicas : built'[o] = IF o = p THEN n ELSE built[o]
      /\ \A o \in Replicas : open'[o] = IF o = p THEN open[p] \cup added ELSE open[o]
      /\ \A o \in Replicas : mode'[o] = IF o = p THEN m ELSE mode[o]
  BY <1>1, HookTable DEF Construct, LifecycleTypes, timers
<1>3. LifecycleTypes'
  <2>1. mode' \in [Replicas -> Modes]
    BY DEF Construct, LifecycleTypes, Modes
  <2>2. built' \in [Replicas -> 0..10]
    BY <1>1 DEF Construct, LifecycleTypes
  <2>3. open' \in [Replicas -> SUBSET Resources]
    BY DEF Construct, LifecycleTypes
  <2> QED BY <1>2, <2>1, <2>2, <2>3 DEF LifecycleTypes
<1>4. Progress' /\ QuietOutside' /\ InOrder' /\ Patient'
  BY <1>1, <1>2 DEF Progress, QuietOutside, InOrder, Patient
<1>5. Connected'
  <2>1. {Hooks[i] : i \in 1..n} \cap Resources \subseteq open'[p]
    <3> SUFFICES ASSUME NEW i \in 1..n, Hooks[i] \in Resources PROVE Hooks[i] \in open'[p]
      OBVIOUS
    <3>1. CASE i = n
      BY <1>2, <3>1
    <3>2. CASE i # n
      <4>1. i \in 1..built[p]
        BY <1>1, <3>2
      <4> QED BY <1>1, <1>2, <4>1 DEF Connected
    <3> QED BY <3>1, <3>2
  <2>2. n = 10 => open'[p] = Resources
    <3>1. open'[p] \subseteq Resources
      BY <1>3 DEF LifecycleTypes
    <3> QED BY <2>1, <3>1, ConnectionsAreHooks
  <2>3. m = "building" \/ (m = "starting" /\ n = 10)
    OBVIOUS
  <2> HIDE DEF m, n, added
  <2> QED BY <1>2, <2>1, <2>2, <2>3 DEF Connected, Up
<1>6. Attended'
  <2> SUFFICES ASSUME NEW o \in Replicas, NEW g \in Goroutines, routine'[o][g] \in Alive
               PROVE  Keeper(o, g)'
    BY DEF Attended
  <2>1. o # p
    BY <1>1, <1>2 DEF QuietOutside, Alive
  <2> HIDE DEF n, m, added
  <2> QED BY <1>2, <2>1, KeeperFrame DEF Attended
<1> QED BY <1>3, <1>4, <1>5, <1>6

LEMMA OnStartKeeps ==
  ASSUME LifecycleInv, NEW p \in Replicas, OnStart(p)
  PROVE  LifecycleInv'
<1> USE DEF LifecycleInv
<1> DEFINE n == started[p] + 1
           m == IF n = 10 THEN "running" ELSE "starting"
           spawned == [g \in Goroutines |-> IF g \in Spawns(Hooks[n]) THEN "idle" ELSE routine[p][g]]
<1>1. mode[p] = "starting" /\ started[p] \in 0..9 /\ n \in 1..10
  BY DEF OnStart, LifecycleTypes, Progress
<1>2. /\ UNCHANGED <<built, open, cancelled, left, patience>>
      /\ \A o \in Replicas : started'[o] = IF o = p THEN n ELSE started[o]
      /\ \A o \in Replicas : routine'[o] = IF o = p THEN spawned ELSE routine[o]
      /\ \A o \in Replicas : mode'[o] = IF o = p THEN m ELSE mode[o]
  BY <1>1, HookTable DEF OnStart, LifecycleTypes, timers
<1>3. LifecycleTypes'
  <2>1. mode' \in [Replicas -> Modes]
    BY DEF OnStart, LifecycleTypes, Modes
  <2>2. started' \in [Replicas -> 0..10]
    BY <1>1 DEF OnStart, LifecycleTypes
  <2>3. routine' \in [Replicas -> [Goroutines -> {"none", "idle", "busy", "ended"}]]
    BY DEF OnStart, LifecycleTypes
  <2> QED BY <1>2, <2>1, <2>2, <2>3 DEF LifecycleTypes
<1>4. m = "running" \/ (m = "starting" /\ n < 10)
  BY <1>1
<1>5. ASSUME NEW g \in Goroutines, spawned[g] \in Alive
      PROVE  \E i \in 1..n : g \in Spawns(Hooks[i])
  <2>1. CASE g \in Spawns(Hooks[n])
    BY <1>1, <2>1
  <2>2. CASE g \notin Spawns(Hooks[n])
    <3>1. routine[p][g] \in Alive
      BY <1>5, <2>2
    <3>2. PICK i \in 1..started[p] : g \in Spawns(Hooks[i])
      BY <1>1, <3>1 DEF Attended, Keeper, WorkerLeft, ServerLeft
    <3>3. i \in 1..n
      BY <1>1
    <3> QED BY <3>2, <3>3
  <2> QED BY <2>1, <2>2
<1> HIDE DEF n, m, spawned
<1>6. Progress' /\ QuietOutside'
  BY <1>1, <1>2, <1>4 DEF Progress, QuietOutside
<1>7. Connected' /\ InOrder' /\ Patient'
  BY <1>1, <1>2, <1>4 DEF Connected, Up, InOrder, Patient
<1>8. Attended'
  <2> SUFFICES ASSUME NEW o \in Replicas, NEW g \in Goroutines, routine'[o][g] \in Alive
               PROVE  Keeper(o, g)'
    BY DEF Attended
  <2>1. CASE o = p
    BY <1>2, <1>5, <2>1 DEF Keeper
  <2>2. CASE o # p
    BY <1>2, <2>2, KeeperFrame DEF Attended
  <2> QED BY <2>1, <2>2
<1> QED BY <1>3, <1>6, <1>7, <1>8

\* The command handler is refused: the two goroutines are alive until the
\* start has waited for them.
LEMMA AbortsKeeps ==
  ASSUME LifecycleInv, NEW p \in Replicas, OnStartAborts(p)
  PROVE  LifecycleInv'
<1> USE DEF LifecycleInv
<1>1. mode[p] = "starting" /\ UNCHANGED <<built, started, open, left, patience>>
  BY DEF OnStartAborts, timers
<1>2. started[p] = 6
  <2>1. started[p] + 1 \in 1..10 /\ 7 \in 1..10
    BY <1>1 DEF LifecycleTypes, Progress
  <2>2. Hooks[started[p] + 1] = Hooks[7]
    BY HookTable DEF OnStartAborts
  <2>3. started[p] + 1 = 7
    BY <2>1, <2>2, HooksDiffer
  <2> QED BY <2>3 DEF LifecycleTypes
<1>3. PICK first \in Alive, second \in Alive :
        routine' = [routine EXCEPT ![p]["dispatch"] = first, ![p]["cleanup"] = second]
  BY DEF OnStartAborts, Alive
<1>4. /\ \A o \in Replicas : mode'[o] = IF o = p THEN "aborting" ELSE mode[o]
      /\ mode' \in [Replicas -> Modes]
  BY DEF OnStartAborts, LifecycleTypes, Modes
<1>5. /\ cancelled' \in [Replicas -> SUBSET {Hooks[i] : i \in 1..10}]
      /\ cancelled'[p] = cancelled[p] \cup {"events"}
      /\ \A o \in Replicas : o # p => cancelled'[o] = cancelled[o]
  <2>1. "events" \in {Hooks[i] : i \in 1..10}
    <3>1. 7 \in 1..10
      OBVIOUS
    <3> QED BY <3>1, HookTable
  <2> QED BY <2>1 DEF OnStartAborts, LifecycleTypes
<1>6. /\ routine' \in [Replicas -> [Goroutines -> {"none", "idle", "busy", "ended"}]]
      /\ \A o \in Replicas, g \in Goroutines :
           o # p \/ g \notin {"dispatch", "cleanup"} => routine'[o][g] = routine[o][g]
  BY <1>3 DEF LifecycleTypes, Goroutines, Alive
<1>7. LifecycleTypes' /\ Progress'
  BY <1>1, <1>2, <1>4, <1>5, <1>6 DEF LifecycleTypes, Progress
<1>8. QuietOutside'
  BY <1>4, <1>6 DEF QuietOutside
<1>9. Connected' /\ InOrder' /\ Patient'
  <2>1. Connected' /\ Patient'
    BY <1>1, <1>4 DEF Connected, Up, Patient
  <2>2. \A i \in 1..5 : Hooks[i] # "events"
    <3>1. \A i \in 1..5 : i \in 1..10 /\ 7 \in 1..10 /\ i # 7
      OBVIOUS
    <3> QED BY <3>1, HooksDiffer, HookTable
  <2>3. InOrder'
    BY <1>1, <1>2, <1>4, <1>5, <2>2 DEF InOrder
  <2> QED BY <2>1, <2>3
<1>10. Attended'
  <2> SUFFICES ASSUME NEW o \in Replicas, NEW g \in Goroutines, routine'[o][g] \in Alive
               PROVE  Keeper(o, g)'
    BY DEF Attended
  <2>1. CASE o = p /\ g \in {"dispatch", "cleanup"}
    BY <1>4, <2>1 DEF Keeper
  <2>2. CASE o = p /\ g \notin {"dispatch", "cleanup"}
    <3>1. \E i \in 1..started[p] : g \in Spawns(Hooks[i])
      BY <1>1, <1>6, <2>2 DEF Attended, Keeper, WorkerLeft, ServerLeft
    <3> QED BY <1>1, <2>2, <3>1 DEF Keeper
  <2>3. CASE o # p
    BY <1>1, <1>4, <1>5, <1>6, <2>3, KeeperFrame DEF Attended
  <2> QED BY <2>1, <2>2, <2>3
<1> QED BY <1>7, <1>8, <1>9, <1>10

\* A signal, a start that fails, and one that has waited after its abort.
LEMMA TurnsBackKeeps ==
  ASSUME LifecycleInv, NEW p \in Replicas, Aborted(p) \/ OnStartFails(p) \/ Signal(p)
  PROVE  LifecycleInv'
<1> USE DEF LifecycleInv
<1>1. /\ UNCHANGED <<built, started, open, routine, cancelled>>
      /\ mode[p] \in {"starting", "running", "aborting"}
      /\ mode[p] = "aborting" => \A g \in {"dispatch", "cleanup"} : routine[p][g] = "ended"
      /\ mode' = [mode EXCEPT ![p] = "stopping"]
  BY DEF Aborted, OnStartFails, Signal
<1>2. /\ \A o \in Replicas : mode'[o] = IF o = p THEN "stopping" ELSE mode[o]
      /\ mode' \in [Replicas -> Modes]
  BY <1>1 DEF LifecycleTypes, Modes
<1>3. /\ UNCHANGED patience /\ left' \in [Replicas -> Nat]
      /\ \A o \in Replicas : o # p => left'[o] = left[o]
      /\ left'[p] =< ShutdownTimeout
  BY TimeoutAssumption DEF Aborted, OnStartFails, Signal, timers, LifecycleTypes, Patient
<1>4. LifecycleTypes' /\ Progress' /\ QuietOutside'
  BY <1>1, <1>2, <1>3 DEF LifecycleTypes, Progress, QuietOutside
<1>5. Connected' /\ InOrder' /\ Patient'
  <2>1. Connected' /\ InOrder'
    BY <1>1, <1>2 DEF Connected, Up, InOrder
  <2>2. Patient'
    BY <1>1, <1>2, <1>3, TimeoutAssumption DEF Patient, LifecycleTypes
  <2> QED BY <2>1, <2>2
<1>6. Attended'
  <2> SUFFICES ASSUME NEW o \in Replicas, NEW g \in Goroutines, routine[o][g] \in Alive
               PROVE  Keeper(o, g)'
    BY <1>1 DEF Attended
  <2>1. CASE o = p
    <3>1. \E i \in 1..started[p] : g \in Spawns(Hooks[i])
      BY <1>1, <2>1 DEF Attended, Keeper, WorkerLeft, ServerLeft, Alive
    <3> QED BY <1>1, <2>1, <3>1 DEF Keeper
  <2>2. CASE o # p
    BY <1>1, <1>2, <1>3, <2>2, KeeperFrame DEF Attended
  <2> QED BY <2>1, <2>2
<1> QED BY <1>4, <1>5, <1>6

LEMMA OnStopKeeps ==
  ASSUME LifecycleInv, NEW p \in Replicas, OnStop(p)
  PROVE  LifecycleInv'
<1> USE DEF LifecycleInv
<1>1. /\ UNCHANGED <<mode, built, started, open, routine, left, patience>>
      /\ mode[p] = "stopping" /\ started[p] \in 1..10 /\ left[p] > 0
  BY DEF OnStop, timers, LifecycleTypes
<1>2. /\ cancelled' \in [Replicas -> SUBSET {Hooks[i] : i \in 1..10}]
      /\ cancelled'[p] = cancelled[p] \cup {Hooks[started[p]]}
      /\ \A o \in Replicas : o # p => cancelled'[o] = cancelled[o]
  <2>1. Last(p) \in {Hooks[i] : i \in 1..10}
    BY <1>1 DEF Last
  <2> QED BY <2>1 DEF OnStop, LifecycleTypes, Last
<1>3. LifecycleTypes' /\ Progress' /\ QuietOutside' /\ Connected' /\ Patient'
  BY <1>1, <1>2 DEF LifecycleTypes, Progress, QuietOutside, Connected, Up, Patient
<1>4. InOrder'
  <2>1. \A i \in 1..(started[p] - 1) : Hooks[i] # Hooks[started[p]]
    BY <1>1, HooksDiffer
  <2> QED BY <1>1, <1>2, <2>1 DEF InOrder
<1>5. Attended'
  <2> SUFFICES ASSUME NEW o \in Replicas, NEW g \in Goroutines, routine[o][g] \in Alive
               PROVE  Keeper(o, g)'
    BY <1>1 DEF Attended
  <2>1. CASE o = p
    BY <1>1, <2>1 DEF Attended, Keeper, WorkerLeft, ServerLeft, Halted
  <2>2. CASE o # p
    BY <1>1, <1>2, <2>2, KeeperFrame DEF Attended
  <2> QED BY <2>1, <2>2
<1> QED BY <1>3, <1>4, <1>5

\* Time passes: a hook that has given up by then had no time left before.
LEMMA TickKeeps ==
  ASSUME LifecycleInv, NEW p \in Replicas, Tick(p)
  PROVE  LifecycleInv'
<1> USE DEF LifecycleInv
<1>1. /\ UNCHANGED <<mode, built, started, open, routine, cancelled>> /\ left[p] > 0
      /\ left' \in [Replicas -> Nat] /\ patience' \in [Replicas -> Nat]
      /\ left'[p] = left[p] - 1
      /\ patience'[p] \in {patience[p], patience[p] - 1}
      /\ patience[p] = 0 \/ mode[p] # "stopping" => patience'[p] = patience[p]
      /\ \A o \in Replicas : o # p => left'[o] = left[o] /\ patience'[o] = patience[o]
  BY DEF Tick, LifecycleTypes, StopsWorker
<1>2. LifecycleTypes' /\ Progress' /\ QuietOutside' /\ Connected' /\ InOrder'
  BY <1>1 DEF LifecycleTypes, Progress, QuietOutside, Connected, Up, InOrder
<1>3. Patient'
  <2> SUFFICES ASSUME NEW o \in Replicas
               PROVE  /\ mode[o] # "stopping" => patience'[o] = WorkerStopTimeout
                      /\ left'[o] =< ShutdownTimeout
                      /\ left'[o] + WorkerStopTimeout =< patience'[o] + ShutdownTimeout
    BY <1>1 DEF Patient
  <2>1. CASE o = p
    BY <1>1, <2>1, TimeoutAssumption DEF Patient, LifecycleTypes
  <2>2. CASE o # p
    BY <1>1, <2>2 DEF Patient
  <2> QED BY <2>1, <2>2
<1>4. Attended'
  <2> SUFFICES ASSUME NEW o \in Replicas, NEW g \in Goroutines, routine[o][g] \in Alive
               PROVE  Keeper(o, g)'
    BY <1>1 DEF Attended
  <2>1. CASE o = p
    BY <1>1, <2>1 DEF Attended, Keeper, WorkerLeft, ServerLeft, Halted
  <2>2. CASE o # p
    BY <1>1, <2>2, KeeperFrame DEF Attended
  <2> QED BY <2>1, <2>2
<1> QED BY <1>2, <1>3, <1>4

\* A hook that has stopped takes its connection and its goroutines with it, and
\* leaves the others theirs; a hook that has given up leaves its goroutine with
\* no time to stop more, unless worker_stop_timeout is the shorter one.
LEMMA OnStopReturnsKeeps ==
  ASSUME LifecycleInv, NEW p \in Replicas, OnStopReturns(p)
  PROVE  LifecycleInv'
<1> USE DEF LifecycleInv
<1> DEFINE n == started[p]
<1>1. /\ mode[p] = "stopping" /\ n \in 1..10
      /\ UNCHANGED <<mode, built, routine, cancelled, left, patience>>
      /\ Hooks[n] \in cancelled[p]
      /\ \/ \A g \in Spawns(Hooks[n]) : routine[p][g] \in {"none", "ended"}
         \/ Hooks[n] = "temporal" /\ patience[p] = 0
         \/ Hooks[n] \in {"grpc", "http"} /\ left[p] = 0
  BY DEF OnStopReturns, LifecycleTypes, Waited, GivesUp, Last, timers
<1>2. /\ \A o \in Replicas : started'[o] = IF o = p THEN n - 1 ELSE started[o]
      /\ \A o \in Replicas : open'[o] = IF o = p THEN open[p] \ {Hooks[n]} ELSE open[o]
  BY DEF OnStopReturns, LifecycleTypes, Last
<1>3. LifecycleTypes'
  <2>1. started' \in [Replicas -> 0..10]
    BY <1>1 DEF OnStopReturns, LifecycleTypes
  <2>2. open' \in [Replicas -> SUBSET Resources]
    BY DEF OnStopReturns, LifecycleTypes
  <2> QED BY <1>1, <2>1, <2>2 DEF LifecycleTypes
<1>4. Progress' /\ QuietOutside' /\ InOrder' /\ Patient'
  <2>1. Progress' /\ QuietOutside' /\ Patient'
    BY <1>1, <1>2 DEF Progress, QuietOutside, Patient
  <2>2. InOrder'
    BY <1>1, <1>2 DEF InOrder
  <2> QED BY <2>1, <2>2
<1>5. Connected'
  <2>1. Up(p)' \cap Resources \subseteq open'[p]
    <3> SUFFICES ASSUME NEW i \in 1..(n - 1), Hooks[i] \in Resources PROVE Hooks[i] \in open'[p]
      BY <1>2 DEF Up
    <3>1. i \in 1..n /\ i \in 1..10 /\ i # n
      BY <1>1
    <3>2. Hooks[i] # Hooks[n]
      BY <1>1, <3>1, HooksDiffer
    <3>3. Hooks[i] \in open[p]
      BY <1>1, <3>1 DEF Connected, Up
    <3> QED BY <1>2, <3>2, <3>3
  <2> QED BY <1>1, <1>2, <2>1 DEF Connected, Up
<1>6. Attended'
  <2> SUFFICES ASSUME NEW o \in Replicas, NEW g \in Goroutines, routine[o][g] \in Alive
               PROVE  Keeper(o, g)'
    BY <1>1 DEF Attended
  <2>1. CASE o # p
    BY <1>1, <1>2, <2>1, KeeperFrame DEF Attended
  <2>2. CASE o = p /\ \E i \in 1..n : g \in Spawns(Hooks[i])
    <3>1. PICK i \in 1..n : g \in Spawns(Hooks[i])
      BY <2>2
    <3>2. CASE i # n
      <4>1. i \in 1..(n - 1)
        BY <1>1, <3>2
      <4> QED BY <1>2, <2>2, <3>1, <4>1 DEF Keeper
    <3>3. CASE i = n
      <4>1. \/ Hooks[n] = "temporal" /\ patience[p] = 0
            \/ Hooks[n] \in {"grpc", "http"} /\ left[p] = 0
        BY <1>1, <2>2, <3>1, <3>3 DEF Alive
      <4>2. \A j \in 1..(n - 1) : Hooks[j] \notin cancelled[p]
        BY DEF InOrder
      <4>3. CASE Hooks[n] = "temporal"
        <5>1. n = 6 /\ g = "worker" /\ patience[p] = 0
          BY <1>1, <3>1, <3>3, <4>1, <4>3, SpawnTable
        <5>2. WorkerStopTimeout >= ShutdownTimeout => left[p] = 0
          BY <5>1, TimeoutAssumption DEF Patient, LifecycleTypes
        <5>3. started'[p] = 5 /\ Hooks[5] \notin cancelled[p]
          BY <1>2, <4>2, <5>1
        <5>4. WorkerLeft(p)'
          BY <1>1, <5>1, <5>2, <5>3 DEF WorkerLeft, Halted
        <5> QED BY <2>2, <5>1, <5>4 DEF Keeper
      <4>4. CASE Hooks[n] \in {"grpc", "http"}
        <5>1. n \in 9..10 /\ g \in {"grpc", "http"} /\ left[p] = 0
          BY <1>1, <3>1, <3>3, <4>1, <4>4, SpawnTable
        <5>2. started'[p] = n - 1 /\ Hooks[n - 1] \notin cancelled[p]
          BY <1>2, <4>2, <5>1
        <5>3. ServerLeft(p)'
          BY <1>1, <5>1, <5>2 DEF ServerLeft, Halted
        <5> QED BY <2>2, <5>1, <5>3 DEF Keeper
      <4> QED BY <4>1, <4>3, <4>4
    <3> QED BY <3>2, <3>3
  <2>3. CASE o = p /\ g = "worker" /\ WorkerLeft(p)
    <3>1. ~(WorkerStopTimeout >= ShutdownTimeout)
      BY <1>1, <2>3 DEF WorkerLeft, Halted
    <3>2. WorkerLeft(p)'
      BY <1>1, <1>2, <2>3, <3>1 DEF WorkerLeft
    <3> QED BY <2>3, <3>2 DEF Keeper
  <2>4. ~ServerLeft(p) /\ mode[p] # "aborting"
    BY <1>1 DEF ServerLeft, Halted
  <2> QED BY <2>1, <2>2, <2>3, <2>4 DEF Attended, Keeper
<1> QED BY <1>3, <1>4, <1>5, <1>6

LEMMA RestartKeeps ==
  ASSUME LifecycleInv, NEW p \in Replicas, Restart(p)
  PROVE  LifecycleInv'
<1> USE DEF LifecycleInv
<1>1. mode[p] = "exited" /\ UNCHANGED <<open, routine, cancelled, left, patience>>
  BY DEF Restart, timers
<1>2. /\ mode' \in [Replicas -> Modes] /\ built' \in [Replicas -> 0..10] /\ started' \in [Replicas -> 0..10]
      /\ \A o \in Replicas : mode'[o] = IF o = p THEN "building" ELSE mode[o]
      /\ \A o \in Replicas : built'[o] = IF o = p THEN 0 ELSE built[o]
      /\ \A o \in Replicas : started'[o] = IF o = p THEN 0 ELSE started[o]
  BY DEF Restart, LifecycleTypes, Modes
<1>3. LifecycleTypes' /\ Progress' /\ QuietOutside'
  BY <1>1, <1>2 DEF LifecycleTypes, Progress, QuietOutside
<1>4. Connected' /\ InOrder' /\ Patient'
  <2>1. {Hooks[i] : i \in 1..built'[p]} = {}
    <3>1. built'[p] = 0 /\ 1..0 = {}
      BY <1>2
    <3> QED BY <3>1
  <2>2. Connected'
    BY <1>1, <1>2, <2>1 DEF Connected, Up
  <2>3. InOrder' /\ Patient'
    BY <1>1, <1>2 DEF InOrder, Patient
  <2> QED BY <2>2, <2>3
<1>5. Attended'
  <2> SUFFICES ASSUME NEW o \in Replicas, NEW g \in Goroutines, routine[o][g] \in Alive
               PROVE  Keeper(o, g)'
    BY <1>1 DEF Attended
  <2>1. o # p
    BY <1>1 DEF QuietOutside, Alive
  <2> QED BY <1>1, <1>2, <2>1, KeeperFrame DEF Attended
<1> QED BY <1>3, <1>4, <1>5

LEMMA LifecycleInit == Init => LifecycleInv
<1> SUFFICES ASSUME Init PROVE LifecycleInv
  OBVIOUS
<1>1. LifecycleTypes
  <2>1. [g \in Goroutines |-> "none"] \in [Goroutines -> {"none", "idle", "busy", "ended"}]
    OBVIOUS
  <2> QED BY <2>1, TimeoutAssumption DEF Init, LifecycleTypes, Modes
<1>2. Progress /\ QuietOutside /\ Attended /\ InOrder /\ Patient
  BY TimeoutAssumption DEF Init, Progress, QuietOutside, Attended, Alive, InOrder, Patient
<1>3. Connected
  <2>1. \A p \in Replicas : mode[p] = "building" /\ built[p] = 0
    BY DEF Init
  <2>2. 1..0 = {}
    OBVIOUS
  <2> QED BY <2>1, <2>2 DEF Connected
<1> QED BY <1>1, <1>2, <1>3 DEF LifecycleInv

\* A replica keeps its hooks, its connections and its goroutines in step,
\* through every failure of a constructor or a hook, an abort, a signal, a
\* crash and a restart (app.go, workflow_eventbus.go:27-102).
LEMMA LifecycleInvariant == Spec => []LifecycleInv
<1>1. LifecycleInv /\ [Next]_vars => LifecycleInv'
  <2> SUFFICES ASSUME LifecycleInv, [Next]_vars PROVE LifecycleInv'
    OBVIOUS
  <2>1. ASSUME NEW p \in Replicas, Startup(p) PROVE LifecycleInv'
    BY <2>1, ConstructKeeps, OnStartKeeps, TurnsBackKeeps DEF Startup
  <2>2. ASSUME NEW p \in Replicas, ConstructFails(p) \/ Die(p) PROVE LifecycleInv'
    BY <2>2, GoneKeeps DEF ConstructFails, Die
  <2>3. ASSUME NEW p \in Replicas, OnStartFails(p) \/ Signal(p) PROVE LifecycleInv'
    BY <2>3, TurnsBackKeeps
  <2>4. ASSUME NEW p \in Replicas, OnStartAborts(p) PROVE LifecycleInv'
    BY <2>4, AbortsKeeps
  <2>5. ASSUME NEW p \in Replicas, Shutdown(p) PROVE LifecycleInv'
    BY <2>5, OnStopKeeps, OnStopReturnsKeeps, GoneKeeps DEF Shutdown, Exit, Expire
  <2>6. ASSUME NEW p \in Replicas, Restart(p) PROVE LifecycleInv'
    BY <2>6, RestartKeeps
  <2>7. ASSUME NEW p \in Replicas,
               (\E g \in Goroutines : Loop(p, g)) \/ Dispatch(p) \/ Consume(p) \/ ConsumeReturns(p)
        PROVE  LifecycleInv'
    BY <2>7, RoutineView, RoutineKeeps
  <2>8. CASE UNCHANGED vars
    <3>1. UNCHANGED <<mode, built, started, open, routine, cancelled, left, patience>>
      BY <2>8 DEF vars, replica, timers
    <3>2. LifecycleTypes' /\ Progress' /\ QuietOutside' /\ Connected' /\ InOrder' /\ Patient'
      BY <3>1 DEF LifecycleInv, LifecycleTypes, Progress, QuietOutside, Connected, Up, InOrder, Patient
    <3>3. Attended'
      BY <3>1, KeeperFrame DEF LifecycleInv, Attended
    <3> QED BY <3>2, <3>3 DEF LifecycleInv
  <2>9. ASSUME NEW p \in Replicas, Tick(p) PROVE LifecycleInv'
    BY <2>9, TickKeeps
  <2> QED BY <2>1, <2>2, <2>3, <2>4, <2>5, <2>6, <2>7, <2>8, <2>9 DEF Next
<1> QED BY <1>1, LifecycleInit, PTL DEF Spec

\* The hooks stop in the reverse of the order in which app.New constructs their
\* components, and each waits for its goroutines (workflow_eventbus.go:96-102),
\* the worker's for worker_stop_timeout at most (temporal.go:41, 57): no
\* goroutine is at work with a connection that is closed or not yet open,
\* whichever of the optional parts are enabled and whatever the two timeouts,
\* except for an activity that has outlasted worker_stop_timeout.  That one may
\* lose any connection where worker_stop_timeout is below app.shutdown_timeout,
\* the Temporal client alone where the two are equal, and none where it is above.
THEOREM NothingUsedAfterClose == Spec => []NoUseAfterClose
<1>1. LifecycleInv => NoUseAfterClose
  <2> SUFFICES ASSUME LifecycleInv, NEW p \in Replicas, NEW g \in Goroutines, routine[p][g] = "busy",
                      NEW r \in Uses[g] \ open[p]
               PROVE  MayLose(p, g, r)
    BY DEF NoUseAfterClose
  <2> USE DEF LifecycleInv
  <2>1. /\ mode[p] \in {"starting", "running", "aborting", "stopping"} /\ started[p] \in 0..10
        /\ Keeper(p, g)
    BY DEF LifecycleTypes, QuietOutside, Modes, Alive, Attended
  <2>2. CASE mode[p] = "aborting" /\ g \in {"dispatch", "cleanup"}
    BY <2>2, AbortUses DEF Connected
  <2>3. CASE \E i \in 1..started[p] : g \in Spawns(Hooks[i])
    <3>1. PICK i \in 1..started[p] : g \in Spawns(Hooks[i])
      BY <2>3
    <3>2. i \in 1..10 /\ 1..i \subseteq 1..started[p]
      BY <2>1
    <3>3. Uses[g] \subseteq {Hooks[j] : j \in 1..i} \cap Resources
      BY <3>1, <3>2, UsesComeFirst
    <3>4. Uses[g] \subseteq Up(p) \cap Resources
      BY <3>2, <3>3 DEF Up
    <3> QED BY <2>1, <3>4 DEF Connected
  <2>4. CASE g = "worker" /\ WorkerLeft(p)
    <3>1. patience[p] = 0 /\ WorkerStopTimeout =< ShutdownTimeout
      BY <2>4, TimeoutAssumption DEF WorkerLeft, Patient, LifecycleTypes
    <3>2. ASSUME WorkerStopTimeout = ShutdownTimeout PROVE r = "temporal"
      <4>1. started[p] = 5 /\ 2 \in 1..started[p] /\ 5 \in 1..started[p]
        BY <2>4, <3>2, TimeoutAssumption DEF WorkerLeft
      <4>2. {"database", "outbound"} \subseteq Up(p) \cap Resources
        BY <4>1, HookTable DEF Up, Resources
      <4>3. {"database", "outbound"} \subseteq open[p]
        BY <2>4, <4>2 DEF Connected, WorkerLeft
      <4>4. Uses["worker"] = {"database", "outbound", "temporal"}
        BY DEF Uses
      <4> QED BY <2>4, <4>3, <4>4
    <3> QED BY <2>4, <3>1, <3>2, TimeoutAssumption DEF MayLose
  <2>5. CASE g \in {"grpc", "http"} /\ ServerLeft(p)
    <3>1. {2, 3, 5} \subseteq 1..started[p]
      BY <2>5 DEF ServerLeft
    <3>2. {"database", "redis", "outbound"} \subseteq Up(p) \cap Resources
      BY <3>1, HookTable DEF Up, Resources
    <3>3. Uses[g] = {"database", "redis", "outbound"}
      BY <2>5 DEF Uses
    <3> QED BY <2>5, <3>2, <3>3 DEF Connected, ServerLeft
  <2> QED BY <2>1, <2>2, <2>3, <2>4, <2>5 DEF Keeper
<1> QED BY <1>1, LifecycleInvariant, PTL

\* A failing or partial start (app.New, rolled back by fx) leaves nothing
\* running: a goroutine lives only in a replica whose hook for it has started
\* and has not stopped, or in a start that is about to wait for it, or its hook
\* has waited for as long as it may (temporal.go:57, grpc/server.go:121-131).
THEOREM NothingIsLeftRunning == Spec => []NothingLeftRunning
<1>1. LifecycleInv => NothingLeftRunning
  BY DEF LifecycleInv, Attended, Keeper, WorkerLeft, ServerLeft, Halted, NothingLeftRunning, Alive
<1> QED BY <1>1, LifecycleInvariant, PTL
===============================================================================
