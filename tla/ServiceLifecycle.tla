--------------------------- MODULE ServiceLifecycle ---------------------------
(***************************************************************************)
(* Replicas of the service from construction to exit: the fx hooks in the  *)
(* order in which app.New constructs their components, the goroutines the  *)
(* hooks start and wait for, and the commands that two of these goroutines *)
(* carry from the outbox to the stream and from the stream to Temporal.    *)
(*                                                                         *)
(* The way of a single command through the handler is the business of      *)
(* Engine; here it is handled, redelivered or dead-lettered.               *)
(***************************************************************************)
EXTENDS Naturals, Sequences, FiniteSets

CONSTANTS
  Replicas, Commands,
  Enabled,      \* of "events", "temporal", "grpc", "database": *.enabled
  MayEnd,       \* may Consume return an error of its own
  MaxDeliver,   \* event_bus.consumer_max_deliver
  ShutdownTimeout,    \* app.shutdown_timeout, in ticks
  WorkerStopTimeout,  \* temporal.worker_stop_timeout, in ticks
  MaxFaults,    \* bound on transient errors
  MaxRestarts   \* bound on restarts of replicas

ASSUME BoundsAssumption == MaxDeliver \in Nat \ {0} /\ MaxFaults \in Nat /\ MaxRestarts \in Nat
\* Validate asks of the second that it is positive, of the first nothing, and
\* of neither how it compares with the other.
ASSUME TimeoutAssumption == ShutdownTimeout \in Nat /\ WorkerStopTimeout \in Nat \ {0}
ASSUME FlagAssumption == MayEnd \in BOOLEAN /\ Enabled \subseteq {"events", "temporal", "grpc", "database"}

VARIABLES
  mode,       \* of a replica
  built,      \* constructors that have run
  started,    \* hooks whose OnStart has returned
  open,       \* connections a replica holds
  routine,    \* its goroutines
  cancelled,  \* hooks whose OnStop has begun
  left,       \* ticks until the context of Start or Stop is over
  patience,   \* ticks Worker.Stop goes on waiting
  outbox,     \* workflow_outbox_events.status of a command
  delivery,   \* its deliveries to a consumer
  settled,    \* how the stream is done with it
  faults, restarts

timers == <<left, patience>>
replica == <<mode, built, started, open, routine, cancelled, timers>>
events == <<outbox, delivery, settled>>
vars == <<replica, events, faults, restarts>>

(* -- Construction ----------------------------------------------------------- *)

\* Mutant: the bus is constructed after the runtime that uses it.
HooksBusLate ==
  <<"logger", "database", "redis", "outbound", "temporal", "events", "bus", "retention", "grpc", "http">>

\* The order in which the invocations of app.New construct what they need:
\* newWorkflowEventRuntime asks for the Temporal runtime, which asks for the
\* activities and these for the outbound registry.
Hooks ==
  <<"logger", "database", "redis", "bus", "outbound", "temporal", "events", "retention", "grpc", "http">>

Resources == {"logger", "database", "redis", "bus", "outbound", "temporal"}
Goroutines == {"dispatch", "cleanup", "consume", "worker", "cleaner", "grpc", "http"}

Uses ==
  [dispatch |-> {"database", "bus"}, cleanup |-> {"database"}, consume |-> {"bus", "temporal"},
   worker |-> {"database", "outbound", "temporal"}, cleaner |-> {"database"},
   grpc |-> {"database", "redis", "outbound"}, http |-> {"database", "redis", "outbound"}]

\* The goroutines that a started hook leaves behind.
Spawns(hook) ==
  CASE hook = "temporal" /\ "temporal" \in Enabled -> {"worker"}
    [] hook = "events" /\ "events" \in Enabled ->
         {"dispatch", "cleanup"} \cup (IF "temporal" \in Enabled THEN {"consume"} ELSE {})
    [] hook = "retention" /\ "database" \in Enabled -> {"cleaner"}
    [] hook = "grpc" /\ "grpc" \in Enabled -> {"grpc"}
    [] hook = "http" -> {"http"}
    [] OTHER -> {}

Gone(p) ==
  /\ mode' = [mode EXCEPT ![p] = "exited"]
  /\ open' = [open EXCEPT ![p] = {}]
  /\ routine' = [routine EXCEPT ![p] = [g \in Goroutines |-> "none"]]
  /\ cancelled' = [cancelled EXCEPT ![p] = {}]
  /\ left' = [left EXCEPT ![p] = ShutdownTimeout]
  /\ patience' = [patience EXCEPT ![p] = WorkerStopTimeout]
  /\ UNCHANGED <<built, started>>

\* A constructor connects and pings what it opens.
Construct(p) ==
  /\ mode[p] = "building" /\ built[p] < Len(Hooks)
  /\ built' = [built EXCEPT ![p] = @ + 1]
  /\ open' = [open EXCEPT ![p] = @ \cup ({Hooks[built[p] + 1]} \cap Resources)]
  /\ mode' = [mode EXCEPT ![p] = IF built[p] + 1 = Len(Hooks) THEN "starting" ELSE @]
  /\ UNCHANGED <<started, routine, cancelled, timers, events, faults, restarts>>

ConstructFails(p) ==
  /\ mode[p] = "building" /\ faults < MaxFaults
  /\ Gone(p)
  /\ faults' = faults + 1
  /\ UNCHANGED <<events, restarts>>

(* -- Start and stop ------------------------------------------------------------ *)

\* fx looks at the context of Start or Stop before each hook.  The rollback of
\* a start that fails goes on with what is left of its context.
Timed(p) == mode[p] \in {"starting", "aborting", "stopping"}

OnStart(p) ==
  LET hook == Hooks[started[p] + 1] IN
  /\ mode[p] = "starting" /\ left[p] > 0
  /\ started' = [started EXCEPT ![p] = @ + 1]
  /\ routine' = [routine EXCEPT ![p] =
       [g \in Goroutines |-> IF g \in Spawns(hook) THEN "idle" ELSE routine[p][g]]]
  /\ mode' = [mode EXCEPT ![p] = IF started[p] + 1 = Len(Hooks) THEN "running" ELSE @]
  /\ UNCHANGED <<built, open, cancelled, timers, events, faults, restarts>>

\* The event runtime is refused its command handler after its first two
\* goroutines have begun: start cancels them and waits before it fails.
OnStartAborts(p) ==
  /\ mode[p] = "starting" /\ left[p] > 0 /\ faults < MaxFaults
  /\ Hooks[started[p] + 1] = "events" /\ {"events", "temporal"} \subseteq Enabled
  /\ \E first, second \in {"idle", "busy"} :
       routine' = [routine EXCEPT ![p]["dispatch"] = first, ![p]["cleanup"] = second]
  /\ cancelled' = [cancelled EXCEPT ![p] = @ \cup {"events"}]
  /\ mode' = [mode EXCEPT ![p] = "aborting"]
  /\ faults' = faults + 1
  /\ UNCHANGED <<built, started, open, timers, events, restarts>>

\* Mutant: the failing start does not wait for its goroutines.
AbortedAtOnce(p) ==
  /\ mode[p] = "aborting"
  /\ mode' = [mode EXCEPT ![p] = "stopping"]
  /\ UNCHANGED <<built, started, open, routine, cancelled, timers, events, faults, restarts>>

Aborted(p) ==
  /\ mode[p] = "aborting"
  /\ \A g \in {"dispatch", "cleanup"} : routine[p][g] = "ended"
  /\ mode' = [mode EXCEPT ![p] = "stopping"]
  /\ UNCHANGED <<built, started, open, routine, cancelled, timers, events, faults, restarts>>

\* The hook fails: a port is taken, a worker does not start, the event runtime
\* lacks its store.  fx stops the hooks that had started.
OnStartFails(p) ==
  /\ mode[p] = "starting" /\ left[p] > 0 /\ faults < MaxFaults
  /\ mode' = [mode EXCEPT ![p] = "stopping"]
  /\ faults' = faults + 1
  /\ UNCHANGED <<built, started, open, routine, cancelled, timers, events, restarts>>

Signal(p) ==
  /\ mode[p] = "running"
  /\ mode' = [mode EXCEPT ![p] = "stopping"]
  /\ left' = [left EXCEPT ![p] = ShutdownTimeout]
  /\ UNCHANGED <<built, started, open, routine, cancelled, patience, events, faults, restarts>>

Last(p) == Hooks[started[p]]

OnStop(p) ==
  /\ mode[p] = "stopping" /\ started[p] > 0 /\ left[p] > 0
  /\ Last(p) \notin cancelled[p]
  /\ cancelled' = [cancelled EXCEPT ![p] = @ \cup {Last(p)}]
  /\ UNCHANGED <<mode, built, started, open, routine, timers, events, faults, restarts>>

\* wg.Wait, Shutdown, GracefulStop and Worker.Stop.
Waited(p) == \A g \in Spawns(Last(p)) : routine[p][g] \in {"none", "ended"}

\* Worker.Stop waits for worker_stop_timeout and no longer, and its hook goes on
\* to close the client; the servers wait as long as the context of the stop.
GivesUp(p) ==
  \/ Last(p) = "temporal" /\ patience[p] = 0
  \/ Last(p) \in {"grpc", "http"} /\ left[p] = 0

OnStopReturns(p) ==
  /\ mode[p] = "stopping" /\ started[p] > 0
  /\ Last(p) \in cancelled[p] /\ (Waited(p) \/ GivesUp(p))
  /\ started' = [started EXCEPT ![p] = @ - 1]
  /\ open' = [open EXCEPT ![p] = @ \ {Last(p)}]
  /\ UNCHANGED <<mode, built, routine, cancelled, timers, events, faults, restarts>>

\* All hooks have stopped.
Exit(p) ==
  /\ mode[p] = "stopping" /\ started[p] = 0
  /\ Gone(p)
  /\ UNCHANGED <<events, faults, restarts>>

StopsWorker(p) ==
  mode[p] = "stopping" /\ started[p] > 0 /\ Last(p) = "temporal" /\ "temporal" \in cancelled[p]

\* Time passes, for the context and for a Worker.Stop that waits.
Tick(p) ==
  /\ Timed(p) /\ left[p] > 0
  /\ left' = [left EXCEPT ![p] = @ - 1]
  /\ patience' = [patience EXCEPT ![p] = IF StopsWorker(p) /\ @ > 0 THEN @ - 1 ELSE @]
  /\ UNCHANGED <<mode, built, started, open, routine, cancelled, events, faults, restarts>>

\* app.shutdown_timeout is over: Start or Stop returns an error at once, and Run
\* ends the process, whatever the hooks are doing.
Expire(p) ==
  /\ Timed(p) /\ left[p] = 0
  /\ Gone(p)
  /\ UNCHANGED <<events, faults, restarts>>

\* The process dies or is killed.
Die(p) ==
  /\ mode[p] # "exited" /\ faults < MaxFaults
  /\ Gone(p)
  /\ faults' = faults + 1
  /\ UNCHANGED <<events, restarts>>

Restart(p) ==
  /\ mode[p] = "exited" /\ restarts < MaxRestarts
  /\ mode' = [mode EXCEPT ![p] = "building"]
  /\ built' = [built EXCEPT ![p] = 0] /\ started' = [started EXCEPT ![p] = 0]
  /\ restarts' = restarts + 1
  /\ UNCHANGED <<open, routine, cancelled, timers, events, faults>>

(* -- The goroutines ------------------------------------------------------------- *)

HookOf(g) == CHOOSE h \in {Hooks[i] : i \in DOMAIN Hooks} : g \in Spawns(h)

Asked(p, g) == HookOf(g) \in cancelled[p]

Set(p, g, state) == routine' = [routine EXCEPT ![p][g] = state]

\* One round of a loop, one request, one message or one activity.  A round
\* that begins with a cancelled context does nothing.
Begin(p, g) ==
  /\ routine[p][g] = "idle" /\ ~Asked(p, g)
  /\ Set(p, g, "busy")
  /\ UNCHANGED <<mode, built, started, open, cancelled, timers, events, faults, restarts>>

EndRound(p, g) ==
  /\ routine[p][g] = "busy" /\ g \notin {"dispatch", "consume"}
  /\ Set(p, g, "idle")
  /\ UNCHANGED <<mode, built, started, open, cancelled, timers, events, faults, restarts>>

\* Mutant: the dispatch loop does not look at its context.
EndLoopDeaf(p, g) ==
  /\ routine[p][g] = "idle" /\ Asked(p, g) /\ g # "dispatch"
  /\ Set(p, g, "ended")
  /\ UNCHANGED <<mode, built, started, open, cancelled, timers, events, faults, restarts>>

EndLoop(p, g) ==
  /\ routine[p][g] = "idle" /\ Asked(p, g)
  /\ Set(p, g, "ended")
  /\ UNCHANGED <<mode, built, started, open, cancelled, timers, events, faults, restarts>>

\* Dispatcher.RunOnce publishes what is pending and marks it.
RunOnce(p) ==
  /\ routine[p]["dispatch"] = "busy"
  /\ Set(p, "dispatch", "idle")
  /\ outbox' = [c \in Commands |-> IF outbox[c] = "pending" THEN "published" ELSE outbox[c]]
  /\ UNCHANGED <<mode, built, started, open, cancelled, timers, delivery, settled, faults, restarts>>

\* Mutant: the loop ends with the first error.
RunOnceFailsForGood(p) ==
  /\ routine[p]["dispatch"] = "busy" /\ faults < MaxFaults
  /\ Set(p, "dispatch", "ended")
  /\ faults' = faults + 1
  /\ UNCHANGED <<mode, built, started, open, cancelled, timers, events, restarts>>

\* Its error is logged and the loop goes on.
RunOnceFails(p) ==
  /\ routine[p]["dispatch"] = "busy" /\ faults < MaxFaults
  /\ Set(p, "dispatch", "idle")
  /\ faults' = faults + 1
  /\ UNCHANGED <<mode, built, started, open, cancelled, timers, events, restarts>>

Waiting == {c \in Commands : outbox[c] = "published" /\ settled[c] = "no"}

Handle(p, c) ==
  /\ routine[p]["consume"] = "busy" /\ c \in Waiting
  /\ Set(p, "consume", "idle")
  /\ settled' = [settled EXCEPT ![c] = "acknowledged"]
  /\ UNCHANGED <<mode, built, started, open, cancelled, timers, outbox, delivery, faults, restarts>>

\* The handler fails: the message comes again, the last time into the DLQ.
HandleFails(p, c) ==
  /\ routine[p]["consume"] = "busy" /\ c \in Waiting /\ faults < MaxFaults
  /\ Set(p, "consume", "idle")
  /\ delivery' = [delivery EXCEPT ![c] = @ + 1]
  /\ settled' = [settled EXCEPT ![c] = IF delivery[c] + 1 = MaxDeliver THEN "dead" ELSE "no"]
  /\ faults' = faults + 1
  /\ UNCHANGED <<mode, built, started, open, cancelled, timers, outbox, restarts>>

NothingToHandle(p) ==
  /\ routine[p]["consume"] = "busy" /\ Waiting = {}
  /\ Set(p, "consume", "idle")
  /\ UNCHANGED <<mode, built, started, open, cancelled, timers, events, faults, restarts>>

\* Consume returns an error: it is logged and the goroutine is over.
ConsumeReturns(p) ==
  /\ MayEnd
  /\ routine[p]["consume"] \in {"idle", "busy"} /\ faults < MaxFaults
  /\ Set(p, "consume", "ended")
  /\ faults' = faults + 1
  /\ UNCHANGED <<mode, built, started, open, cancelled, timers, events, restarts>>

(* -- The specification ------------------------------------------------------------ *)

Init ==
  /\ mode = [p \in Replicas |-> "building"]
  /\ built = [p \in Replicas |-> 0] /\ started = [p \in Replicas |-> 0]
  /\ open = [p \in Replicas |-> {}]
  /\ routine = [p \in Replicas |-> [g \in Goroutines |-> "none"]]
  /\ cancelled = [p \in Replicas |-> {}]
  /\ left = [p \in Replicas |-> ShutdownTimeout]
  /\ patience = [p \in Replicas |-> WorkerStopTimeout]
  /\ outbox = [c \in Commands |-> "pending"] /\ delivery = [c \in Commands |-> 0]
  /\ settled = [c \in Commands |-> "no"]
  /\ faults = 0 /\ restarts = 0

Dispatch(p) == RunOnce(p) \/ RunOnceFails(p)
Consume(p) ==
  \/ \E c \in Commands : Handle(p, c) \/ HandleFails(p, c)
  \/ NothingToHandle(p)
Loop(p, g) == Begin(p, g) \/ EndRound(p, g) \/ EndLoop(p, g)
Startup(p) == Construct(p) \/ OnStart(p) \/ Aborted(p)
Shutdown(p) == OnStop(p) \/ OnStopReturns(p) \/ Exit(p) \/ Expire(p)

Next ==
  \E p \in Replicas :
    \/ Startup(p) \/ ConstructFails(p) \/ OnStartFails(p) \/ OnStartAborts(p)
    \/ Signal(p) \/ Shutdown(p) \/ Tick(p) \/ Die(p) \/ Restart(p)
    \/ \E g \in Goroutines : Loop(p, g)
    \/ Dispatch(p) \/ Consume(p) \/ ConsumeReturns(p)

Spec == Init /\ [][Next]_vars

\* fx goes on with hooks, goroutines run, and a command that keeps being
\* offered is taken by some round of the consumer.
FairSpec ==
  /\ Spec
  /\ \A p \in Replicas :
       /\ WF_vars(Startup(p)) /\ WF_vars(Shutdown(p)) /\ WF_vars(Restart(p))
       /\ WF_vars(Dispatch(p)) /\ WF_vars(Consume(p))
       /\ \A g \in Goroutines : WF_vars(Loop(p, g))
       /\ \A c \in Commands : SF_vars(Handle(p, c))

(* -- Properties ---------------------------------------------------------------------- *)

\* The hooks stop in the reverse of the order of construction, but Worker.Stop
\* (temporal.go:57) may give up: what activities then still at work may lose.
\* The hooks behind it need time in the context, hence a worker_stop_timeout
\* below app.shutdown_timeout; the client is closed by the same hook, which a
\* worker_stop_timeout above app.shutdown_timeout alone keeps from getting there.
MayLose(p, g, resource) ==
  /\ g = "worker" /\ patience[p] = 0
  /\ WorkerStopTimeout < ShutdownTimeout \/ (WorkerStopTimeout = ShutdownTimeout /\ resource = "temporal")

\* stop of the event runtime (workflow_eventbus.go:96-102), of the cleaner, of
\* the servers and of the worker (temporal.go:56-60): no goroutine is at work
\* with a connection that is closed or not yet open, save activities that have
\* outlasted the whole of worker_stop_timeout, where that does not exceed
\* app.shutdown_timeout.
NoUseAfterClose ==
  \A p \in Replicas, g \in Goroutines :
    routine[p][g] = "busy" => \A r \in Uses[g] \ open[p] : MayLose(p, g, r)

\* A failing or partial start (app.New, rolled back by fx) leaves nothing
\* running: a goroutine lives only in a replica whose hook for it has started
\* and has not stopped, or in a start that is about to wait for it, or its hook
\* has waited for as long as it may (temporal.go:57, grpc/server.go:121-131).
NothingLeftRunning ==
  \A p \in Replicas, g \in Goroutines :
    routine[p][g] \in {"idle", "busy"} =>
      \/ \E i \in 1..started[p] : g \in Spawns(Hooks[i])
      \/ mode[p] = "aborting"
      \/ g = "worker" /\ patience[p] = 0
      \/ g \in {"grpc", "http"} /\ left[p] = 0

Consuming(p) == mode[p] = "running" /\ routine[p]["consume"] \in {"idle", "busy"}

\* The dispatch loop (workflow_eventbus.go:48-62) outlives its errors and
\* Consume (workflow_eventbus.go:73) redelivers: a command in the outbox is
\* acknowledged or dead-lettered in the end, across stops, crashes and
\* restarts, as long as some replica still consumes.
CommandsSettle ==
  \A c \in Commands :
    (settled[c] = "no" /\ \E p \in Replicas : Consuming(p))
      ~> (settled[c] # "no" \/ \A p \in Replicas : ~Consuming(p))

\* OnStop hooks end: no goroutine waits for a hook that waits for it.
StopsEnd == \A p \in Replicas : mode[p] = "stopping" ~> mode[p] # "stopping"

\* README.md:28: the consumer acknowledges explicitly, retries a bounded number
\* of times and writes the final failure to the DLQ.  Hence a command that is
\* published is settled, once every replica is up and none is stopped.
PublishedIsSettled ==
  (<>[](\A p \in Replicas : mode[p] = "running")) => \A c \in Commands : (c \in Waiting ~> settled[c] # "no")
=============================================================================
