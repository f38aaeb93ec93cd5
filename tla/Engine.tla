-------------------------------- MODULE Engine --------------------------------
(***************************************************************************)
(* One workflow instance from the start request to its end: the outbox     *)
(* events that reach the command handler (workflowruntime/commands.go),    *)
(* the Temporal workflow Execute with its deferred cleanup                 *)
(* (workflowruntime/workflow.go), and its activities                       *)
(* (workflowruntime/activities.go) over the rows of WorkflowStore.         *)
(*                                                                         *)
(* External, modelled from how the code uses it: JetStream delivers every  *)
(* outbox event at least once, in any order, at most MaxDeliver times;     *)
(* Temporal keeps the workflow across crashes, retries an activity up to   *)
(* its attempt limit, and re-evaluates a blocked Await once per workflow   *)
(* task.                                                                   *)
(***************************************************************************)
EXTENDS WorkflowStore, FiniteSets, SequencesExt

CONSTANTS
  NodeType,         \* the type of every node
  Edges,            \* records with from, to, conditional and priority
  Compensable,      \* service nodes with a compensation method
  MaxAttempts,      \* attempts of an activity (5 in the code)
  CleanupAttempts,  \* attempts of an activity of the deferred cleanup (3)
  MaxDeliver,       \* deliveries of an event before it is dead-lettered (10)
  MaxFaults         \* bound on lost results, lost acks and failed calls

ServiceNodes == {n \in Nodes : NodeType[n] = "service_task"}
StartNode    == CHOOSE n \in Nodes : NodeType[n] = "start"

\* The graph is one that ValidateDefinition accepts (graph.go).
ASSUME EngineConstants ==
  /\ NodeType \in [Nodes -> {"start", "approval", "service_task", "timer", "end"}]
  /\ Approvals = {n \in Nodes : NodeType[n] = "approval"}
  /\ \E n \in Nodes : \A m \in Nodes : (NodeType[m] = "start") <=> (m = n)
  /\ Edges \subseteq [from : Nodes, to : Nodes, conditional : BOOLEAN, priority : Nat]
  /\ \A e \in Edges : NodeType[e.from] # "end" /\ NodeType[e.to] # "start"
  /\ \A n \in Nodes : NodeType[n] # "end" => \E e \in Edges : e.from = n
  /\ Compensable \subseteq ServiceNodes
  /\ {MaxAttempts, CleanupAttempts, MaxDeliver} \subseteq Nat \ {0}
  /\ MaxFaults \in Nat

\* "workflow graph must be acyclic" (graph.go:132): the nodes can be numbered
\* so that every edge leads to a higher number.
ASSUME AcyclicGraph ==
  /\ IsFiniteSet(Nodes)
  /\ \E rank \in [Nodes -> 1 .. Cardinality(Nodes)] :
       \A e \in Edges : rank[e.from] < rank[e.to]

VARIABLES
  pc,          \* where Execute stands
  cur,         \* current
  steps,       \* nodes routed to so far, the loop counter
  act,         \* the activity Execute waits for
  done,        \* completedServices
  undo,        \* what the deferred cleanup has left of completedServices
  signals,     \* buffered task signals
  wake,        \* evaluations of the Await predicate that are due
  timerFired,  \* the approval timeout has passed
  cancelReq,   \* the workflow context is cancelled
  orphans,     \* attempts still executing whose result nobody waits for
  effects,     \* external: what reached the upstream services, in order
  abandoned,   \* services whose compensation used up its attempts
  tries,       \* deliveries of every outbox event
  acked,       \* outbox events acknowledged by the consumer
  faults

wfVars  == <<pc, cur, steps, act, done, undo, signals, wake, timerFired, cancelReq>>
busVars == <<tries, acked>>
vars    == <<storeVars, wfVars, orphans, effects, abandoned, busVars, faults>>

\* start, cancel or statusChanged, and two events of every task.
MaxEvents == 2 + 2 * Cardinality(Approvals)

NoAct == [kind |-> "none", node |-> None, status |-> "none", tries |-> 0, phase |-> "begun"]

Activity == [kind   : {"create", "invoke", "finish", "compensate", "fail"},
             node   : Nodes,
             status : {"none"} \cup Terminal,
             tries  : Nat,
             phase  : {"begun", "advanced"}]

Signal == [node : Approvals, decision : Decisions]

TypeOK ==
  /\ StoreTypeOK
  /\ Len(outbox) <= MaxEvents
  /\ pc \in {"none", "route", "activity", "await", "sleep", "undo", "closed"}
  /\ cur \in Nodes
  /\ steps \in 0 .. Cardinality(Nodes)
  /\ act \in {NoAct} \cup Activity
  /\ done \in Seq(ServiceNodes)
  /\ undo \in Seq(ServiceNodes)
  /\ signals \in Seq(Signal)
  /\ wake \in 0 .. 2
  /\ timerFired \in BOOLEAN
  /\ cancelReq \in BOOLEAN
  /\ orphans \subseteq Activity
  /\ effects \in Seq({"invoke", "compensate"} \X ServiceNodes)
  /\ abandoned \subseteq Compensable
  /\ tries \in [1 .. MaxEvents -> 0 .. MaxDeliver]
  /\ acked \subseteq 1 .. MaxEvents
  /\ faults \in 0 .. MaxFaults

Init ==
  /\ StoreInit
  /\ pc = "none"
  /\ cur = StartNode
  /\ steps = 0
  /\ act = NoAct
  /\ done = <<>> /\ undo = <<>>
  /\ signals = <<>>
  /\ wake = 0
  /\ timerFired = FALSE
  /\ cancelReq = FALSE
  /\ orphans = {}
  /\ effects = <<>>
  /\ abandoned = {}
  /\ tries = [i \in 1 .. MaxEvents |-> 0]
  /\ acked = {}
  /\ faults = 0

Fault == faults < MaxFaults /\ faults' = faults + 1

------------------------------------------------------------------------------
(* The API: a start request, a cancellation, a user's decision.  TaskApi   *)
(* shows that a decision only lands on the very row its request read.      *)

ApiOnly == UNCHANGED <<wfVars, orphans, effects, abandoned, busVars, faults>>

StartInstance == CreateInstance /\ ApiOnly
UserCancels   == CancelInstance(inst.version) /\ ApiOnly

UserDecides(n, decision) ==
  /\ \E u \in Users : CompleteTask(n, tasks[n], decision, u)
  /\ ApiOnly

------------------------------------------------------------------------------
(* Execute.  The operators below are its continuations: they describe the  *)
(* workflow variables after a blocking call returned.                      *)

Schedule(kind, n, status) ==
  /\ pc' = "activity"
  /\ act' = [kind |-> kind, node |-> n, status |-> status, tries |-> 0, phase |-> "begun"]

\* Mutant: a service is remembered before its invocation returned.
BeginCleanupIncludingCurrent ==
  /\ pc' = "undo"
  /\ act' = NoAct
  /\ undo' = IF cur \in ServiceNodes THEN Append(done, cur) ELSE done
  /\ wake' = 0
  /\ timerFired' = FALSE
  /\ UNCHANGED done

\* The deferred function: what it compensates is what completedServices
\* holds, the services whose invocation has returned.
BeginCleanup ==
  /\ pc' = "undo"
  /\ act' = NoAct
  /\ undo' = done
  /\ wake' = 0
  /\ timerFired' = FALSE
  /\ UNCHANGED done

\* One iteration of the loop up to its blocking call.  A cancelled context
\* fails that call at once, whatever the node.
Visit(n) ==
  /\ cur' = n
  /\ steps' = steps + 1
  /\ IF cancelReq \/ steps + 1 > Cardinality(Nodes)
       THEN BeginCleanup
       ELSE /\ CASE NodeType[n] = "approval"     -> Schedule("create", n, "none")
                 [] NodeType[n] = "service_task" -> Schedule("invoke", n, "none")
                 [] NodeType[n] = "end"          -> Schedule("finish", n, "completed")
                 [] NodeType[n] = "timer"        -> pc' = "sleep" /\ act' = NoAct
            /\ UNCHANGED <<done, undo, wake, timerFired>>

Conditional(n) == {e \in Edges : e.from = n /\ e.conditional}

\* The nodes selectNext can return: the target of any conditional edge, or of
\* the unconditional edge that sorts first.
Targets(n) ==
  LET plain == {e \in Edges : e.from = n /\ ~e.conditional}
      first == {e \in plain : \A f \in plain : e.priority <= f.priority}
  IN {e.to : e \in Conditional(n) \cup first}

SelectNext ==
  /\ pc = "route"
  /\ ~(cancelReq /\ Conditional(cur) # {})
  /\ \E n \in Targets(cur) : Visit(n)
  /\ UNCHANGED <<storeVars, signals, cancelReq, orphans, effects, abandoned, busVars, faults>>

\* A condition that cannot be evaluated, no edge that matches, or a context
\* cancelled before the conditions are evaluated.
SelectNextFails ==
  /\ pc = "route"
  /\ Conditional(cur) # {}
  /\ BeginCleanup
  /\ UNCHANGED <<storeVars, cur, steps, signals, cancelReq, orphans, effects, abandoned,
                 busVars, faults>>

TimerElapses ==
  /\ pc = "sleep"
  /\ IF cancelReq THEN BeginCleanup
                  ELSE pc' = "route" /\ UNCHANGED <<act, done, undo, wake, timerFired>>
  /\ UNCHANGED <<storeVars, cur, steps, signals, cancelReq, orphans, effects, abandoned,
                 busVars, faults>>

------------------------------------------------------------------------------
(* Waiting for the decision.                                               *)

\* Mutant: a signal of any node is taken for the answer.
MatchesAnyNode == signals # <<>>

Matches == signals # <<>> /\ Head(signals).node = cur

\* AwaitWithTimeout evaluates its predicate first, and the predicate takes one
\* signal off the channel whether or not it is for this node; then it looks at
\* the context, then at the timer, and blocks until the next workflow task.
AwaitDecision ==
  /\ pc = "await"
  /\ wake > 0
  /\ signals' = IF signals = <<>> THEN signals ELSE Tail(signals)
  /\ IF Matches
       THEN IF Head(signals).decision = "reject" /\ cancelReq
              THEN BeginCleanup
              ELSE /\ IF Head(signals).decision = "reject"
                        THEN Schedule("finish", cur, "rejected")
                        ELSE pc' = "route" /\ UNCHANGED act
                   /\ wake' = 0
                   /\ timerFired' = FALSE
                   /\ UNCHANGED <<done, undo>>
       ELSE IF cancelReq \/ timerFired
              THEN BeginCleanup
              ELSE wake' = wake - 1 /\ UNCHANGED <<pc, act, done, undo, timerFired>>
  /\ UNCHANGED <<storeVars, cur, steps, cancelReq, orphans, effects, abandoned, busVars, faults>>

Woken == IF wake = 0 THEN 1 ELSE wake

\* Mutant: the timer does not wake the workflow.
ApprovalTimeoutUnnoticed ==
  /\ pc = "await"
  /\ ~timerFired
  /\ timerFired' = TRUE
  /\ UNCHANGED <<storeVars, pc, cur, steps, act, done, undo, signals, wake, cancelReq, orphans,
                 effects, abandoned, busVars, faults>>

ApprovalTimeout ==
  /\ pc = "await"
  /\ ~timerFired
  /\ timerFired' = TRUE
  /\ wake' = Woken
  /\ UNCHANGED <<storeVars, pc, cur, steps, act, done, undo, signals, cancelReq, orphans,
                 effects, abandoned, busVars, faults>>

------------------------------------------------------------------------------
(* Activities.  The first group says what one call of an attempt does to   *)
(* the rows and to the upstream service.                                   *)

CreateApprovalTask(a) ==
  /\ a.kind = "create"
  /\ CreateTask(a.node)
  /\ UNCHANGED effects

\* Two calls: the node is advanced in the database, then the service is called.
InvokeServiceTask(a) ==
  /\ a.kind = "invoke"
  /\ IF a.phase = "begun"
       THEN UpdateInstanceNode(a.node) /\ UNCHANGED effects
       ELSE effects' = Append(effects, <<"invoke", a.node>>) /\ UNCHANGED storeVars

CompensateServiceTask(a) ==
  /\ a.kind = "compensate"
  /\ effects' = Append(effects, <<"compensate", a.node>>)
  /\ UNCHANGED storeVars

\* A conflict is an error for completed and rejected, and success for failed.
FinishActivity(a) ==
  /\ \/ a.kind = "finish" /\ FinishInstance(a.status)
     \/ a.kind = "fail" /\ IF FinishAccepted("failed") THEN FinishInstance("failed")
                                                      ELSE UNCHANGED storeVars
  /\ UNCHANGED effects

Call(a) ==
  \/ CreateApprovalTask(a)
  \/ InvokeServiceTask(a)
  \/ CompensateServiceTask(a)
  \/ FinishActivity(a)

\* The calls the database refuses.
Refused(a) ==
  \/ a.kind = "create" /\ ~CreateTaskAccepted(a.node)
  \/ a.kind = "invoke" /\ a.phase = "begun" /\ inst.status # "running"
  \/ a.kind = "finish" /\ ~FinishAccepted(a.status)

CallsUpstream(a) ==
  a.kind = "compensate" \/ (a.kind = "invoke" /\ a.phase = "advanced")

InCleanup(a) == a.kind \in {"compensate", "fail"}

\* What Execute does with the result.
Returned(a) ==
  /\ act' = NoAct
  /\ pc' = CASE a.kind = "create"              -> "await"
             [] a.kind = "invoke"              -> "route"
             [] a.kind = "compensate"          -> "undo"
             [] a.kind \in {"finish", "fail"}  -> "closed"
  /\ done' = IF a.kind = "invoke" THEN Append(done, a.node) ELSE done
  /\ wake' = IF a.kind = "create" THEN 2 ELSE wake
  /\ timerFired' = IF a.kind = "create" THEN FALSE ELSE timerFired
  /\ UNCHANGED <<undo, abandoned>>

\* What Execute does when the attempts are used up.
GivenUp(a) ==
  IF InCleanup(a)
    THEN /\ act' = NoAct
         /\ pc' = IF a.kind = "compensate" THEN "undo" ELSE "closed"
         /\ abandoned' = IF a.kind = "compensate" THEN abandoned \cup {a.node} ELSE abandoned
         /\ UNCHANGED <<done, undo, wake, timerFired>>
    ELSE BeginCleanup /\ UNCHANGED abandoned

AttemptLimit(a) == IF InCleanup(a) THEN CleanupAttempts ELSE MaxAttempts

RetryOrGiveUp(a) ==
  IF a.tries + 1 < AttemptLimit(a)
    THEN /\ act' = [a EXCEPT !.tries = @ + 1, !.phase = "begun"]
         /\ UNCHANGED <<pc, done, undo, wake, timerFired, abandoned>>
    ELSE GivenUp(a)

AttemptUnchanged == UNCHANGED <<cur, steps, signals, cancelReq, busVars>>

\* The current call succeeds; the advance of an invocation is followed by its
\* upstream call, everything else by the result.
AttemptSucceeds ==
  /\ pc = "activity"
  /\ ~Refused(act)
  /\ Call(act)
  /\ IF act.kind = "invoke" /\ act.phase = "begun"
       THEN /\ act' = [act EXCEPT !.phase = "advanced"]
            /\ UNCHANGED <<pc, done, undo, wake, timerFired, abandoned>>
       ELSE Returned(act)
  /\ UNCHANGED <<orphans, faults>>
  /\ AttemptUnchanged

\* The database refuses the call, or the request cannot be rendered or the
\* service answers with an error: nothing happened.
AttemptErrors ==
  /\ pc = "activity"
  /\ Refused(act) \/ CallsUpstream(act)
  /\ RetryOrGiveUp(act)
  /\ UNCHANGED <<storeVars, effects, orphans, faults>>
  /\ AttemptUnchanged

\* The worker crashes or the attempt exceeds its timeout: no result, and the
\* call that was under way may still take effect, now, later or never.
AttemptTimesOut ==
  /\ pc = "activity"
  /\ Fault
  /\ orphans' = orphans \cup {act}
  /\ RetryOrGiveUp(act)
  /\ UNCHANGED <<storeVars, effects>>
  /\ AttemptUnchanged

\* A cancelled context makes Get return while the attempt goes on.  The
\* activities of the cleanup run on a disconnected context.
ActivityCancelled ==
  /\ pc = "activity"
  /\ cancelReq
  /\ ~InCleanup(act)
  /\ orphans' = orphans \cup {act}
  /\ BeginCleanup
  /\ UNCHANGED <<storeVars, effects, abandoned, faults>>
  /\ AttemptUnchanged

\* The call an orphan was in takes effect.  An invocation that had only begun is
\* dropped after its advance.  One that goes on to its service does to it what
\* an invocation does that was left between its two calls, which is an orphan
\* too; a deadline that made it an orphan has passed for its second call anyway.
OrphanLands(a) ==
  /\ orphans' = orphans \ {a}
  /\ IF Refused(a) THEN UNCHANGED <<storeVars, effects>> ELSE Call(a)
  /\ UNCHANGED <<wfVars, abandoned, busVars, faults>>

------------------------------------------------------------------------------
(* The deferred cleanup, last completed service first.                     *)

\* Mutants: first completed service first; no terminal write at the end.
CleanupStepForward ==
  /\ pc = "undo"
  /\ IF undo = <<>>
       THEN Schedule("fail", cur, "failed") /\ UNCHANGED undo
       ELSE /\ undo' = Tail(undo)
            /\ IF Head(undo) \in Compensable
                 THEN Schedule("compensate", Head(undo), "none")
                 ELSE UNCHANGED <<pc, act>>
  /\ UNCHANGED <<storeVars, cur, steps, done, signals, wake, timerFired, cancelReq, orphans,
                 effects, abandoned, busVars, faults>>

CleanupStepWithoutFinish ==
  /\ pc = "undo"
  /\ IF undo = <<>>
       THEN pc' = "closed" /\ UNCHANGED <<act, undo>>
       ELSE /\ undo' = Front(undo)
            /\ IF Last(undo) \in Compensable
                 THEN Schedule("compensate", Last(undo), "none")
                 ELSE UNCHANGED <<pc, act>>
  /\ UNCHANGED <<storeVars, cur, steps, done, signals, wake, timerFired, cancelReq, orphans,
                 effects, abandoned, busVars, faults>>

CleanupStep ==
  /\ pc = "undo"
  /\ IF undo = <<>>
       THEN Schedule("fail", cur, "failed") /\ UNCHANGED undo
       ELSE /\ undo' = Front(undo)
            /\ IF Last(undo) \in Compensable
                 THEN Schedule("compensate", Last(undo), "none")
                 ELSE UNCHANGED <<pc, act>>
  /\ UNCHANGED <<storeVars, cur, steps, done, signals, wake, timerFired, cancelReq, orphans,
                 effects, abandoned, busVars, faults>>

------------------------------------------------------------------------------
(* The command handler.  An event may be delivered again until it is       *)
(* acknowledged or has been delivered MaxDeliver times.  Handle ignores    *)
(* the events of other types, so their delivery is left out.               *)

Commands == {"start", "cancel", "taskCompleted"}

Deliverable(i) ==
  /\ i \in 1 .. Len(outbox)
  /\ outbox[i].type \in Commands
  /\ i \notin acked
  /\ tries[i] < MaxDeliver

WorkflowOpen == pc \notin {"none", "closed"}

\* ExecuteWorkflow; a workflow that was started before is not started again.
HandleStart ==
  /\ pc' = IF pc = "none" THEN "route" ELSE pc
  /\ UNCHANGED <<signals, wake, cancelReq>>

\* Mutant: the cancellation does not wake a waiting workflow.
HandleCancelUnnoticed ==
  /\ cancelReq' = (cancelReq \/ WorkflowOpen)
  /\ UNCHANGED <<pc, signals, wake>>

\* CancelWorkflow; a workflow that does not exist or is closed is no error.
HandleCancel ==
  /\ cancelReq' = (cancelReq \/ WorkflowOpen)
  /\ wake' = IF pc = "await" THEN Woken ELSE wake
  /\ UNCHANGED <<pc, signals>>

\* SignalWorkflow, only on an open workflow.
HandleSignal(e) ==
  /\ signals' = Append(signals, [node |-> e.node, decision |-> e.detail])
  /\ wake' = IF pc = "await" THEN Woken ELSE wake
  /\ UNCHANGED <<pc, cancelReq>>

Handle(e) ==
  \/ e.type = "start"         /\ HandleStart
  \/ e.type = "cancel"        /\ HandleCancel
  \/ e.type = "taskCompleted" /\ HandleSignal(e)

\* Mutant: a workflow that was started before is an error.
HandlerFailsOnRestart(e) ==
  \/ e.type = "taskCompleted" /\ ~WorkflowOpen
  \/ e.type = "start" /\ pc # "none"

HandlerFails(e) == e.type = "taskCompleted" /\ ~WorkflowOpen

BusUnchanged ==
  UNCHANGED <<storeVars, cur, steps, act, done, undo, timerFired, orphans, effects, abandoned>>

\* The handler succeeds and the acknowledgement arrives.
Deliver(i) ==
  /\ Deliverable(i)
  /\ ~HandlerFails(outbox[i])
  /\ Handle(outbox[i])
  /\ tries' = [tries EXCEPT ![i] = @ + 1]
  /\ acked' = acked \cup {i}
  /\ UNCHANGED faults
  /\ BusUnchanged

\* The handler succeeds but the acknowledgement is lost.
DeliverUnacked(i) ==
  /\ Deliverable(i)
  /\ ~HandlerFails(outbox[i])
  /\ Fault
  /\ Handle(outbox[i])
  /\ tries' = [tries EXCEPT ![i] = @ + 1]
  /\ UNCHANGED acked
  /\ BusUnchanged

\* The handler returns an error: the workflow to signal is not open, or, as a
\* fault, Temporal cannot be reached.
DeliverFails(i) ==
  /\ Deliverable(i)
  /\ IF HandlerFails(outbox[i]) THEN UNCHANGED faults ELSE Fault
  /\ tries' = [tries EXCEPT ![i] = @ + 1]
  /\ UNCHANGED <<acked, pc, signals, wake, cancelReq>>
  /\ BusUnchanged

------------------------------------------------------------------------------

Next ==
  \/ StartInstance
  \/ UserCancels
  \/ \E n \in Approvals, d \in Decisions : UserDecides(n, d)
  \/ SelectNext
  \/ SelectNextFails
  \/ TimerElapses
  \/ AwaitDecision
  \/ ApprovalTimeout
  \/ AttemptSucceeds
  \/ AttemptErrors
  \/ AttemptTimesOut
  \/ ActivityCancelled
  \/ \E a \in orphans : OrphanLands(a)
  \/ CleanupStep
  \/ \E i \in 1 .. MaxEvents : Deliver(i) \/ DeliverUnacked(i) \/ DeliverFails(i)

Spec == Init /\ [][Next]_vars

\* Temporal keeps scheduling workflow tasks and activity attempts and fires its
\* timers, and the dispatcher and JetStream keep delivering; users owe nothing.
Fairness ==
  /\ WF_vars(SelectNext \/ SelectNextFails)
  /\ WF_vars(TimerElapses)
  /\ WF_vars(AwaitDecision)
  /\ WF_vars(AttemptSucceeds \/ AttemptErrors \/ ActivityCancelled)
  /\ WF_vars(CleanupStep)
  /\ \A i \in 1 .. MaxEvents : WF_vars(Deliver(i))

PromptSpec == Spec /\ Fairness

\* The approval timeout, which may be a day away.
TimeoutFires == WF_vars(ApprovalTimeout)

------------------------------------------------------------------------------
(* Properties.                                                             *)

\* Every way from the start to n leads through m: some set of nodes holds the
\* start and not n, and is left only by edges out of m.
Guards(m, n) ==
  \E S \in SUBSET Nodes :
    /\ StartNode \in S
    /\ n \notin S
    /\ \A e \in Edges : e.from \in S /\ e.from # m => e.to \in S

Happened(kind) == {i \in DOMAIN effects : effects[i][1] = kind}

\* The detailed runtime implements InstancePromise: whatever events are lost,
\* repeated or reordered, whichever activity results are lost and whenever the
\* user cancels, the instance ends once and its end is backed by the decisions.
Promise == INSTANCE InstancePromise WITH
  Mandatory <- {m \in Approvals : \A n \in Nodes : NodeType[n] = "end" => Guards(m, n)},
  status    <- inst.status,
  verdict   <- [n \in Approvals |-> IF tasks[n].status \in Open THEN "open"
                                    ELSE tasks[n].status]

KeepsPromise == Promise!Spec

\* A service behind an approval is never called before that approval was
\* given, not by a retry, a late attempt or a stale or repeated signal of
\* another node (workflow.go:117-119 drops signals by node).
ApprovalGuardsService ==
  \A i \in Happened("invoke"), m \in Approvals :
    Guards(m, effects[i][2]) => tasks[m].status = "approved"

\* Compensation only undoes a service call that reached the service before.
CompensationFollowsInvocation ==
  \A i \in Happened("compensate") :
    \E j \in Happened("invoke") : j < i /\ effects[j][2] = effects[i][2]

\* A completed or rejected instance keeps the effects of its services: a lost
\* result of the finish activity is absorbed by the retry, which finds the
\* status already written (repository.go:450).  Only when every attempt loses
\* its result does the cleanup undo an instance that is completed.
SuccessNotUndone ==
  inst.status \in {"completed", "rejected"} /\ faults < MaxAttempts =>
    Happened("compensate") = {}

\* The completed services that have a compensation method which did not use up
\* its attempts, by their place in completedServices.
Owed == {i \in DOMAIN done : done[i] \in Compensable \ abandoned}

\* When the workflow is closed without success, every completed service with a
\* compensation method was compensated, unless its compensation used up its
\* attempts; and if no result was lost, exactly these were, each exactly once
\* and last service first (workflow.go:98-103).
SagaUndone ==
  pc = "closed" /\ inst.status \notin {"completed", "rejected"} =>
    LET undone == Happened("compensate") IN
    /\ \A i \in Owed :
         \/ \E j \in undone : effects[j][2] = done[i]
         \/ faults > 0 /\ \E a \in orphans : a.kind = "compensate" /\ a.node = done[i]
    /\ faults = 0 =>
         /\ \A j \in undone : \E i \in Owed : effects[j][2] = done[i]
         /\ \A j, k \in undone : j < k =>
              /\ effects[j] # effects[k]
              /\ \E h, i \in Owed : h < i /\ effects[j][2] = done[i] /\ effects[k][2] = done[h]

\* A closed workflow leaves no running instance behind: one terminal write is
\* part of every way out of Execute.  Its result is ignored in the deferred
\* function (workflow.go:104), so this needs fewer faults than its attempts.
ClosedMeansTerminal ==
  pc = "closed" /\ faults < CleanupAttempts => inst.status \in Terminal

\* With fewer faults than deliveries, no start or cancel command is ever
\* dead-lettered, and a decision only when the workflow is closed by now
\* (commands.go:114 returns every signal error).
DeadLetterOnlyLate ==
  \A i \in 1 .. Len(outbox) :
    tries[i] = MaxDeliver /\ i \notin acked /\ faults < MaxDeliver =>
      outbox[i].type = "taskCompleted" /\ pc = "closed"

\* An instance is quiet once it has ended and no attempt is past its database
\* check; a workflow that is started or goes on afterwards calls no service and
\* opens no task any more (activities.go:71 and repository.go:376 check the
\* status, the cancel command may be dropped by commands.go:97).
Quiet ==
  /\ inst.status \in Terminal
  /\ \A a \in orphans \cup {act} : a.kind = "invoke" => a.phase = "begun"

QuietStaysQuiet ==
  [][Quiet => /\ Quiet'
              /\ Happened("invoke")' = Happened("invoke")
              /\ \A n \in Approvals : TaskExists(n)' => TaskExists(n)]_vars

\* Every started instance ends once its approval timeouts fire, as long as
\* there are fewer faults than deliveries and cleanup attempts.
Terminates == TimeoutFires => (inst.status = "running" ~> inst.status \in Terminal)

\* After a cancellation the workflow stops for good without waiting for an
\* approval timeout, even when the cancel command was handled before the start
\* command and dropped (commands.go:95-98).
CancelStopsWorkflow == inst.status = "cancelled" ~> [](pc \in {"none", "closed"})

\* README.md:28 requires repeated signals to be idempotent: a decision that
\* reached the waiting workflow is not left behind a repeated signal of an
\* earlier node (workflow.go:117-119 takes one signal per evaluation).
NoStrandedDecision ==
  pc = "await" /\ wake = 0 => \A i \in DOMAIN signals : signals[i].node # cur

\* README.md:28 requires activity retries to be idempotent: a service task
\* reaches its service at most once (activities.go:78 sends no request key).
ServiceCalledOnce ==
  \A i, j \in Happened("invoke") : effects[i] = effects[j] => i = j
==============================================================================
