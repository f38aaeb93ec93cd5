----------------------------- MODULE EngineProofs -----------------------------
(***************************************************************************)
(* The runtime for every valid graph, any number of approvals, services,   *)
(* attempts, deliveries and faults.                                        *)
(***************************************************************************)
EXTENDS Engine, FiniteSetTheorems, TLAPS

(* -- Types ----------------------------------------------------------------- *)

\* The types without the bounds on the events and the steps.
TypeBase ==
  /\ StoreTypeOK
  /\ pc \in {"none", "route", "activity", "await", "sleep", "undo", "closed"}
  /\ cur \in Nodes
  /\ steps \in Nat
  /\ act \in {NoAct} \cup Activity
  /\ done \in Seq(ServiceNodes)
  /\ undo \in Seq(ServiceNodes)
  /\ signals \in Seq(Signal)
  /\ wake \in 0 .. 2
  /\ timerFired \in BOOLEAN
  /\ cancelReq \in BOOLEAN
  /\ orphans \subseteq Activity
  /\ effects \in Seq({"invoke", "compensate"} \X ServiceNodes)
  /\ abandoned \subseteq Compensable
  /\ tries \in [1 .. MaxEvents -> 0 .. MaxDeliver]
  /\ acked \subseteq 1 .. MaxEvents
  /\ faults \in 0 .. MaxFaults

\* What an attempt is about: the arguments Execute gives its activities.
Fits(a) ==
  /\ a.kind = "create" => a.node \in Approvals
  /\ a.kind = "invoke" => a.node \in ServiceNodes
  /\ a.kind = "compensate" => a.node \in Compensable
  /\ a.kind = "finish" => a.status \in {"completed", "rejected"}
  /\ a.kind = "fail" => a.status = "failed"

Attempts == orphans \cup {act}

AttemptsFit == \A a \in Attempts : Fits(a)

\* Where Execute stands: it waits for an activity or has none, and the activity
\* is about the current node unless it belongs to the cleanup.
Waits ==
  /\ pc = "activity" => act \in Activity
  /\ pc # "activity" => act = NoAct
  /\ pc = "await" => cur \in Approvals
  /\ pc \in {"none", "sleep"} => cur \notin Approvals
  /\ act.kind \in {"create", "invoke", "finish"} => act.node = cur

\* A completed task is announced with its decision (AddTx in CompleteTask).
EventsFit ==
  \A i \in DOMAIN outbox :
    outbox[i].type = "taskCompleted" => outbox[i].node \in Approvals /\ outbox[i].detail \in Decisions

EngineTypes == TypeBase /\ AttemptsFit /\ Waits /\ EventsFit

LEMMA Kinds ==
  /\ NoAct.kind = "none" /\ NoAct.phase = "begun" /\ NoAct.status = "none" /\ NoAct \notin Activity
  /\ Compensable \subseteq ServiceNodes /\ ServiceNodes \subseteq Nodes
  /\ Approvals \subseteq Nodes /\ Approvals \cap ServiceNodes = {}
  /\ \A n \in Nodes : n \in Approvals <=> NodeType[n] = "approval"
  /\ \A n \in Nodes : n \in ServiceNodes <=> NodeType[n] = "service_task"
BY EngineConstants, StoreConstants DEF NoAct, Activity, ServiceNodes

LEMMA ActivityFields ==
  ASSUME NEW a \in Activity
  PROVE  /\ a.kind \in {"create", "invoke", "finish", "compensate", "fail"} /\ a.node \in Nodes
         /\ a.status \in {"none"} \cup Terminal /\ a.tries \in Nat
         /\ a.phase \in {"begun", "advanced"}
BY DEF Activity

\* A retried attempt differs from the one before in its number and phase.
LEMMA RetriedFields ==
  ASSUME NEW a \in Activity, NEW b, b = [a EXCEPT !.tries = a.tries + 1, !.phase = "begun"]
  PROVE  /\ b \in Activity /\ b.kind = a.kind /\ b.node = a.node /\ b.status = a.status
         /\ b.tries = a.tries + 1 /\ b.phase = "begun"
<1>1. a.tries \in Nat /\ a.tries + 1 \in Nat
  BY DEF Activity
<1> QED BY <1>1 DEF Activity

LEMMA AdvancedFields ==
  ASSUME NEW a \in Activity, NEW b, b = [a EXCEPT !.phase = "advanced"]
  PROVE  /\ b \in Activity /\ b.kind = a.kind /\ b.node = a.node /\ b.status = a.status
         /\ b.tries = a.tries /\ b.phase = "advanced"
BY DEF Activity

LEMMA ScheduledFields ==
  ASSUME NEW kind \in {"create", "invoke", "finish", "compensate", "fail"}, NEW n \in Nodes,
         NEW status \in {"none"} \cup Terminal, Schedule(kind, n, status)
  PROVE  /\ pc' = "activity" /\ act' \in Activity /\ act'.kind = kind /\ act'.node = n
         /\ act'.status = status /\ act'.tries = 0 /\ act'.phase = "begun"
BY DEF Schedule, Activity

\* The graph: where an edge leads, and what the start node is.
LEMMA GraphFacts ==
  /\ StartNode \in Nodes /\ StartNode \notin Approvals
  /\ \A n \in Nodes : \A m \in Targets(n) :
       m \in Nodes /\ NodeType[m] # "start" /\ \E e \in Edges : e.from = n /\ e.to = m
<1>1. \E n \in Nodes : NodeType[n] = "start"
  BY EngineConstants
<1>2. StartNode \in Nodes /\ NodeType[StartNode] = "start"
  BY <1>1 DEF StartNode
<1>3. \A e \in Edges : e.from \in Nodes /\ e.to \in Nodes /\ NodeType[e.to] # "start"
  BY EngineConstants
<1> QED BY <1>2, <1>3, EngineConstants DEF Targets, Conditional

(* -- The rows ---------------------------------------------------------------- *)

LEMMA Statuses ==
  /\ {"pending", "claimed", "approved", "rejected"} \subseteq TaskStatus
  /\ {"running", "cancelled"} \subseteq InstanceStatus
  /\ Terminal \subseteq InstanceStatus
  /\ {"completed", "rejected", "failed"} \subseteq Terminal
  /\ "running" \notin Terminal /\ "none" \notin Terminal
  /\ Terminal \cap {"approve", "reject", "none"} = {}
  /\ \A d \in Decisions : StatusOf(d) \in Decided
BY DEF TaskStatus, InstanceStatus, Terminal, Open, Decided, StatusOf, Decisions

\* The transitions of the rows as far as the runtime can tell them apart, each
\* with the event that is written with it.
TaskMoves(n, from, to) ==
  /\ n \in Approvals
  /\ tasks[n].status \in from
  /\ \A m \in Approvals : tasks'[m].status = IF m = n THEN to ELSE tasks[m].status

TasksKept == \A m \in Approvals : tasks'[m].status = tasks[m].status

Announced(type, node, detail) ==
  outbox' = Append(outbox, [type |-> type, node |-> node, detail |-> detail])

RowsKept == TasksKept /\ inst'.status = inst.status /\ outbox' = outbox

RowStarted ==
  /\ inst.status = "none" /\ inst'.status = "running"
  /\ TasksKept /\ Announced("start", None, "none")

RowCancelled ==
  /\ inst.status = "running" /\ inst'.status = "cancelled"
  /\ TasksKept /\ Announced("cancel", None, "none")

RowFinished(s) ==
  /\ s \in {"completed", "rejected", "failed"}
  /\ inst.status = "running" /\ inst'.status = s
  /\ TasksKept /\ Announced("statusChanged", None, s)

TaskOpened(n) ==
  /\ inst.status = "running" /\ inst'.status = "running"
  /\ TaskMoves(n, {"none"}, "pending") /\ Announced("taskCreated", n, "none")

TaskDecided(n, d) ==
  /\ d \in Decisions /\ inst'.status = inst.status
  /\ TaskMoves(n, Open, StatusOf(d)) /\ Announced("taskCompleted", n, d)

LEMMA AnnouncedType ==
  ASSUME outbox \in Seq(Event),
         NEW type \in EventTypes, NEW node \in Nodes \cup {None},
         NEW detail \in Decisions \cup Terminal \cup {"none"},
         AddTx(type, node, detail)
  PROVE  outbox' \in Seq(Event) /\ Announced(type, node, detail)
<1>1. [type |-> type, node |-> node, detail |-> detail] \in Event
  BY DEF Event
<1> QED BY <1>1 DEF AddTx, Announced

LEMMA StartRows ==
  ASSUME StoreTypeOK, CreateInstance
  PROVE  StoreTypeOK' /\ RowStarted
<1>1. inst' \in Instance /\ inst'.status = "running" /\ inst.status = "none"
  BY DEF CreateInstance, Instance, InstanceStatus
<1>2. outbox' \in Seq(Event) /\ Announced("start", None, "none")
  BY AnnouncedType DEF CreateInstance, StoreTypeOK, EventTypes
<1> QED BY <1>1, <1>2 DEF CreateInstance, StoreTypeOK, RowStarted, TasksKept

LEMMA CancelRows ==
  ASSUME StoreTypeOK, CancelInstance(inst.version)
  PROVE  StoreTypeOK' /\ RowCancelled
<1>1. inst' \in Instance /\ inst'.status = "cancelled" /\ inst.status = "running"
  <2>1. inst.version + 1 \in Nat
    BY DEF StoreTypeOK, Instance
  <2> QED BY <2>1, Statuses DEF CancelInstance, StoreTypeOK, Instance
<1>2. outbox' \in Seq(Event) /\ Announced("cancel", None, "none")
  BY AnnouncedType DEF CancelInstance, StoreTypeOK, EventTypes
<1> QED BY <1>1, <1>2 DEF CancelInstance, StoreTypeOK, RowCancelled, TasksKept

LEMMA AdvanceRows ==
  ASSUME StoreTypeOK, NEW n \in Nodes, inst' = AdvancedTo(n)
  PROVE  inst' \in Instance /\ inst'.status = inst.status
<1>1. inst.version + 1 \in Nat
  BY DEF StoreTypeOK, Instance
<1> QED BY <1>1 DEF AdvancedTo, StoreTypeOK, Instance

LEMMA FinishRows ==
  ASSUME StoreTypeOK, NEW s \in {"completed", "rejected", "failed"}, FinishInstance(s)
  PROVE  StoreTypeOK' /\ ((RowsKept /\ inst.status = s) \/ RowFinished(s))
<1>1. CASE inst.status = s
  BY <1>1 DEF FinishInstance, StoreTypeOK, RowsKept, TasksKept
<1>2. CASE inst.status # s
  <2>1. inst.status = "running"
    BY <1>2 DEF FinishInstance, FinishAccepted
  <2>2. inst' \in Instance /\ inst'.status = s
    <3>1. inst.version + 1 \in Nat
      BY DEF StoreTypeOK, Instance
    <3> QED BY <1>2, <3>1, Statuses DEF FinishInstance, StoreTypeOK, Instance
  <2>3. outbox' \in Seq(Event) /\ Announced("statusChanged", None, s)
    BY <1>2, AnnouncedType, Statuses DEF FinishInstance, StoreTypeOK, EventTypes
  <2> QED BY <2>1, <2>2, <2>3 DEF FinishInstance, StoreTypeOK, RowFinished, TasksKept
<1> QED BY <1>1, <1>2

LEMMA CreateTaskRows ==
  ASSUME StoreTypeOK, NEW n \in Approvals, CreateTask(n)
  PROVE  StoreTypeOK' /\ ((RowsKept /\ TaskExists(n)) \/ TaskOpened(n))
<1>1. CASE TaskExists(n)
  BY <1>1 DEF CreateTask, StoreTypeOK, RowsKept, TasksKept
<1>2. CASE ~TaskExists(n)
  <2>1. inst.status = "running"
    BY <1>2 DEF CreateTask, CreateTaskAccepted
  <2>2. inst' \in Instance /\ inst'.status = "running"
    BY <1>2, <2>1, AdvanceRows, StoreConstants DEF CreateTask
  <2>3. tasks' \in [Approvals -> Task] /\ TaskMoves(n, {"none"}, "pending")
    <3>1. tasks' = [tasks EXCEPT ![n].status = "pending", ![n].version = 1]
      BY <1>2 DEF CreateTask
    <3>2. tasks[n] \in Task
      BY DEF StoreTypeOK
    <3>3. /\ [tasks[n] EXCEPT !.status = "pending", !.version = 1] \in Task
          /\ [tasks[n] EXCEPT !.status = "pending", !.version = 1].status = "pending"
      BY <3>2, Statuses DEF Task
    <3>4. tasks' \in [Approvals -> Task]
      BY <3>1, <3>3 DEF StoreTypeOK
    <3>5. \A m \in Approvals : tasks'[m].status = IF m = n THEN "pending" ELSE tasks[m].status
      BY <3>1, <3>3 DEF StoreTypeOK
    <3> QED BY <1>2, <3>4, <3>5 DEF TaskExists, TaskMoves
  <2>4. outbox' \in Seq(Event) /\ Announced("taskCreated", n, "none")
    BY <1>2, AnnouncedType, StoreConstants DEF CreateTask, StoreTypeOK, EventTypes
  <2> QED BY <1>2, <2>1, <2>2, <2>3, <2>4 DEF CreateTask, StoreTypeOK, TaskOpened
<1> QED BY <1>1, <1>2

LEMMA DecideRows ==
  ASSUME StoreTypeOK, NEW n \in Approvals, NEW d \in Decisions, NEW u \in Users,
         CompleteTask(n, tasks[n], d, u)
  PROVE  StoreTypeOK' /\ TaskDecided(n, d)
<1>1. tasks' \in [Approvals -> Task] /\ TaskMoves(n, Open, StatusOf(d))
  <2>1. tasks' = [tasks EXCEPT ![n].status = StatusOf(d), ![n].version = @ + 1]
    BY DEF CompleteTask
  <2>2. tasks[n] \in Task /\ tasks[n].version + 1 \in Nat
    BY DEF StoreTypeOK, Task
  <2>3. StatusOf(d) \in TaskStatus
    BY Statuses DEF TaskStatus
  <2>4. /\ [tasks[n] EXCEPT !.status = StatusOf(d), !.version = tasks[n].version + 1] \in Task
        /\ [tasks[n] EXCEPT !.status = StatusOf(d), !.version = tasks[n].version + 1].status = StatusOf(d)
    BY <2>2, <2>3 DEF Task
  <2>5. tasks' = [tasks EXCEPT ![n] = [tasks[n] EXCEPT !.status = StatusOf(d), !.version = tasks[n].version + 1]]
    BY <2>1 DEF StoreTypeOK
  <2>6. tasks' \in [Approvals -> Task]
    BY <2>4, <2>5 DEF StoreTypeOK
  <2>7. \A m \in Approvals : tasks'[m].status = IF m = n THEN StatusOf(d) ELSE tasks[m].status
    BY <2>4, <2>5 DEF StoreTypeOK
  <2>8. tasks[n].status \in Open
    BY DEF CompleteTask, Writable
  <2> QED BY <2>6, <2>7, <2>8 DEF TaskMoves
<1>2. history' \in [Approvals -> Seq(HistoryRow)]
  <2> DEFINE row == [action |-> "complete", actor |-> u, from |-> tasks[n].status, to |-> StatusOf(d)]
  <2>1. row \in HistoryRow
    BY Statuses DEF HistoryRow, StoreTypeOK, Task, TaskStatus
  <2>2. history' = [history EXCEPT ![n] = Append(@, row)]
    BY DEF CompleteTask, Record
  <2>3. Append(history[n], row) \in Seq(HistoryRow)
    BY <2>1 DEF StoreTypeOK
  <2> QED BY <2>2, <2>3 DEF StoreTypeOK
<1>3. outbox' \in Seq(Event) /\ Announced("taskCompleted", n, d)
  BY AnnouncedType, StoreConstants DEF CompleteTask, StoreTypeOK, EventTypes
<1> QED BY <1>1, <1>2, <1>3 DEF CompleteTask, StoreTypeOK, TaskDecided

\* One call of an attempt, as far as the rows and the effects can tell.
CallView(a) ==
  \/ /\ a.kind = "create" /\ UNCHANGED effects
     /\ (RowsKept /\ TaskExists(a.node)) \/ TaskOpened(a.node)
  \/ /\ a.kind = "invoke" /\ a.phase = "begun" /\ inst.status = "running"
     /\ RowsKept /\ UNCHANGED effects
  \/ /\ a.kind = "invoke" /\ a.phase = "advanced"
     /\ RowsKept /\ effects' = Append(effects, <<"invoke", a.node>>)
  \/ /\ a.kind = "compensate"
     /\ RowsKept /\ effects' = Append(effects, <<"compensate", a.node>>)
  \/ /\ a.kind = "finish" /\ UNCHANGED effects
     /\ (RowsKept /\ inst.status = a.status) \/ RowFinished(a.status)
  \/ /\ a.kind = "fail" /\ UNCHANGED effects
     /\ (RowsKept /\ inst.status # "running") \/ RowFinished("failed")

LEMMA CallRows ==
  ASSUME TypeBase, NEW a \in Activity, Fits(a), Call(a)
  PROVE  /\ StoreTypeOK' /\ effects' \in Seq({"invoke", "compensate"} \X ServiceNodes)
         /\ CallView(a)
<1>0. StoreTypeOK /\ effects \in Seq({"invoke", "compensate"} \X ServiceNodes)
  BY DEF TypeBase
<1>k. UNCHANGED storeVars => StoreTypeOK' /\ RowsKept
  BY <1>0 DEF storeVars, StoreTypeOK, RowsKept, TasksKept
<1>1. CASE CreateApprovalTask(a)
  <2>1. a.kind = "create" /\ a.node \in Approvals /\ CreateTask(a.node) /\ UNCHANGED effects
    BY <1>1 DEF CreateApprovalTask, Fits
  <2>2. StoreTypeOK' /\ ((RowsKept /\ TaskExists(a.node)) \/ TaskOpened(a.node))
    BY <1>0, <2>1, CreateTaskRows
  <2> QED BY <1>0, <2>1, <2>2 DEF CallView
<1>2. CASE InvokeServiceTask(a)
  <2>1. a.kind = "invoke" /\ a.node \in ServiceNodes /\ a.node \in Nodes /\ a.phase \in {"begun", "advanced"}
    BY <1>2, ActivityFields DEF InvokeServiceTask, Fits
  <2>2. CASE a.phase = "begun"
    <3>1. UpdateInstanceNode(a.node) /\ UNCHANGED effects
      BY <1>2, <2>2 DEF InvokeServiceTask
    <3>2. inst' \in Instance /\ inst'.status = inst.status
      BY <1>0, <2>1, <3>1, AdvanceRows DEF UpdateInstanceNode
    <3>3. StoreTypeOK' /\ RowsKept /\ inst.status = "running"
      BY <1>0, <3>1, <3>2 DEF UpdateInstanceNode, StoreTypeOK, RowsKept, TasksKept
    <3> QED BY <1>0, <2>1, <2>2, <3>1, <3>3 DEF CallView
  <2>3. CASE a.phase = "advanced"
    <3>1. effects' = Append(effects, <<"invoke", a.node>>) /\ UNCHANGED storeVars
      BY <1>2, <2>3 DEF InvokeServiceTask
    <3>2. effects' \in Seq({"invoke", "compensate"} \X ServiceNodes)
      BY <1>0, <2>1, <3>1
    <3> QED BY <1>k, <2>1, <2>3, <3>1, <3>2 DEF CallView
  <2> QED BY <2>1, <2>2, <2>3
<1>3. CASE CompensateServiceTask(a)
  <2>1. /\ a.kind = "compensate" /\ a.node \in ServiceNodes /\ UNCHANGED storeVars
        /\ effects' = Append(effects, <<"compensate", a.node>>)
    BY <1>3, Kinds DEF CompensateServiceTask, Fits
  <2>2. effects' \in Seq({"invoke", "compensate"} \X ServiceNodes)
    BY <1>0, <2>1
  <2> QED BY <1>k, <2>1, <2>2 DEF CallView
<1>4. CASE FinishActivity(a)
  <2>0. UNCHANGED effects
    BY <1>4 DEF FinishActivity
  <2>1. CASE a.kind = "finish" /\ FinishInstance(a.status)
    <3>1. a.status \in {"completed", "rejected", "failed"}
      BY <2>1 DEF Fits
    <3>2. StoreTypeOK' /\ ((RowsKept /\ inst.status = a.status) \/ RowFinished(a.status))
      BY <1>0, <2>1, <3>1, FinishRows
    <3> QED BY <1>0, <2>0, <2>1, <3>2 DEF CallView
  <2>2. CASE a.kind = "fail" /\ FinishAccepted("failed") /\ FinishInstance("failed")
    <3>1. StoreTypeOK' /\ ((RowsKept /\ inst.status = "failed") \/ RowFinished("failed"))
      BY <1>0, <2>2, FinishRows
    <3> QED BY <1>0, <2>0, <2>2, <3>1 DEF CallView
  <2>3. CASE a.kind = "fail" /\ ~FinishAccepted("failed") /\ UNCHANGED storeVars
    BY <1>0, <1>k, <2>0, <2>3 DEF CallView, FinishAccepted
  <2> QED BY <1>4, <2>1, <2>2, <2>3 DEF FinishActivity
<1> QED BY <1>1, <1>2, <1>3, <1>4 DEF Call

(* -- Types are kept ------------------------------------------------------------ *)

LEMMA EventsGrow ==
  ASSUME outbox \in Seq(Event), EventsFit, NEW type, NEW node, NEW detail,
         Announced(type, node, detail),
         type = "taskCompleted" => node \in Approvals /\ detail \in Decisions
  PROVE  EventsFit'
<1> DEFINE e == [type |-> type, node |-> node, detail |-> detail]
<1>1. e.type = type /\ e.node = node /\ e.detail = detail
  OBVIOUS
<1> HIDE DEF e
<1>2. \A i \in DOMAIN outbox' : (i \in DOMAIN outbox /\ outbox'[i] = outbox[i]) \/ outbox'[i] = e
  BY DEF Announced, e
<1> QED BY <1>1, <1>2 DEF EventsFit

LEMMA ApiTypes ==
  ASSUME EngineTypes, StoreTypeOK', EventsFit', ApiOnly
  PROVE  EngineTypes'
<1>1. UNCHANGED <<pc, cur, steps, act, done, undo, signals, wake, timerFired, cancelReq,
                  orphans, effects, abandoned, tries, acked, faults>>
  BY DEF ApiOnly, wfVars, busVars
<1> QED BY <1>1 DEF EngineTypes, TypeBase, AttemptsFit, Attempts, Waits

\* The part of the types the workflow's own steps can disturb.
ControlTypes ==
  /\ pc \in {"none", "route", "activity", "await", "sleep", "undo", "closed"}
  /\ cur \in Nodes
  /\ steps \in Nat
  /\ act \in {NoAct} \cup Activity
  /\ Fits(act)
  /\ done \in Seq(ServiceNodes)
  /\ undo \in Seq(ServiceNodes)
  /\ wake \in 0 .. 2
  /\ timerFired \in BOOLEAN
  /\ Waits

LEMMA NoActFits == Fits(NoAct)
BY Kinds DEF Fits

LEMMA CleanupTypes ==
  ASSUME EngineTypes, BeginCleanup, cur' \in Nodes, steps' \in Nat
  PROVE  ControlTypes'
<1>1. /\ pc' = "undo" /\ act' = NoAct /\ undo' = done /\ done' = done /\ wake' = 0
      /\ timerFired' = FALSE
  BY DEF BeginCleanup
<1>2. Fits(act') /\ act'.kind = "none"
  BY <1>1, NoActFits, Kinds
<1>3. Waits'
  BY <1>1, <1>2, Kinds DEF Waits
<1>4. timerFired' \in BOOLEAN
  BY <1>1
<1>5. undo' \in Seq(ServiceNodes) /\ done' \in Seq(ServiceNodes) /\ wake' \in 0 .. 2
  BY <1>1 DEF EngineTypes, TypeBase
<1> QED BY <1>1, <1>2, <1>3, <1>4, <1>5 DEF ControlTypes, Fits

\* A step of the workflow that leaves the rows alone.
LEMMA ControlStep ==
  ASSUME EngineTypes, ControlTypes', UNCHANGED storeVars, signals' \in Seq(Signal),
         UNCHANGED <<cancelReq, effects, busVars>>,
         orphans' \subseteq Attempts \ {NoAct}, abandoned' \subseteq Compensable, faults' \in 0 .. MaxFaults
  PROVE  EngineTypes'
<1>1. /\ UNCHANGED <<inst, tasks, history, outbox, tries, acked>>
  BY DEF storeVars, busVars
<1>2. orphans' \subseteq Activity /\ \A a \in orphans' : Fits(a)
  BY DEF EngineTypes, TypeBase, AttemptsFit, Attempts
<1>3. TypeBase'
  BY <1>1, <1>2 DEF EngineTypes, TypeBase, ControlTypes, StoreTypeOK
<1>4. AttemptsFit'
  BY <1>2 DEF AttemptsFit, Attempts, ControlTypes, Fits
<1>5. Waits' /\ EventsFit'
  BY <1>1 DEF ControlTypes, EngineTypes, EventsFit
<1> QED BY <1>3, <1>4, <1>5 DEF EngineTypes

LEMMA OrphansKept ==
  ASSUME EngineTypes
  PROVE  orphans \subseteq Attempts \ {NoAct} /\ (pc = "activity" => act \in Activity /\ orphans \cup {act} \subseteq Attempts \ {NoAct})
BY Kinds DEF EngineTypes, TypeBase, Attempts, Waits

LEMMA VisitTypes ==
  ASSUME EngineTypes, NEW n \in Nodes, NodeType[n] # "start", Visit(n)
  PROVE  ControlTypes'
<1>1. cur' \in Nodes /\ cur' = n /\ steps' \in Nat
  BY DEF Visit, EngineTypes, TypeBase
<1>2. CASE cancelReq \/ steps + 1 > Cardinality(Nodes)
  BY <1>1, <1>2, CleanupTypes DEF Visit
<1>3. CASE ~(cancelReq \/ steps + 1 > Cardinality(Nodes))
  <2>0. UNCHANGED <<done, undo, wake, timerFired>>
    BY <1>3 DEF Visit
  <2>1. CASE NodeType[n] = "approval"
    <3>1. Schedule("create", n, "none")
      BY <1>3, <2>1 DEF Visit
    <3>2. /\ pc' = "activity" /\ act' \in Activity /\ act'.kind = "create" /\ act'.node = n
          /\ act'.status = "none"
      BY <3>1, ScheduledFields
    <3> QED BY <1>1, <2>0, <2>1, <3>2, Kinds DEF EngineTypes, TypeBase, ControlTypes, Waits, Fits
  <2>2. CASE NodeType[n] = "service_task"
    <3>1. Schedule("invoke", n, "none")
      BY <1>3, <2>2 DEF Visit
    <3>2. /\ pc' = "activity" /\ act' \in Activity /\ act'.kind = "invoke" /\ act'.node = n
          /\ act'.status = "none"
      BY <3>1, ScheduledFields
    <3> QED BY <1>1, <2>0, <2>2, <3>2, Kinds DEF EngineTypes, TypeBase, ControlTypes, Waits, Fits
  <2>3. CASE NodeType[n] = "end"
    <3>1. Schedule("finish", n, "completed")
      BY <1>3, <2>3 DEF Visit
    <3>2. /\ pc' = "activity" /\ act' \in Activity /\ act'.kind = "finish" /\ act'.node = n
          /\ act'.status = "completed"
      BY <3>1, ScheduledFields, Statuses
    <3> QED BY <1>1, <2>0, <2>3, <3>2, Kinds DEF EngineTypes, TypeBase, ControlTypes, Waits, Fits
  <2>4. CASE NodeType[n] = "timer"
    <3>1. pc' = "sleep" /\ act' = NoAct
      BY <1>3, <2>4 DEF Visit
    <3> QED BY <1>1, <2>0, <2>4, <3>1, Kinds, NoActFits DEF EngineTypes, TypeBase, ControlTypes, Waits
  <2>5. NodeType[n] \in {"approval", "service_task", "end", "timer"}
    BY EngineConstants
  <2> QED BY <2>1, <2>2, <2>3, <2>4, <2>5
<1> QED BY <1>2, <1>3

LEMMA RouteTypes ==
  ASSUME EngineTypes, SelectNext \/ SelectNextFails \/ TimerElapses
  PROVE  EngineTypes'
<1>1. /\ UNCHANGED <<storeVars, signals, cancelReq, orphans, effects, abandoned, busVars, faults>>
      /\ pc \in {"route", "sleep"}
  BY DEF SelectNext, SelectNextFails, TimerElapses
<1>2. cur \in Nodes /\ steps \in Nat
  BY DEF EngineTypes, TypeBase
<1>3. CASE SelectNext
  <2>1. PICK n \in Targets(cur) : Visit(n)
    BY <1>3 DEF SelectNext
  <2>2. n \in Nodes /\ NodeType[n] # "start"
    BY <1>2, GraphFacts
  <2>3. ControlTypes'
    BY <2>1, <2>2, VisitTypes
  <2> QED BY <1>1, <2>3, ControlStep, OrphansKept DEF EngineTypes, TypeBase
<1>4. CASE UNCHANGED <<cur, steps>> /\ BeginCleanup
  <2>1. ControlTypes'
    BY <1>2, <1>4, CleanupTypes
  <2> QED BY <1>1, <2>1, ControlStep, OrphansKept DEF EngineTypes, TypeBase
<1>5. CASE TimerElapses /\ ~cancelReq
  <2>1. pc' = "route" /\ UNCHANGED <<cur, steps, act, done, undo, wake, timerFired>> /\ pc = "sleep"
    BY <1>5 DEF TimerElapses
  <2>2. ControlTypes'
    BY <2>1 DEF ControlTypes, EngineTypes, TypeBase, Waits, AttemptsFit, Attempts, Fits
  <2> QED BY <1>1, <2>2, ControlStep, OrphansKept DEF EngineTypes, TypeBase
<1> QED BY <1>3, <1>4, <1>5 DEF SelectNextFails, TimerElapses

LEMMA AwaitTypes ==
  ASSUME EngineTypes, AwaitDecision \/ ApprovalTimeout
  PROVE  EngineTypes'
<1>1. /\ UNCHANGED <<storeVars, cur, steps, cancelReq, orphans, effects, abandoned, busVars, faults>>
      /\ pc = "await" /\ cur \in Nodes /\ steps \in Nat /\ cur \in Approvals
  BY DEF AwaitDecision, ApprovalTimeout, EngineTypes, TypeBase, Waits
<1>2. signals' \in Seq(Signal)
  <2>1. signals' = signals \/ (signals # <<>> /\ signals' = Tail(signals))
    BY DEF AwaitDecision, ApprovalTimeout
  <2>2. signals \in Seq(Signal)
    BY DEF EngineTypes, TypeBase
  <2> QED BY <2>1, <2>2
<1> SUFFICES ControlTypes'
  BY <1>1, <1>2, ControlStep, OrphansKept DEF EngineTypes, TypeBase
<1>3. CASE BeginCleanup
  BY <1>1, <1>3, CleanupTypes
<1>4. CASE Schedule("finish", cur, "rejected") /\ wake' = 0 /\ timerFired' = FALSE /\ UNCHANGED <<done, undo>>
  <2>1. /\ pc' = "activity" /\ act' \in Activity /\ act'.kind = "finish" /\ act'.node = cur
        /\ act'.status = "rejected"
    BY <1>1, <1>4, ScheduledFields, Statuses
  <2>2. Fits(act)' /\ Waits'
    BY <1>1, <2>1 DEF Fits, Waits
  <2>3. timerFired' \in BOOLEAN
    BY <1>4
  <2> QED BY <1>1, <1>4, <2>1, <2>2, <2>3 DEF ControlTypes, EngineTypes, TypeBase
<1>5. CASE pc' = "route" /\ UNCHANGED <<act, done, undo>> /\ wake' = 0 /\ timerFired' = FALSE
  <2>1. Fits(act)' /\ Waits'
    BY <1>1, <1>5 DEF Fits, Waits, EngineTypes, AttemptsFit, Attempts
  <2>2. timerFired' \in BOOLEAN
    BY <1>5
  <2> QED BY <1>1, <1>5, <2>1, <2>2 DEF ControlTypes, EngineTypes, TypeBase
<1>6. CASE wake > 0 /\ wake' = wake - 1 /\ UNCHANGED <<pc, act, done, undo, timerFired>>
  <2>1. Fits(act)' /\ Waits'
    BY <1>1, <1>6 DEF Fits, Waits, EngineTypes, AttemptsFit, Attempts
  <2> QED BY <1>1, <1>6, <2>1 DEF ControlTypes, EngineTypes, TypeBase
<1>7. CASE ApprovalTimeout
  <2>1. UNCHANGED <<pc, act, done, undo>> /\ timerFired' = TRUE /\ wake' = Woken
    BY <1>7 DEF ApprovalTimeout
  <2>2. Fits(act)' /\ Waits'
    BY <1>1, <2>1 DEF Fits, Waits, EngineTypes, AttemptsFit, Attempts
  <2>3. timerFired' \in BOOLEAN
    BY <2>1
  <2> QED BY <1>1, <2>1, <2>2, <2>3 DEF ControlTypes, EngineTypes, TypeBase, Woken
<1> QED BY <1>3, <1>4, <1>5, <1>6, <1>7 DEF AwaitDecision

LEMMA CleanupStepTypes ==
  ASSUME EngineTypes, CleanupStep
  PROVE  EngineTypes'
<1>1. /\ UNCHANGED <<storeVars, cur, steps, done, signals, wake, timerFired, cancelReq, orphans,
                     effects, abandoned, busVars, faults>>
      /\ pc = "undo" /\ act = NoAct /\ cur \in Nodes /\ undo \in Seq(ServiceNodes)
  BY DEF CleanupStep, EngineTypes, TypeBase, Waits
<1> SUFFICES ControlTypes'
  BY <1>1, ControlStep, OrphansKept DEF EngineTypes, TypeBase
<1>2. CASE undo = <<>>
  <2>1. Schedule("fail", cur, "failed") /\ UNCHANGED undo
    BY <1>2 DEF CleanupStep
  <2>2. pc' = "activity" /\ act' \in Activity /\ act'.kind = "fail" /\ act'.status = "failed"
    BY <1>1, <2>1, ScheduledFields, Statuses
  <2>3. Fits(act)' /\ Waits'
    BY <1>1, <2>2 DEF Fits, Waits
  <2> QED BY <1>1, <2>1, <2>2, <2>3 DEF ControlTypes, EngineTypes, TypeBase
<1>3. CASE undo # <<>>
  <2>1. undo' = Front(undo) /\ Last(undo) \in ServiceNodes /\ Last(undo) \in Nodes
    BY <1>1, <1>3, Kinds DEF CleanupStep, Last
  <2>2. undo' \in Seq(ServiceNodes)
    BY <1>1, <1>3, <2>1 DEF Front
  <2>3. CASE Last(undo) \in Compensable
    <3>1. Schedule("compensate", Last(undo), "none")
      BY <1>3, <2>3 DEF CleanupStep
    <3>2. pc' = "activity" /\ act' \in Activity /\ act'.kind = "compensate" /\ act'.node = Last(undo)
      BY <2>1, <3>1, ScheduledFields
    <3>3. Fits(act)' /\ Waits'
      BY <1>1, <2>3, <3>2 DEF Fits, Waits
    <3> QED BY <1>1, <2>2, <3>2, <3>3 DEF ControlTypes, EngineTypes, TypeBase
  <2>4. CASE Last(undo) \notin Compensable
    <3>1. UNCHANGED <<pc, act>>
      BY <1>3, <2>4 DEF CleanupStep
    <3>2. Fits(act)' /\ Waits'
      BY <1>1, <3>1 DEF Fits, Waits, EngineTypes, AttemptsFit, Attempts
    <3> QED BY <1>1, <2>2, <3>1, <3>2 DEF ControlTypes, EngineTypes, TypeBase
  <2> QED BY <2>3, <2>4
<1> QED BY <1>2, <1>3

\* The three ways on after an attempt without a result.
Retried(a) ==
  /\ a.tries + 1 < AttemptLimit(a)
  /\ act' \in Activity
  /\ act'.kind = a.kind /\ act'.node = a.node /\ act'.status = a.status
  /\ act'.tries = a.tries + 1 /\ act'.phase = "begun"
  /\ UNCHANGED <<pc, done, undo, wake, timerFired, abandoned>>

CleanupDropped(a) ==
  /\ a.tries + 1 >= AttemptLimit(a)
  /\ a.kind \in {"compensate", "fail"}
  /\ act' = NoAct
  /\ pc' = IF a.kind = "compensate" THEN "undo" ELSE "closed"
  /\ abandoned' = IF a.kind = "compensate" THEN abandoned \cup {a.node} ELSE abandoned
  /\ UNCHANGED <<done, undo, wake, timerFired>>

WorkStopped(a) ==
  /\ a.tries + 1 >= AttemptLimit(a)
  /\ a.kind \in {"create", "invoke", "finish"}
  /\ BeginCleanup
  /\ UNCHANGED abandoned

LEMMA RetryView ==
  ASSUME NEW a \in Activity, RetryOrGiveUp(a)
  PROVE  Retried(a) \/ CleanupDropped(a) \/ WorkStopped(a)
<1>1. a.tries + 1 \in Nat /\ AttemptLimit(a) \in Nat
  BY ActivityFields, EngineConstants DEF AttemptLimit
<1>2. CASE a.tries + 1 < AttemptLimit(a)
  <2>1. /\ act' = [a EXCEPT !.tries = a.tries + 1, !.phase = "begun"]
        /\ UNCHANGED <<pc, done, undo, wake, timerFired, abandoned>>
    BY <1>2 DEF RetryOrGiveUp
  <2> QED BY <1>2, <2>1, RetriedFields DEF Retried
<1>3. CASE ~(a.tries + 1 < AttemptLimit(a))
  <2>1. GivenUp(a) /\ a.tries + 1 >= AttemptLimit(a)
    BY <1>1, <1>3 DEF RetryOrGiveUp
  <2>2. a.kind \in {"create", "invoke", "finish"} <=> ~InCleanup(a)
    BY ActivityFields DEF InCleanup
  <2>3. CASE InCleanup(a)
    BY <2>1, <2>3 DEF GivenUp, InCleanup, CleanupDropped
  <2>4. CASE ~InCleanup(a)
    BY <2>1, <2>2, <2>4 DEF GivenUp, WorkStopped
  <2> QED BY <2>3, <2>4
<1> QED BY <1>2, <1>3

LEMMA RetryTypes ==
  ASSUME EngineTypes, pc = "activity", RetryOrGiveUp(act), UNCHANGED <<cur, steps>>
  PROVE  ControlTypes' /\ abandoned' \subseteq Compensable
<1>1. act \in Activity /\ Fits(act) /\ Waits /\ cur \in Nodes /\ steps \in Nat /\ abandoned \subseteq Compensable
  BY DEF EngineTypes, TypeBase, Waits, AttemptsFit, Attempts
<1>2. CASE Retried(act)
  <2>1. Fits(act)' /\ Waits'
    BY <1>1, <1>2 DEF Retried, Fits, Waits
  <2> QED BY <1>1, <1>2, <2>1 DEF Retried, ControlTypes, EngineTypes, TypeBase
<1>3. CASE CleanupDropped(act)
  <2>1. Fits(act)' /\ Waits'
    BY <1>3, NoActFits, Kinds DEF CleanupDropped, Waits, Fits
  <2>2. abandoned' \subseteq Compensable
    BY <1>1, <1>3 DEF CleanupDropped, Fits
  <2> QED BY <1>1, <1>3, <2>1, <2>2 DEF CleanupDropped, ControlTypes, EngineTypes, TypeBase
<1>4. CASE WorkStopped(act)
  <2>1. BeginCleanup /\ UNCHANGED abandoned
    BY <1>4 DEF WorkStopped
  <2> QED BY <1>1, <2>1, CleanupTypes
<1> QED BY <1>1, <1>2, <1>3, <1>4, RetryView

LEMMA AttemptLostTypes ==
  ASSUME EngineTypes, AttemptErrors \/ AttemptTimesOut \/ ActivityCancelled
  PROVE  EngineTypes'
<1>1. /\ pc = "activity"
      /\ UNCHANGED <<storeVars, effects, cur, steps, signals, cancelReq, busVars>>
      /\ orphans' = orphans \/ orphans' = orphans \cup {act}
  BY DEF AttemptErrors, AttemptTimesOut, ActivityCancelled, AttemptUnchanged
<1>2. faults' \in 0 .. MaxFaults
  <2>1. faults' = faults \/ (faults < MaxFaults /\ faults' = faults + 1)
    BY DEF AttemptErrors, AttemptTimesOut, ActivityCancelled, Fault
  <2> QED BY <2>1, EngineConstants DEF EngineTypes, TypeBase
<1>3. cur \in Nodes /\ steps \in Nat /\ abandoned \subseteq Compensable /\ signals \in Seq(Signal)
  BY DEF EngineTypes, TypeBase
<1>4. ControlTypes' /\ abandoned' \subseteq Compensable
  <2>1. CASE RetryOrGiveUp(act)
    BY <1>1, <2>1, RetryTypes
  <2>2. CASE BeginCleanup /\ UNCHANGED abandoned
    BY <1>1, <1>3, <2>2, CleanupTypes
  <2> QED BY <2>1, <2>2 DEF AttemptErrors, AttemptTimesOut, ActivityCancelled
<1> QED BY <1>1, <1>2, <1>3, <1>4, ControlStep, OrphansKept

\* What the call wrote is announced with the right content.
LEMMA CallEvents ==
  ASSUME EngineTypes, NEW a, CallView(a)
  PROVE  EventsFit'
<1>0. outbox \in Seq(Event) /\ EventsFit
  BY DEF EngineTypes, TypeBase, StoreTypeOK
<1>1. CASE RowsKept
  BY <1>0, <1>1 DEF RowsKept, EventsFit
<1>2. CASE TaskOpened(a.node)
  BY <1>0, <1>2, EventsGrow DEF TaskOpened
<1>3. ASSUME NEW s, RowFinished(s) PROVE EventsFit'
  BY <1>0, <1>3, EventsGrow DEF RowFinished
<1> QED BY <1>1, <1>2, <1>3 DEF CallView

LEMMA AttemptSucceedsTypes ==
  ASSUME EngineTypes, AttemptSucceeds
  PROVE  EngineTypes'
<1>1. /\ pc = "activity" /\ act \in Activity /\ Fits(act) /\ Waits /\ TypeBase
      /\ UNCHANGED <<cur, steps, signals, cancelReq, tries, acked, orphans, faults, abandoned, undo>>
  BY DEF AttemptSucceeds, AttemptUnchanged, EngineTypes, Waits, AttemptsFit, Attempts, busVars, Returned
<1>2. /\ StoreTypeOK' /\ effects' \in Seq({"invoke", "compensate"} \X ServiceNodes)
      /\ CallView(act)
  BY <1>1, CallRows DEF AttemptSucceeds
<1>3. EventsFit'
  BY <1>2, CallEvents
<1>4. ControlTypes'
  <2>1. CASE act.kind = "invoke" /\ act.phase = "begun"
    <3>1. act' = [act EXCEPT !.phase = "advanced"] /\ UNCHANGED <<pc, done, undo, wake, timerFired>>
      BY <2>1 DEF AttemptSucceeds
    <3>2. act' \in Activity /\ act'.kind = act.kind /\ act'.node = act.node /\ act'.status = act.status
      BY <1>1, <3>1, AdvancedFields
    <3>3. Fits(act)' /\ Waits'
      BY <1>1, <3>1, <3>2 DEF Fits, Waits
    <3> QED BY <1>1, <3>1, <3>2, <3>3 DEF TypeBase, ControlTypes
  <2>2. CASE ~(act.kind = "invoke" /\ act.phase = "begun")
    <3>1. Returned(act)
      BY <2>2 DEF AttemptSucceeds
    <3>2. act.kind \in {"create", "invoke", "finish", "compensate", "fail"}
      BY <1>1, ActivityFields
    <3>3. /\ act' = NoAct /\ pc' \in {"await", "route", "undo", "closed"}
          /\ pc' = "await" => act.kind = "create"
          /\ wake' \in {2, wake} /\ timerFired' \in {FALSE, timerFired}
      BY <3>1, <3>2 DEF Returned
    <3>4. done' \in Seq(ServiceNodes)
      <4>1. done' = done \/ (act.kind = "invoke" /\ done' = Append(done, act.node))
        BY <3>1 DEF Returned
      <4>2. done \in Seq(ServiceNodes) /\ (act.kind = "invoke" => act.node \in ServiceNodes)
        BY <1>1 DEF TypeBase, Fits
      <4> QED BY <4>1, <4>2
    <3>5. Fits(act)' /\ Waits'
      BY <1>1, <3>3, NoActFits, Kinds DEF Waits, Fits
    <3>6. timerFired' \in BOOLEAN
      BY <1>1, <3>3 DEF TypeBase
    <3> QED BY <1>1, <3>3, <3>4, <3>5, <3>6 DEF TypeBase, ControlTypes
  <2> QED BY <2>1, <2>2
<1>5. TypeBase'
  BY <1>1, <1>2, <1>4 DEF TypeBase, ControlTypes
<1>6. AttemptsFit' /\ Waits'
  BY <1>1, <1>4 DEF ControlTypes, AttemptsFit, Attempts, EngineTypes, Fits
<1> QED BY <1>3, <1>5, <1>6 DEF EngineTypes

LEMMA OrphanTypes ==
  ASSUME EngineTypes, NEW a \in orphans, OrphanLands(a)
  PROVE  /\ EngineTypes' /\ a \in Activity
         /\ (UNCHANGED <<storeVars, effects>>) \/ CallView(a)
<1>1. /\ a \in Activity /\ Fits(a) /\ TypeBase
      /\ orphans' = orphans \ {a}
      /\ UNCHANGED <<pc, cur, steps, act, done, undo, signals, wake, timerFired, cancelReq,
                     abandoned, tries, acked, faults>>
  BY DEF OrphanLands, EngineTypes, TypeBase, AttemptsFit, Attempts, wfVars, busVars
<1>2. CASE UNCHANGED <<storeVars, effects>>
  <2>1. UNCHANGED <<inst, tasks, history, outbox, effects>>
    BY <1>2 DEF storeVars
  <2>2. TypeBase' /\ EventsFit'
    BY <1>1, <2>1 DEF TypeBase, StoreTypeOK, EventsFit, EngineTypes
  <2>3. AttemptsFit' /\ Waits'
    BY <1>1 DEF AttemptsFit, Attempts, Waits, EngineTypes, Fits
  <2> QED BY <1>1, <1>2, <2>2, <2>3 DEF EngineTypes
<1>3. CASE Call(a)
  <2>1. /\ StoreTypeOK' /\ effects' \in Seq({"invoke", "compensate"} \X ServiceNodes)
        /\ CallView(a)
    BY <1>1, <1>3, CallRows
  <2>2. EventsFit'
    BY <2>1, CallEvents
  <2>3. TypeBase'
    BY <1>1, <2>1 DEF TypeBase
  <2>4. AttemptsFit' /\ Waits'
    BY <1>1 DEF AttemptsFit, Attempts, Waits, EngineTypes, Fits
  <2> QED BY <1>1, <2>1, <2>2, <2>3, <2>4 DEF EngineTypes
<1> QED BY <1>2, <1>3 DEF OrphanLands

Delivery(i) == Deliver(i) \/ DeliverUnacked(i) \/ DeliverFails(i)

\* What a delivery does to the workflow.
HandledView(i) ==
  \/ /\ pc = "none" /\ pc' = "route" /\ outbox[i].type = "start"
     /\ UNCHANGED <<signals, wake, cancelReq>>
  \/ /\ cancelReq' = TRUE /\ outbox[i].type = "cancel" /\ wake' \in {wake, Woken}
     /\ UNCHANGED <<pc, signals>>
  \/ /\ outbox[i].type = "taskCompleted" /\ WorkflowOpen /\ wake' \in {wake, Woken}
     /\ signals' = Append(signals, [node |-> outbox[i].node, decision |-> outbox[i].detail])
     /\ UNCHANGED <<pc, cancelReq>>
  \/ UNCHANGED <<pc, signals, wake, cancelReq>>

LEMMA DeliveryView ==
  ASSUME NEW i, Delivery(i), EngineTypes
  PROVE  /\ i \in 1 .. Len(outbox) /\ i \notin acked /\ tries[i] < MaxDeliver
         /\ UNCHANGED <<inst, tasks, history, outbox, cur, steps, act, done, undo, timerFired,
                        orphans, effects, abandoned>>
         /\ HandledView(i)
         /\ tries' = [tries EXCEPT ![i] = tries[i] + 1]
         /\ acked' = acked \/ acked' = acked \cup {i}
         /\ faults' = faults \/ (faults < MaxFaults /\ faults' = faults + 1)
<1>1. Deliverable(i) /\ BusUnchanged /\ tries' = [tries EXCEPT ![i] = @ + 1]
  BY DEF Delivery, Deliver, DeliverUnacked, DeliverFails
<1>2. acked' = acked \/ acked' = acked \cup {i}
  BY DEF Delivery, Deliver, DeliverUnacked, DeliverFails
<1>3. faults' = faults \/ (faults < MaxFaults /\ faults' = faults + 1)
  BY DEF Delivery, Deliver, DeliverUnacked, DeliverFails, Fault
<1>4. HandledView(i)
  <2>1. CASE UNCHANGED <<pc, signals, wake, cancelReq>>
    BY <2>1 DEF HandledView
  <2>2. CASE outbox[i].type = "start" /\ HandleStart
    BY <2>2 DEF HandledView, HandleStart
  <2>3. CASE outbox[i].type = "cancel" /\ HandleCancel
    <3>1. cancelReq \in BOOLEAN /\ WorkflowOpen \in BOOLEAN
      BY DEF EngineTypes, TypeBase, WorkflowOpen
    <3>2. cancelReq' = TRUE \/ cancelReq' = cancelReq
      BY <2>3, <3>1 DEF HandleCancel
    <3>3. wake' \in {wake, Woken} /\ UNCHANGED <<pc, signals>>
      BY <2>3 DEF HandleCancel
    <3>4. pc # "await" => wake' = wake
      BY <2>3 DEF HandleCancel
    <3>5. CASE pc = "await"
      <4>1. WorkflowOpen
        BY <3>5 DEF WorkflowOpen
      <4>2. cancelReq' = TRUE
        BY <2>3, <3>1, <4>1 DEF HandleCancel
      <4> QED BY <2>3, <3>3, <4>2 DEF HandledView
    <3> QED BY <2>3, <3>2, <3>3, <3>4, <3>5 DEF HandledView
  <2>4. CASE outbox[i].type = "taskCompleted" /\ HandleSignal(outbox[i]) /\ ~HandlerFails(outbox[i])
    BY <2>4 DEF HandledView, HandleSignal, HandlerFails
  <2> QED BY <2>1, <2>2, <2>3, <2>4 DEF Delivery, Deliver, DeliverUnacked, DeliverFails, Handle
<1> QED BY <1>1, <1>2, <1>3, <1>4 DEF Deliverable, BusUnchanged, storeVars

LEMMA DeliveryTypes ==
  ASSUME EngineTypes, NEW i \in 1 .. MaxEvents, Delivery(i)
  PROVE  EngineTypes'
<1>1. /\ i \in 1 .. Len(outbox) /\ i \notin acked /\ tries[i] < MaxDeliver
      /\ UNCHANGED <<inst, tasks, history, outbox, cur, steps, act, done, undo, timerFired,
                     orphans, effects, abandoned>>
      /\ HandledView(i)
      /\ tries' = [tries EXCEPT ![i] = tries[i] + 1]
      /\ acked' = acked \/ acked' = acked \cup {i}
      /\ faults' = faults \/ (faults < MaxFaults /\ faults' = faults + 1)
  BY DeliveryView
<1>2. tries' \in [1 .. MaxEvents -> 0 .. MaxDeliver] /\ acked' \subseteq 1 .. MaxEvents
  <2>1. tries[i] \in 0 .. MaxDeliver /\ MaxDeliver \in Nat
    BY EngineConstants DEF EngineTypes, TypeBase
  <2>2. tries[i] + 1 \in 0 .. MaxDeliver
    BY <1>1, <2>1
  <2> QED BY <1>1, <2>2 DEF EngineTypes, TypeBase
<1>3. faults' \in 0 .. MaxFaults
  BY <1>1, EngineConstants DEF EngineTypes, TypeBase
<1>4. signals' \in Seq(Signal)
  <2>1. CASE signals' = signals
    BY <2>1 DEF EngineTypes, TypeBase
  <2>2. CASE /\ outbox[i].type = "taskCompleted"
             /\ signals' = Append(signals, [node |-> outbox[i].node, decision |-> outbox[i].detail])
    <3>1. outbox[i].node \in Approvals /\ outbox[i].detail \in Decisions
      BY <1>1, <2>2 DEF EngineTypes, EventsFit, TypeBase, StoreTypeOK
    <3>2. [node |-> outbox[i].node, decision |-> outbox[i].detail] \in Signal
      BY <3>1 DEF Signal
    <3> QED BY <2>2, <3>2 DEF EngineTypes, TypeBase
  <2> QED BY <1>1, <2>1, <2>2 DEF HandledView
<1>5. cancelReq' \in BOOLEAN
  <2>1. cancelReq' = TRUE \/ cancelReq' = cancelReq
    BY <1>1 DEF HandledView
  <2> QED BY <2>1 DEF EngineTypes, TypeBase
<1>6. wake' \in 0 .. 2 /\ (pc' = pc \/ (pc = "none" /\ pc' = "route"))
  BY <1>1 DEF HandledView, Woken, EngineTypes, TypeBase
<1>7. TypeBase'
  BY <1>1, <1>2, <1>3, <1>4, <1>5, <1>6 DEF EngineTypes, TypeBase, StoreTypeOK
<1>8. AttemptsFit' /\ Waits' /\ EventsFit'
  BY <1>1, <1>6 DEF EngineTypes, AttemptsFit, Attempts, Waits, EventsFit, Fits
<1> QED BY <1>7, <1>8 DEF EngineTypes

\* The rows during a step of the API.
LEMMA ApiStep ==
  ASSUME EngineTypes,
         StartInstance \/ UserCancels \/ \E n \in Approvals, d \in Decisions : UserDecides(n, d)
  PROVE  /\ EngineTypes' /\ ApiOnly
         /\ RowStarted \/ RowCancelled \/ \E n \in Approvals, d \in Decisions : TaskDecided(n, d)
<1>0. StoreTypeOK /\ outbox \in Seq(Event) /\ EventsFit
  BY DEF EngineTypes, TypeBase, StoreTypeOK
<1>1. CASE StartInstance
  <2>1. StoreTypeOK' /\ RowStarted /\ ApiOnly
    BY <1>0, <1>1, StartRows DEF StartInstance
  <2>2. EventsFit'
    BY <1>0, <2>1, EventsGrow DEF RowStarted
  <2> QED BY <2>1, <2>2, ApiTypes
<1>2. CASE UserCancels
  <2>1. StoreTypeOK' /\ RowCancelled /\ ApiOnly
    BY <1>0, <1>2, CancelRows DEF UserCancels
  <2>2. EventsFit'
    BY <1>0, <2>1, EventsGrow DEF RowCancelled
  <2> QED BY <2>1, <2>2, ApiTypes
<1>3. ASSUME NEW n \in Approvals, NEW d \in Decisions, UserDecides(n, d)
      PROVE  EngineTypes' /\ ApiOnly /\ TaskDecided(n, d)
  <2>1. StoreTypeOK' /\ TaskDecided(n, d) /\ ApiOnly
    BY <1>0, <1>3, DecideRows DEF UserDecides
  <2>2. EventsFit'
    BY <1>0, <2>1, EventsGrow DEF TaskDecided
  <2> QED BY <2>1, <2>2, ApiTypes
<1> QED BY <1>1, <1>2, <1>3

LEMMA EngineTypesInit == Init => EngineTypes
<1> SUFFICES ASSUME Init PROVE EngineTypes
  OBVIOUS
<1>1. StoreTypeOK
  BY StoreConstants DEF Init, StoreInit, StoreTypeOK, Instance, Task, InstanceStatus, TaskStatus, Open, Decided
<1>2. TypeBase
  <2>1. tries \in [1 .. MaxEvents -> 0 .. MaxDeliver] /\ faults \in 0 .. MaxFaults
    BY EngineConstants DEF Init
  <2>2. timerFired \in BOOLEAN /\ cancelReq \in BOOLEAN
    BY DEF Init
  <2> QED BY <1>1, <2>1, <2>2, GraphFacts DEF Init, TypeBase
<1>3. AttemptsFit /\ Waits /\ EventsFit
  BY NoActFits, Kinds, GraphFacts DEF Init, StoreInit, AttemptsFit, Attempts, Waits, EventsFit
<1> QED BY <1>2, <1>3 DEF EngineTypes

LEMMA EngineTypesStep == EngineTypes /\ [Next]_vars => EngineTypes'
<1> SUFFICES ASSUME EngineTypes, [Next]_vars PROVE EngineTypes'
  OBVIOUS
<1>1. CASE StartInstance \/ UserCancels \/ \E n \in Approvals, d \in Decisions : UserDecides(n, d)
  BY <1>1, ApiStep
<1>2. CASE SelectNext \/ SelectNextFails \/ TimerElapses
  BY <1>2, RouteTypes
<1>3. CASE AwaitDecision \/ ApprovalTimeout
  BY <1>3, AwaitTypes
<1>4. CASE AttemptSucceeds
  BY <1>4, AttemptSucceedsTypes
<1>5. CASE AttemptErrors \/ AttemptTimesOut \/ ActivityCancelled
  BY <1>5, AttemptLostTypes
<1>6. CASE \E a \in orphans : OrphanLands(a)
  BY <1>6, OrphanTypes
<1>7. CASE CleanupStep
  BY <1>7, CleanupStepTypes
<1>8. CASE \E i \in 1 .. MaxEvents : Delivery(i)
  BY <1>8, DeliveryTypes
<1>9. CASE UNCHANGED vars
  <2>1. /\ UNCHANGED <<inst, tasks, history, outbox>> /\ ApiOnly
    BY <1>9 DEF vars, storeVars, ApiOnly
  <2>2. StoreTypeOK' /\ EventsFit'
    BY <2>1 DEF EngineTypes, TypeBase, StoreTypeOK, EventsFit
  <2> QED BY <2>1, <2>2, ApiTypes
<1> QED BY <1>1, <1>2, <1>3, <1>4, <1>5, <1>6, <1>7, <1>8, <1>9 DEF Next, Delivery

LEMMA EngineTyped == Spec => []EngineTypes
BY EngineTypesInit, EngineTypesStep, PTL DEF Spec

(* -- What a step can do --------------------------------------------------------- *)
(* Each operator says what any step whatsoever does to one part of the state;    *)
(* the invariants below follow from these and not from the actions.              *)

RowStep ==
  \/ RowsKept \/ RowStarted \/ RowCancelled
  \/ \E n \in Approvals, d \in Decisions : TaskDecided(n, d)
  \/ \E a \in Attempts : \/ a.kind = "create" /\ TaskOpened(a.node)
                         \/ a.kind = "finish" /\ RowFinished(a.status)
                         \/ a.kind = "fail" /\ RowFinished("failed")

CurStep ==
  \/ cur' = cur
  \/ pc = "route" /\ cur' \in Targets(cur) /\ RowsKept /\ UNCHANGED <<orphans, effects, signals>>

OrphanStep == orphans' \subseteq Attempts \ {NoAct}

EffectStep ==
  \/ UNCHANGED effects
  \/ \E a \in Attempts :
       /\ a.kind = "compensate" \/ (a.kind = "invoke" /\ a.phase = "advanced")
       /\ effects' = Append(effects, <<a.kind, a.node>>)

\* The workflow takes the decision d for the answer it waits for.
Answered(d) ==
  pc = "await" /\ signals # <<>> /\ Head(signals).node = cur /\ Head(signals).decision = d

ActGoesOn ==
  /\ act \in Activity /\ act' \in Activity /\ UNCHANGED cur
  /\ act'.kind = act.kind /\ act'.node = act.node /\ act'.status = act.status
  /\ act'.phase \in {"begun", act.phase} \/ inst.status = "running"

ActBegins ==
  /\ act' \in Activity /\ act'.phase = "begun"
  /\ \/ act'.kind \in {"create", "invoke"} /\ act'.node = cur'
     \/ act'.kind = "finish" /\ act'.status = "completed" /\ NodeType[cur'] = "end"
     \/ act'.kind = "finish" /\ act'.status = "rejected" /\ UNCHANGED cur /\ Answered("reject")
     \/ act'.kind \in {"compensate", "fail"}

ActStep == act' = NoAct \/ ActGoesOn \/ ActBegins

RouteStep ==
  pc' = "route" =>
    /\ UNCHANGED cur
    /\ pc \in {"route", "none", "sleep"} \/ act.kind = "invoke" \/ Answered("approve")

SignalStep ==
  \A i \in DOMAIN signals' :
    \/ \E j \in DOMAIN signals : signals'[i] = signals[j]
    \/ \E j \in DOMAIN outbox : /\ outbox[j].type = "taskCompleted"
                                /\ signals'[i].node = outbox[j].node
                                /\ signals'[i].decision = outbox[j].detail

CommandStep ==
  /\ cancelReq' = cancelReq \/ \E j \in DOMAIN outbox : outbox[j].type = "cancel"
  /\ pc' = "none" => pc = "none"
  /\ pc = "none" => pc' = "none" \/ \E j \in DOMAIN outbox : outbox[j].type = "start"

StepView ==
  /\ RowStep /\ CurStep /\ OrphanStep /\ EffectStep /\ ActStep /\ RouteStep
  /\ SignalStep /\ CommandStep

LEMMA ApiView ==
  ASSUME EngineTypes, ApiOnly,
         RowsKept \/ RowStarted \/ RowCancelled \/ \E n \in Approvals, d \in Decisions : TaskDecided(n, d)
  PROVE  StepView
<1>1. UNCHANGED <<pc, cur, act, signals, cancelReq, orphans, effects>>
  BY DEF ApiOnly, wfVars
<1>2. RowStep
  BY DEF RowStep
<1>3. CurStep /\ EffectStep /\ SignalStep /\ CommandStep
  BY <1>1 DEF CurStep, EffectStep, SignalStep, CommandStep
<1>4. OrphanStep
  BY <1>1, OrphansKept DEF OrphanStep
<1>5. ActStep /\ RouteStep
  BY <1>1 DEF ActStep, ActGoesOn, RouteStep, EngineTypes, TypeBase
<1> QED BY <1>2, <1>3, <1>4, <1>5 DEF StepView

\* The views of a step of the workflow itself.
LEMMA ControlView ==
  ASSUME EngineTypes, UNCHANGED <<storeVars, cancelReq, effects>>, CurStep, OrphanStep, ActStep, RouteStep,
         signals' = signals \/ (signals # <<>> /\ signals' = Tail(signals)),
         pc # "none", pc' # "none"
  PROVE  StepView
<1>1. RowStep
  BY DEF RowStep, RowsKept, TasksKept, storeVars
<1>2. signals \in Seq(Signal)
  BY DEF EngineTypes, TypeBase
<1>3. SignalStep
  <2>1. CASE signals' = signals
    BY <2>1 DEF SignalStep
  <2>2. CASE signals # <<>> /\ signals' = Tail(signals)
    <3>1. \A i \in DOMAIN signals' : i + 1 \in DOMAIN signals /\ signals'[i] = signals[i + 1]
      BY <1>2, <2>2
    <3> QED BY <3>1 DEF SignalStep
  <2> QED BY <2>1, <2>2
<1> QED BY <1>1, <1>3 DEF StepView, EffectStep, CommandStep

LEMMA CleanupView ==
  ASSUME BeginCleanup
  PROVE  ActStep /\ RouteStep /\ pc' # "none"
BY DEF BeginCleanup, ActStep, RouteStep

LEMMA RouteView ==
  ASSUME EngineTypes, SelectNext \/ SelectNextFails \/ TimerElapses
  PROVE  StepView
<1>1. /\ UNCHANGED <<storeVars, signals, cancelReq, orphans, effects>>
      /\ pc \in {"route", "sleep"}
  BY DEF SelectNext, SelectNextFails, TimerElapses
<1>2. OrphanStep
  BY <1>1, OrphansKept DEF OrphanStep
<1>3. RowsKept
  BY <1>1 DEF RowsKept, TasksKept, storeVars
<1>4. CASE SelectNext
  <2>1. PICK n \in Targets(cur) : Visit(n)
    BY <1>4 DEF SelectNext
  <2>2. n \in Nodes /\ NodeType[n] # "start"
    BY GraphFacts DEF EngineTypes, TypeBase
  <2>3. cur' = n /\ pc = "route"
    BY <1>4, <2>1 DEF SelectNext, Visit
  <2>4. CurStep
    BY <1>1, <1>3, <2>1, <2>3 DEF CurStep
  <2>5. ActStep /\ RouteStep /\ pc' # "none"
    <3>1. CASE cancelReq \/ steps + 1 > Cardinality(Nodes)
      BY <2>1, <3>1, CleanupView DEF Visit
    <3>2. CASE ~(cancelReq \/ steps + 1 > Cardinality(Nodes))
      <4>1. NodeType[n] \in {"approval", "service_task", "end", "timer"}
        BY <2>2, EngineConstants
      <4>2. CASE NodeType[n] = "approval"
        <5>1. Schedule("create", n, "none")
          BY <2>1, <3>2, <4>2 DEF Visit
        <5> QED BY <2>2, <2>3, <5>1, ScheduledFields DEF ActStep, ActBegins, RouteStep
      <4>3. CASE NodeType[n] = "service_task"
        <5>1. Schedule("invoke", n, "none")
          BY <2>1, <3>2, <4>3 DEF Visit
        <5> QED BY <2>2, <2>3, <5>1, ScheduledFields DEF ActStep, ActBegins, RouteStep
      <4>4. CASE NodeType[n] = "end"
        <5>1. Schedule("finish", n, "completed")
          BY <2>1, <3>2, <4>4 DEF Visit
        <5> QED BY <2>2, <2>3, <4>4, <5>1, ScheduledFields, Statuses DEF ActStep, ActBegins, RouteStep
      <4>5. CASE NodeType[n] = "timer"
        BY <2>1, <3>2, <4>5 DEF Visit, ActStep, RouteStep
      <4> QED BY <4>1, <4>2, <4>3, <4>4, <4>5
    <3> QED BY <3>1, <3>2
  <2> QED BY <1>1, <1>2, <2>4, <2>5, ControlView
<1>5. CASE UNCHANGED cur /\ BeginCleanup
  BY <1>1, <1>2, <1>5, ControlView, CleanupView DEF CurStep
<1>6. CASE TimerElapses /\ ~cancelReq
  <2>1. pc' = "route" /\ UNCHANGED <<cur, act>> /\ pc = "sleep" /\ act = NoAct
    BY <1>6 DEF TimerElapses, EngineTypes, Waits
  <2>2. ActStep /\ RouteStep /\ CurStep
    BY <2>1 DEF ActStep, RouteStep, CurStep
  <2> QED BY <1>1, <1>2, <2>1, <2>2, ControlView
<1> QED BY <1>4, <1>5, <1>6 DEF SelectNextFails, TimerElapses

LEMMA AwaitView ==
  ASSUME EngineTypes, AwaitDecision \/ ApprovalTimeout
  PROVE  StepView
<1>1. /\ UNCHANGED <<storeVars, cur, cancelReq, orphans, effects>> /\ pc = "await" /\ act = NoAct
      /\ cur \in Nodes
  BY DEF AwaitDecision, ApprovalTimeout, EngineTypes, TypeBase, Waits
<1>2. signals' = signals \/ (signals # <<>> /\ signals' = Tail(signals))
  BY DEF AwaitDecision, ApprovalTimeout
<1>3. OrphanStep /\ CurStep
  BY <1>1, OrphansKept DEF OrphanStep, CurStep
<1>4. CASE BeginCleanup
  BY <1>1, <1>2, <1>3, <1>4, ControlView, CleanupView
<1>5. CASE Matches /\ Head(signals).decision = "reject" /\ Schedule("finish", cur, "rejected")
  <2>1. Answered("reject")
    BY <1>1, <1>5 DEF Answered, Matches
  <2>2. ActStep /\ RouteStep /\ pc' # "none"
    BY <1>1, <1>5, <2>1, ScheduledFields, Statuses DEF ActStep, ActBegins, RouteStep
  <2> QED BY <1>1, <1>2, <1>3, <2>2, ControlView
<1>6. CASE Matches /\ Head(signals).decision # "reject" /\ pc' = "route" /\ UNCHANGED act
  <2>1. Head(signals) \in Signal
    BY <1>6 DEF Matches, EngineTypes, TypeBase
  <2>2. Answered("approve")
    BY <1>1, <1>6, <2>1 DEF Answered, Matches, Signal, Decisions
  <2>3. ActStep /\ RouteStep
    BY <1>1, <1>6, <2>2 DEF ActStep, RouteStep
  <2> QED BY <1>1, <1>2, <1>3, <1>6, <2>3, ControlView
<1>7. CASE UNCHANGED <<pc, act>>
  <2>1. ActStep /\ RouteStep
    BY <1>1, <1>7 DEF ActStep, RouteStep
  <2> QED BY <1>1, <1>2, <1>3, <1>7, <2>1, ControlView
<1> QED BY <1>4, <1>5, <1>6, <1>7 DEF AwaitDecision, ApprovalTimeout

LEMMA AttemptLostView ==
  ASSUME EngineTypes, AttemptErrors \/ AttemptTimesOut \/ ActivityCancelled
  PROVE  StepView
<1>1. /\ pc = "activity" /\ act \in Activity
      /\ UNCHANGED <<storeVars, effects, cur, signals, cancelReq>>
      /\ orphans' = orphans \/ orphans' = orphans \cup {act}
  BY DEF AttemptErrors, AttemptTimesOut, ActivityCancelled, AttemptUnchanged, EngineTypes, Waits
<1>2. OrphanStep /\ CurStep
  BY <1>1, OrphansKept DEF OrphanStep, CurStep
<1>3. ActStep /\ RouteStep /\ pc' # "none"
  <2>1. CASE BeginCleanup
    BY <2>1, CleanupView
  <2>2. CASE Retried(act)
    BY <1>1, <2>2 DEF Retried, ActStep, ActGoesOn, RouteStep
  <2>3. CASE CleanupDropped(act)
    BY <1>1, <2>3 DEF CleanupDropped, ActStep, RouteStep
  <2> QED BY <1>1, <2>1, <2>2, <2>3, RetryView
          DEF AttemptErrors, AttemptTimesOut, ActivityCancelled, WorkStopped
<1> QED BY <1>1, <1>2, <1>3, ControlView

\* What a call does to the rows and the effects.
LEMMA CallSteps ==
  ASSUME NEW a \in Attempts, CallView(a)
  PROVE  RowStep /\ EffectStep
BY DEF CallView, RowStep, EffectStep

LEMMA AttemptSucceedsView ==
  ASSUME EngineTypes, AttemptSucceeds
  PROVE  StepView
<1>1. /\ pc = "activity" /\ act \in Activity /\ act \in Attempts /\ Fits(act) /\ TypeBase
      /\ UNCHANGED <<cur, signals, cancelReq, orphans>>
  BY DEF AttemptSucceeds, AttemptUnchanged, EngineTypes, Waits, AttemptsFit, Attempts
<1>2. CallView(act)
  BY <1>1, CallRows DEF AttemptSucceeds
<1>3. RowStep /\ EffectStep
  BY <1>1, <1>2, CallSteps
<1>4. ActStep /\ RouteStep /\ pc' # "none"
  <2>1. CASE act.kind = "invoke" /\ act.phase = "begun"
    <3>1. act' = [act EXCEPT !.phase = "advanced"] /\ UNCHANGED pc
      BY <2>1 DEF AttemptSucceeds
    <3>2. inst.status = "running"
      BY <1>1, <2>1 DEF AttemptSucceeds, Refused
    <3> QED BY <1>1, <3>1, <3>2, AdvancedFields DEF ActStep, ActGoesOn, RouteStep
  <2>2. CASE ~(act.kind = "invoke" /\ act.phase = "begun")
    <3>1. Returned(act) /\ act.kind \in {"create", "invoke", "finish", "compensate", "fail"}
      BY <1>1, <2>2, ActivityFields DEF AttemptSucceeds
    <3> QED BY <1>1, <3>1 DEF Returned, ActStep, RouteStep
  <2> QED BY <2>1, <2>2
<1>5. OrphanStep
  BY <1>1, OrphansKept DEF OrphanStep
<1>6. CurStep /\ SignalStep /\ CommandStep
  BY <1>1, <1>4 DEF CurStep, SignalStep, CommandStep
<1> QED BY <1>3, <1>4, <1>5, <1>6 DEF StepView

LEMMA OrphanView ==
  ASSUME EngineTypes, NEW a \in orphans, OrphanLands(a)
  PROVE  StepView
<1>1. /\ orphans' = orphans \ {a} /\ a \in Attempts
      /\ UNCHANGED <<pc, cur, act, signals, cancelReq>>
  BY DEF OrphanLands, Attempts, wfVars
<1>2. RowStep /\ EffectStep
  <2>1. CASE UNCHANGED <<storeVars, effects>>
    BY <2>1 DEF RowStep, RowsKept, TasksKept, storeVars, EffectStep
  <2>2. CASE CallView(a)
    BY <1>1, <2>2, CallSteps
  <2> QED BY <2>1, <2>2, OrphanTypes
<1>3. OrphanStep
  BY <1>1, OrphansKept DEF OrphanStep
<1>4. CurStep /\ SignalStep /\ CommandStep
  BY <1>1 DEF CurStep, SignalStep, CommandStep
<1>5. ActStep /\ RouteStep
  BY <1>1 DEF ActStep, ActGoesOn, RouteStep, EngineTypes, TypeBase
<1> QED BY <1>2, <1>3, <1>4, <1>5 DEF StepView

LEMMA CleanupStepView ==
  ASSUME EngineTypes, CleanupStep
  PROVE  StepView
<1>1. /\ UNCHANGED <<storeVars, cur, signals, cancelReq, orphans, effects>>
      /\ pc = "undo" /\ act = NoAct /\ cur \in Nodes /\ undo \in Seq(ServiceNodes)
  BY DEF CleanupStep, EngineTypes, TypeBase, Waits
<1>2. OrphanStep /\ CurStep
  BY <1>1, OrphansKept DEF OrphanStep, CurStep
<1>3. ActStep /\ RouteStep /\ pc' # "none"
  <2>1. CASE Schedule("fail", cur, "failed")
    BY <1>1, <2>1, ScheduledFields, Statuses DEF ActStep, ActBegins, RouteStep
  <2>2. CASE undo # <<>> /\ Last(undo) \in Compensable /\ Schedule("compensate", Last(undo), "none")
    <3>1. Last(undo) \in Nodes
      BY <2>2, Kinds
    <3> QED BY <2>2, <3>1, ScheduledFields DEF ActStep, ActBegins, RouteStep
  <2>3. CASE UNCHANGED <<pc, act>>
    BY <1>1, <2>3 DEF ActStep, RouteStep
  <2> QED BY <2>1, <2>2, <2>3 DEF CleanupStep
<1> QED BY <1>1, <1>2, <1>3, ControlView

LEMMA DeliveryStepView ==
  ASSUME EngineTypes, NEW i \in 1 .. MaxEvents, Delivery(i)
  PROVE  StepView
<1>1. /\ i \in 1 .. Len(outbox)
      /\ UNCHANGED <<inst, tasks, outbox, cur, act, orphans, effects>>
      /\ HandledView(i)
  BY DeliveryView
<1>2. i \in DOMAIN outbox /\ signals \in Seq(Signal)
  BY <1>1 DEF EngineTypes, TypeBase, StoreTypeOK
<1>3. RowStep /\ CurStep /\ EffectStep
  BY <1>1 DEF RowStep, RowsKept, TasksKept, CurStep, EffectStep
<1>4. OrphanStep
  BY <1>1, OrphansKept DEF OrphanStep
<1>5. ActStep
  BY <1>1 DEF ActStep, ActGoesOn, EngineTypes, TypeBase
<1>6. RouteStep /\ CommandStep
  BY <1>1, <1>2 DEF HandledView, RouteStep, CommandStep, WorkflowOpen
<1>7. SignalStep
  <2>1. CASE signals' = signals
    BY <2>1 DEF SignalStep
  <2>2. CASE /\ outbox[i].type = "taskCompleted"
             /\ signals' = Append(signals, [node |-> outbox[i].node, decision |-> outbox[i].detail])
    <3> DEFINE s == [node |-> outbox[i].node, decision |-> outbox[i].detail]
    <3>1. s.node = outbox[i].node /\ s.decision = outbox[i].detail
      OBVIOUS
    <3> HIDE DEF s
    <3>2. \A j \in DOMAIN signals' : (j \in DOMAIN signals /\ signals'[j] = signals[j]) \/ signals'[j] = s
      BY <1>2, <2>2 DEF s
    <3> QED BY <1>2, <2>2, <3>1, <3>2 DEF SignalStep
  <2> QED BY <1>1, <2>1, <2>2 DEF HandledView
<1> QED BY <1>3, <1>4, <1>5, <1>6, <1>7 DEF StepView

LEMMA NextView == EngineTypes /\ [Next]_vars => StepView
<1> SUFFICES ASSUME EngineTypes, [Next]_vars PROVE StepView
  OBVIOUS
<1>1. CASE StartInstance \/ UserCancels \/ \E n \in Approvals, d \in Decisions : UserDecides(n, d)
  BY <1>1, ApiStep, ApiView
<1>2. CASE SelectNext \/ SelectNextFails \/ TimerElapses
  BY <1>2, RouteView
<1>3. CASE AwaitDecision \/ ApprovalTimeout
  BY <1>3, AwaitView
<1>4. CASE AttemptSucceeds
  BY <1>4, AttemptSucceedsView
<1>5. CASE AttemptErrors \/ AttemptTimesOut \/ ActivityCancelled
  BY <1>5, AttemptLostView
<1>6. CASE \E a \in orphans : OrphanLands(a)
  BY <1>6, OrphanView
<1>7. CASE CleanupStep
  BY <1>7, CleanupStepView
<1>8. CASE \E i \in 1 .. MaxEvents : Delivery(i)
  BY <1>8, DeliveryStepView
<1>9. CASE UNCHANGED vars
  <2>1. RowsKept /\ ApiOnly
    BY <1>9 DEF vars, storeVars, ApiOnly, RowsKept, TasksKept
  <2> QED BY <2>1, ApiView
<1> QED BY <1>1, <1>2, <1>3, <1>4, <1>5, <1>6, <1>7, <1>8, <1>9 DEF Next, Delivery

(* -- Rows, events, signals ------------------------------------------------------- *)

\* Every event is still true of the rows when it is read, however late.
EventTrue(e) ==
  /\ e.type = "start" => inst.status # "none" /\ e.node = None
  /\ e.type = "cancel" => inst.status = "cancelled"
  /\ e.type = "statusChanged" => inst.status \in Terminal
  /\ e.type = "taskCreated" => e.node \in Approvals /\ TaskExists(e.node)
  /\ e.type = "taskCompleted" => /\ e.node \in Approvals /\ e.detail \in Decisions
                                 /\ tasks[e.node].status = StatusOf(e.detail)

EventsTrue == \A i \in DOMAIN outbox : EventTrue(outbox[i])

SignalsTrue ==
  \A i \in DOMAIN signals : tasks[signals[i].node].status = StatusOf(signals[i].decision)

\* A workflow runs for an instance that exists, and is only told to stop when
\* the instance is cancelled.
CommandsTrue ==
  /\ cancelReq => inst.status = "cancelled"
  /\ pc # "none" => inst.status # "none"

RowsInv == EventsTrue /\ SignalsTrue /\ CommandsTrue

\* Ends and decisions are final.
LEMMA StatusesFinal ==
  ASSUME EngineTypes, RowStep
  PROVE  /\ inst.status \in Terminal => inst'.status = inst.status
         /\ inst.status # "none" => inst'.status # "none"
         /\ \A n \in Approvals : tasks[n].status \in Decided => tasks'[n].status = tasks[n].status
         /\ \A n \in Approvals : tasks[n].status # "none" => tasks'[n].status # "none"
<1>1. \A d \in Decisions : StatusOf(d) # "none"
  BY DEF StatusOf
<1>2. CASE RowsKept
  BY <1>2 DEF RowsKept, TasksKept
<1>3. CASE RowStarted
  BY <1>3 DEF RowStarted, TasksKept, Terminal
<1>4. CASE RowCancelled
  BY <1>4 DEF RowCancelled, TasksKept, Terminal
<1>5. ASSUME NEW n \in Approvals, NEW d \in Decisions, TaskDecided(n, d)
      PROVE  /\ inst'.status = inst.status
             /\ \A m \in Approvals : tasks[m].status \in Decided => tasks'[m].status = tasks[m].status
             /\ \A m \in Approvals : tasks[m].status # "none" => tasks'[m].status # "none"
  BY <1>1, <1>5 DEF TaskDecided, TaskMoves, Open, Decided
<1>6. ASSUME NEW n, TaskOpened(n)
      PROVE  /\ inst'.status = inst.status
             /\ \A m \in Approvals : tasks[m].status \in Decided => tasks'[m].status = tasks[m].status
             /\ \A m \in Approvals : tasks[m].status # "none" => tasks'[m].status # "none"
  BY <1>6 DEF TaskOpened, TaskMoves, Decided
<1>7. ASSUME NEW s, RowFinished(s)
      PROVE  inst.status = "running" /\ inst'.status # "none" /\ TasksKept
  BY <1>7 DEF RowFinished
<1> QED BY <1>2, <1>3, <1>4, <1>5, <1>6, <1>7 DEF RowStep, Terminal, TasksKept

\* The event a step adds is true of the rows the step leaves.
LEMMA NewEventTrue ==
  ASSUME EngineTypes, RowStep
  PROVE  outbox' = outbox \/ \E e : outbox' = Append(outbox, e) /\ EventTrue(e)'
<1> DEFINE E(type, node, detail) == [type |-> type, node |-> node, detail |-> detail]
<1>1. \A t, n, d : E(t, n, d).type = t /\ E(t, n, d).node = n /\ E(t, n, d).detail = d
  OBVIOUS
<1>2. \A t, n, d : Announced(t, n, d) <=> outbox' = Append(outbox, E(t, n, d))
  BY DEF Announced
<1> HIDE DEF E
<1>3. CASE RowsKept
  BY <1>3 DEF RowsKept
<1>4. CASE RowStarted
  <2>1. EventTrue(E("start", None, "none"))'
    BY <1>1, <1>4 DEF RowStarted, EventTrue
  <2> QED BY <1>2, <1>4, <2>1 DEF RowStarted
<1>5. CASE RowCancelled
  <2>1. EventTrue(E("cancel", None, "none"))'
    BY <1>1, <1>5 DEF RowCancelled, EventTrue
  <2> QED BY <1>2, <1>5, <2>1 DEF RowCancelled
<1>6. ASSUME NEW n \in Approvals, NEW d \in Decisions, TaskDecided(n, d)
      PROVE  \E e : outbox' = Append(outbox, e) /\ EventTrue(e)'
  <2>1. EventTrue(E("taskCompleted", n, d))'
    BY <1>1, <1>6 DEF TaskDecided, TaskMoves, EventTrue
  <2> QED BY <1>2, <1>6, <2>1 DEF TaskDecided
<1>7. ASSUME NEW n, TaskOpened(n)
      PROVE  \E e : outbox' = Append(outbox, e) /\ EventTrue(e)'
  <2>1. EventTrue(E("taskCreated", n, "none"))'
    BY <1>1, <1>7 DEF TaskOpened, TaskMoves, EventTrue, TaskExists
  <2> QED BY <1>2, <1>7, <2>1 DEF TaskOpened
<1>8. ASSUME NEW s, RowFinished(s)
      PROVE  \E e : outbox' = Append(outbox, e) /\ EventTrue(e)'
  <2>1. EventTrue(E("statusChanged", None, s))'
    BY <1>1, <1>8, Statuses DEF RowFinished, EventTrue
  <2> QED BY <1>2, <1>8, <2>1 DEF RowFinished
<1> QED BY <1>3, <1>4, <1>5, <1>6, <1>7, <1>8 DEF RowStep

LEMMA RowsInvStep == EngineTypes /\ RowsInv /\ StepView => RowsInv'
<1> SUFFICES ASSUME EngineTypes, RowsInv, StepView PROVE RowsInv'
  OBVIOUS
<1>0. /\ inst.status \in Terminal => inst'.status = inst.status
      /\ inst.status # "none" => inst'.status # "none"
      /\ \A n \in Approvals : tasks[n].status \in Decided => tasks'[n].status = tasks[n].status
      /\ \A n \in Approvals : tasks[n].status # "none" => tasks'[n].status # "none"
  BY StatusesFinal DEF StepView
<1>1. EventsTrue'
  <2>1. \A e : EventTrue(e) => EventTrue(e)'
    BY <1>0, Statuses DEF EventTrue, TaskExists, Terminal
  <2>2. outbox \in Seq(Event)
    BY DEF EngineTypes, TypeBase, StoreTypeOK
  <2>3. CASE outbox' = outbox
    BY <2>1, <2>3 DEF RowsInv, EventsTrue
  <2>4. ASSUME NEW e, outbox' = Append(outbox, e), EventTrue(e)' PROVE EventsTrue'
    <3>1. \A i \in DOMAIN outbox' : (i \in DOMAIN outbox /\ outbox'[i] = outbox[i]) \/ outbox'[i] = e
      BY <2>2, <2>4
    <3>2. ASSUME NEW i \in DOMAIN outbox' PROVE EventTrue(outbox[i])'
      <4>1. PICK x : outbox'[i] = x /\ EventTrue(x)'
        BY <2>1, <2>4, <3>1 DEF RowsInv, EventsTrue
      <4> QED BY <4>1 DEF EventTrue, TaskExists
    <3> QED BY <3>2 DEF EventsTrue
  <2> QED BY <2>3, <2>4, NewEventTrue DEF StepView
<1>2. SignalsTrue'
  <2>1. ASSUME NEW i \in DOMAIN signals'
        PROVE  tasks'[signals'[i].node].status = StatusOf(signals'[i].decision)
    <3>1. CASE \E j \in DOMAIN signals : signals'[i] = signals[j]
      <4>1. PICK j \in DOMAIN signals : signals'[i] = signals[j]
        BY <3>1
      <4>2. signals[j] \in Signal
        BY DEF EngineTypes, TypeBase
      <4>3. tasks[signals[j].node].status = StatusOf(signals[j].decision)
        BY DEF RowsInv, SignalsTrue
      <4> QED BY <1>0, <4>1, <4>2, <4>3, Statuses DEF Signal
    <3>2. CASE \E j \in DOMAIN outbox : /\ outbox[j].type = "taskCompleted"
                                        /\ signals'[i].node = outbox[j].node
                                        /\ signals'[i].decision = outbox[j].detail
      <4>1. PICK j \in DOMAIN outbox : /\ outbox[j].type = "taskCompleted"
                                       /\ signals'[i].node = outbox[j].node
                                       /\ signals'[i].decision = outbox[j].detail
        BY <3>2
      <4>2. /\ outbox[j].node \in Approvals /\ outbox[j].detail \in Decisions
            /\ tasks[outbox[j].node].status = StatusOf(outbox[j].detail)
        BY <4>1 DEF RowsInv, EventsTrue, EventTrue
      <4> QED BY <1>0, <4>1, <4>2, Statuses
    <3> QED BY <3>1, <3>2 DEF StepView, SignalStep
  <2> QED BY <2>1 DEF SignalsTrue
<1>3. CommandsTrue'
  <2>1. ASSUME NEW j \in DOMAIN outbox
        PROVE  /\ outbox[j].type = "cancel" => inst.status = "cancelled"
               /\ outbox[j].type = "start" => inst.status # "none"
    BY DEF RowsInv, EventsTrue, EventTrue
  <2>2. cancelReq' => inst.status = "cancelled"
    BY <2>1 DEF RowsInv, CommandsTrue, StepView, CommandStep
  <2>3. pc' # "none" => inst.status # "none"
    BY <2>1 DEF RowsInv, CommandsTrue, StepView, CommandStep
  <2> QED BY <1>0, <2>2, <2>3 DEF CommandsTrue, Terminal
<1> QED BY <1>1, <1>2, <1>3 DEF RowsInv

LEMMA RowsInvInit == Init => RowsInv
BY DEF Init, StoreInit, RowsInv, EventsTrue, SignalsTrue, CommandsTrue

(* -- The way through the graph ---------------------------------------------------- *)

\* What guards the target of an edge guards its source or is its source.
LEMMA GuardsBack ==
  ASSUME NEW c \in Nodes, NEW n \in Targets(c), NEW m, Guards(m, n), m # c
  PROVE  Guards(m, c)
<1>1. PICK S \in SUBSET Nodes :
        /\ StartNode \in S /\ n \notin S
        /\ \A e \in Edges : e.from \in S /\ e.from # m => e.to \in S
  BY DEF Guards
<1>2. PICK e \in Edges : e.from = c /\ e.to = n
  BY GraphFacts
<1>3. c \notin S
  BY <1>1, <1>2
<1> QED BY <1>1, <1>3 DEF Guards

LEMMA StartUnguarded == \A m : ~Guards(m, StartNode)
BY DEF Guards

\* Nothing leads out of an end node.
LEMMA EndHasNoTarget ==
  ASSUME NEW c \in Nodes, NEW n \in Targets(c)
  PROVE  NodeType[c] # "end" /\ n \in Nodes
BY GraphFacts, EngineConstants

\* Every approval that guards node n was given.
Approved(n) == \A m \in Approvals : Guards(m, n) => tasks[m].status = "approved"

RouteDecided == pc = "route" /\ cur \in Approvals => tasks[cur].status = "approved"

\* Only the task of the current node can be open or rejected.
OthersSettled == \A n \in Approvals \ {cur} : tasks[n].status \in {"none", "approved"}

\* A late attempt to create a task is about the current node or finds the task.
CreateKnown == \A a \in orphans : a.kind = "create" => a.node = cur \/ TaskExists(a.node)

GuardsPassed ==
  /\ Approved(cur)
  /\ \A a \in orphans : a.kind = "invoke" => Approved(a.node)
  /\ \A i \in DOMAIN effects : effects[i][1] = "invoke" => Approved(effects[i][2])

\* What the current node and its task say about an end with this status.
Backed(status) ==
  /\ status = "completed" => NodeType[cur] = "end"
  /\ status = "rejected" => cur \in Approvals /\ tasks[cur].status = "rejected"

FinishBacked ==
  /\ Backed(inst.status)
  /\ \A a \in Attempts : a.kind = "finish" => Backed(a.status)

PathInv == RouteDecided /\ OthersSettled /\ CreateKnown /\ GuardsPassed /\ FinishBacked

LEMMA PathInvInit == Init => PathInv
<1> SUFFICES ASSUME Init PROVE PathInv
  OBVIOUS
<1>1. /\ pc = "none" /\ cur = StartNode /\ orphans = {} /\ effects = <<>> /\ act = NoAct
      /\ inst.status = "none" /\ \A n \in Approvals : tasks[n].status = "none"
  BY DEF Init, StoreInit
<1>2. RouteDecided /\ OthersSettled /\ CreateKnown
  BY <1>1 DEF RouteDecided, OthersSettled, CreateKnown
<1>3. GuardsPassed
  BY <1>1, StartUnguarded DEF GuardsPassed, Approved
<1>4. FinishBacked
  BY <1>1, Kinds DEF FinishBacked, Backed, Attempts
<1> QED BY <1>2, <1>3, <1>4 DEF PathInv

\* An answer the workflow takes is the decision of the current task.
LEMMA AnswerTrue ==
  ASSUME EngineTypes, RowsInv, NEW d \in Decisions, Answered(d)
  PROVE  cur \in Approvals /\ tasks[cur].status = StatusOf(d)
<1>1. signals \in Seq(Signal) /\ signals # <<>>
  BY DEF EngineTypes, TypeBase, Answered
<1>2. 1 \in DOMAIN signals /\ Head(signals) = signals[1] /\ signals[1] \in Signal
  BY <1>1
<1> QED BY <1>2 DEF Answered, RowsInv, SignalsTrue, Signal

\* While the current node stays.
LEMMA PathInvStays ==
  ASSUME EngineTypes, RowsInv, PathInv, StepView, UNCHANGED cur
  PROVE  PathInv'
<1>0. /\ \A n \in Approvals : tasks[n].status \in Decided => tasks'[n].status = tasks[n].status
      /\ \A n \in Approvals : tasks[n].status # "none" => tasks'[n].status # "none"
  BY StatusesFinal DEF StepView
<1>1. \A n : Approved(n) => Approved(n)'
  BY <1>0 DEF Approved, Decided, Guards
<1>2. \A a \in Attempts : a.kind \in {"create", "invoke", "finish"} /\ a \notin orphans => a.node = cur
  BY DEF EngineTypes, Waits, Attempts
<1>3. \A a \in Attempts : a.kind = "create" /\ ~TaskExists(a.node) => a.node = cur
  BY <1>2 DEF PathInv, CreateKnown
<1>4. RouteDecided'
  <2>1. CASE Answered("approve")
    BY <1>0, <2>1, AnswerTrue DEF RouteDecided, StatusOf, Decided, Decisions
  <2>2. CASE act.kind = "invoke"
    <3>1. act.node = cur /\ act.node \in ServiceNodes
      BY <2>2 DEF EngineTypes, Waits, AttemptsFit, Attempts, Fits
    <3> QED BY <3>1, Kinds DEF RouteDecided
  <2>3. CASE pc \in {"route", "none", "sleep"}
    BY <1>0, <2>3 DEF RouteDecided, PathInv, EngineTypes, Waits, Decided
  <2> QED BY <2>1, <2>2, <2>3 DEF StepView, RouteStep, RouteDecided
<1>5. OthersSettled'
  <2>1. CASE TasksKept
    BY <2>1 DEF TasksKept, OthersSettled, PathInv
  <2>2. ASSUME NEW n \in Approvals, NEW d \in Decisions, TaskDecided(n, d) PROVE OthersSettled'
    <3>1. n = cur
      BY <2>2 DEF TaskDecided, TaskMoves, PathInv, OthersSettled, Open
    <3> QED BY <2>2, <3>1 DEF TaskDecided, TaskMoves, PathInv, OthersSettled
  <2>3. ASSUME NEW a \in Attempts, a.kind = "create", TaskOpened(a.node) PROVE OthersSettled'
    <3>1. a.node = cur
      BY <1>3, <2>3 DEF TaskOpened, TaskMoves, TaskExists
    <3> QED BY <2>3, <3>1 DEF TaskOpened, TaskMoves, PathInv, OthersSettled
  <2> QED BY <2>1, <2>2, <2>3 DEF StepView, RowStep, RowsKept, RowStarted, RowCancelled, RowFinished
<1>6. CreateKnown'
  <2>1. \A a \in orphans' : a.kind = "create" => a.node \in Approvals /\ (a.node = cur \/ TaskExists(a.node))
    BY <1>2 DEF StepView, OrphanStep, PathInv, CreateKnown, EngineTypes, AttemptsFit, Fits
  <2> QED BY <1>0, <2>1 DEF CreateKnown, TaskExists
<1>7. \A a \in Attempts : a.kind = "invoke" => Approved(a.node)
  BY <1>2 DEF PathInv, GuardsPassed
<1>8. GuardsPassed'
  <2>1. Approved(cur)'
    BY <1>1 DEF PathInv, GuardsPassed, Approved, Guards
  <2>2. \A a \in orphans' : a.kind = "invoke" => Approved(a.node)'
    BY <1>1, <1>7 DEF StepView, OrphanStep
  <2>3. \A i \in DOMAIN effects' : effects'[i][1] = "invoke" => Approved(effects'[i][2])
    <3>1. CASE effects' = effects
      BY <3>1 DEF PathInv, GuardsPassed
    <3>2. ASSUME NEW a \in Attempts, effects' = Append(effects, <<a.kind, a.node>>)
          PROVE  \A i \in DOMAIN effects' : effects'[i][1] = "invoke" => Approved(effects'[i][2])
      <4>1. \A i \in DOMAIN effects' : (i \in DOMAIN effects /\ effects'[i] = effects[i]) \/ effects'[i] = <<a.kind, a.node>>
        BY <3>2 DEF EngineTypes, TypeBase
      <4>2. ASSUME NEW i \in DOMAIN effects', effects'[i][1] = "invoke"
            PROVE  Approved(effects'[i][2])
        BY <1>7, <4>1, <4>2 DEF PathInv, GuardsPassed
      <4> QED BY <4>2
    <3> QED BY <3>1, <3>2 DEF StepView, EffectStep
  <2>4. \A i \in DOMAIN effects' : effects'[i][1] = "invoke" => Approved(effects[i][2])'
    BY <1>0, <2>3 DEF Approved, Decided, Guards
  <2> QED BY <2>1, <2>2, <2>4 DEF GuardsPassed, Approved, Guards
<1>9. FinishBacked'
  <2>1. \A s : Backed(s) => Backed(s)'
    BY <1>0 DEF Backed, Decided
  <2>2. \A a \in Attempts : a.kind = "finish" => Backed(a.status)
    BY DEF PathInv, FinishBacked
  <2>3. Backed(inst.status)'
    <3>1. Backed(inst'.status)
      <4>1. CASE inst'.status = inst.status
        BY <4>1 DEF PathInv, FinishBacked
      <4>2. CASE inst'.status \in {"running", "cancelled", "failed"}
        BY <4>2 DEF Backed
      <4>3. CASE \E a \in Attempts : a.kind = "finish" /\ RowFinished(a.status)
        BY <2>2, <4>3 DEF RowFinished
      <4> QED BY <4>1, <4>2, <4>3
              DEF StepView, RowStep, RowsKept, RowStarted, RowCancelled, TaskDecided, TaskOpened, RowFinished
    <3> QED BY <1>0, <3>1 DEF Backed, Decided
  <2>4. \A a \in orphans' : a.kind = "finish" => Backed(a.status)'
    BY <2>1, <2>2 DEF StepView, OrphanStep
  <2>5. act'.kind = "finish" => Backed(act.status)'
    <3>1. CASE act' = NoAct
      BY <3>1, Kinds
    <3>2. CASE ActGoesOn
      BY <1>0, <2>2, <3>2 DEF ActGoesOn, Attempts, Backed, Decided
    <3>3. CASE ActBegins
      <4>1. CASE act'.kind = "finish" /\ act'.status = "completed" /\ NodeType[cur'] = "end"
        BY <4>1 DEF Backed
      <4>2. CASE act'.kind = "finish" /\ act'.status = "rejected" /\ Answered("reject")
        BY <1>0, <4>2, AnswerTrue DEF Backed, StatusOf, Decided, Decisions
      <4> QED BY <3>3, <4>1, <4>2 DEF ActBegins
    <3> QED BY <3>1, <3>2, <3>3 DEF StepView, ActStep
  <2> QED BY <2>3, <2>4, <2>5 DEF FinishBacked, Attempts, Backed
<1> QED BY <1>4, <1>5, <1>6, <1>8, <1>9 DEF PathInv

\* When selectNext moves on: the node left behind is decided and not an end.
LEMMA PathInvMoves ==
  ASSUME EngineTypes, RowsInv, PathInv, StepView,
         pc = "route", cur' \in Targets(cur), cur' # cur, RowsKept, UNCHANGED <<orphans, effects, signals>>
  PROVE  PathInv'
<1>0. \A n \in Approvals : tasks'[n].status = tasks[n].status
  BY DEF RowsKept, TasksKept
<1>1. cur \in Nodes /\ NodeType[cur] # "end" /\ (cur \in Approvals => tasks[cur].status = "approved")
  BY EndHasNoTarget DEF EngineTypes, TypeBase, PathInv, RouteDecided
<1>2. \A n : Approved(n) => Approved(n)'
  BY <1>0 DEF Approved, Guards
<1>3. act = NoAct /\ Attempts = orphans \cup {NoAct}
  BY DEF EngineTypes, Waits, Attempts
<1>4. RouteDecided'
  BY DEF RouteDecided, StepView, RouteStep
<1>5. OthersSettled'
  BY <1>0, <1>1 DEF PathInv, OthersSettled
<1>6. CreateKnown'
  <2>1. \A a \in orphans : a.kind = "create" => a.node \in Approvals
    BY DEF EngineTypes, AttemptsFit, Attempts, Fits
  <2> QED BY <1>0, <1>1, <2>1 DEF PathInv, CreateKnown, TaskExists
<1>7. Approved(cur')
  <2>1. ASSUME NEW m \in Approvals, Guards(m, cur') PROVE tasks[m].status = "approved"
    <3>1. CASE m = cur
      BY <1>1, <3>1
    <3>2. CASE m # cur
      <4>1. Guards(m, cur)
        BY <1>1, <2>1, <3>2, GuardsBack
      <4> QED BY <4>1 DEF PathInv, GuardsPassed, Approved
    <3> QED BY <3>1, <3>2
  <2> QED BY <2>1 DEF Approved
<1>8. GuardsPassed'
  <2>1. Approved(cur)'
    BY <1>0, <1>7 DEF Approved, Guards
  <2>2. \A a \in orphans' : a.kind = "invoke" => Approved(a.node)'
    BY <1>2 DEF PathInv, GuardsPassed
  <2>3. \A i \in DOMAIN effects' : effects'[i][1] = "invoke" => Approved(effects[i][2])'
    BY <1>0 DEF Approved, Guards, PathInv, GuardsPassed
  <2> QED BY <2>1, <2>2, <2>3 DEF GuardsPassed, Approved, Guards
<1>9. FinishBacked'
  <2>1. ASSUME NEW s, Backed(s) PROVE s \notin {"completed", "rejected"}
    BY <1>1, <2>1 DEF Backed
  <2>2. inst'.status \notin {"completed", "rejected"}
    BY <2>1 DEF PathInv, FinishBacked, RowsKept
  <2>3. \A a \in orphans' : a.kind # "finish"
    <3>1. ASSUME NEW a \in orphans, a.kind = "finish" PROVE FALSE
      <4>1. Backed(a.status) /\ a.status \in {"completed", "rejected"}
        BY <3>1 DEF PathInv, FinishBacked, Attempts, EngineTypes, AttemptsFit, Fits
      <4> QED BY <2>1, <4>1
    <3> QED BY <3>1
  <2>4. act'.kind = "finish" => act'.status = "completed" /\ NodeType[cur'] = "end"
    <3>1. CASE act' = NoAct
      BY <3>1, Kinds
    <3>2. ~ActGoesOn
      BY DEF ActGoesOn
    <3> QED BY <3>1, <3>2 DEF StepView, ActStep, ActBegins
  <2> QED BY <2>2, <2>3, <2>4 DEF FinishBacked, Attempts, Backed
<1> QED BY <1>4, <1>5, <1>6, <1>8, <1>9 DEF PathInv

LEMMA PathInvStep == EngineTypes /\ RowsInv /\ PathInv /\ StepView => PathInv'
<1>1. StepView => UNCHANGED cur \/ (/\ pc = "route" /\ cur' \in Targets(cur) /\ cur' # cur /\ RowsKept
                                    /\ UNCHANGED <<orphans, effects, signals>>)
  BY DEF StepView, CurStep
<1> QED BY <1>1, PathInvStays, PathInvMoves

EngineInv == EngineTypes /\ RowsInv /\ PathInv

LEMMA EngineInvariant == Spec => []EngineInv
<1>1. Init => EngineInv
  BY EngineTypesInit, RowsInvInit, PathInvInit DEF EngineInv
<1>2. EngineInv /\ [Next]_vars => EngineInv'
  BY EngineTypesStep, NextView, RowsInvStep, PathInvStep DEF EngineInv
<1> QED BY <1>1, <1>2, PTL DEF Spec

\* A service behind an approval is never called before that approval was given
\* (workflow.go:117-119), for every graph: by GuardsPassed.
THEOREM ServicesAreGuarded == Spec => []ApprovalGuardsService
<1>1. EngineInv => ApprovalGuardsService
  BY DEF EngineInv, PathInv, GuardsPassed, Approved, ApprovalGuardsService, Happened
<1> QED BY <1>1, EngineInvariant, PTL

(* -- The promise -------------------------------------------------------------------- *)

\* The instance and its tasks as the promise sees them.
LEMMA PromiseInit == Init => Promise!Init
BY DEF Init, StoreInit, Promise!Init, Open

LEMMA PromiseStep == EngineInv /\ StepView => [Promise!Next]_(Promise!promiseVars)
<1> SUFFICES ASSUME EngineInv, StepView PROVE [Promise!Next]_(Promise!promiseVars)
  OBVIOUS
<1> DEFINE verdict == [n \in Approvals |-> IF tasks[n].status \in Open THEN "open" ELSE tasks[n].status]
<1>0. \A n \in Approvals : verdict[n] = IF tasks[n].status \in Open THEN "open" ELSE tasks[n].status
  OBVIOUS
<1>k. TasksKept => UNCHANGED verdict
  BY DEF TasksKept
<1>1. CASE RowsKept
  BY <1>1, <1>k DEF RowsKept, Promise!promiseVars
<1>2. CASE RowStarted
  <2>1. Promise!Start
    BY <1>2, <1>k DEF RowStarted, Promise!Start
  <2> QED BY <2>1 DEF Promise!Next
<1>3. CASE RowCancelled
  <2>1. Promise!CancelOrFail
    BY <1>3, <1>k DEF RowCancelled, Promise!CancelOrFail
  <2> QED BY <2>1 DEF Promise!Next
<1>4. ASSUME NEW n \in Approvals, NEW d \in Decisions, TaskDecided(n, d)
      PROVE  Promise!Decide(n)
  <2>1. verdict[n] = "open" /\ inst'.status = inst.status
    BY <1>4 DEF TaskDecided, TaskMoves
  <2>2. StatusOf(d) \in {"approved", "rejected"} /\ StatusOf(d) \notin Open
    BY DEF StatusOf, Open
  <2>3. verdict' = [verdict EXCEPT ![n] = StatusOf(d)]
    BY <1>4, <2>2 DEF TaskDecided, TaskMoves
  <2> QED BY <2>1, <2>2, <2>3 DEF Promise!Decide
<1>5. ASSUME NEW a \in Attempts, TaskOpened(a.node)
      PROVE  a.node \in Approvals /\ Promise!Ask(a.node)
  <2>1. a.node \in Approvals /\ verdict[a.node] = "none" /\ inst.status = "running" /\ inst'.status = inst.status
    BY <1>5 DEF TaskOpened, TaskMoves, Open
  <2>2. verdict' = [verdict EXCEPT ![a.node] = "open"]
    BY <1>5 DEF TaskOpened, TaskMoves, Open
  <2> QED BY <2>1, <2>2 DEF Promise!Ask
<1>6. ASSUME NEW a \in Attempts, a.kind = "finish", RowFinished(a.status)
      PROVE  Promise!Complete \/ Promise!Reject
  <2>0. inst.status = "running" /\ inst'.status = a.status /\ UNCHANGED verdict
    BY <1>6, <1>k DEF RowFinished
  <2>1. Backed(a.status) /\ a.status \in {"completed", "rejected"}
    BY <1>6 DEF EngineInv, PathInv, FinishBacked, EngineTypes, AttemptsFit, Fits
  <2>2. CASE a.status = "completed"
    <3>1. NodeType[cur] = "end" /\ cur \in Nodes /\ cur \notin Approvals
      BY <2>1, <2>2, Kinds DEF Backed, EngineInv, EngineTypes, TypeBase
    <3>2. \A n \in Approvals : verdict[n] \in {"none", "approved"}
      BY <3>1 DEF EngineInv, PathInv, OthersSettled, Open
    <3>3. ASSUME NEW m \in Approvals, \A n \in Nodes : NodeType[n] = "end" => Guards(m, n)
          PROVE  verdict[m] = "approved"
      BY <3>1, <3>3 DEF EngineInv, PathInv, GuardsPassed, Approved, Open
    <3> QED BY <2>0, <2>2, <3>2, <3>3 DEF Promise!Complete
  <2>3. CASE a.status = "rejected"
    <3>1. cur \in Approvals /\ verdict[cur] = "rejected"
      BY <2>1, <2>3 DEF Backed, Open
    <3>2. \A n \in Approvals : verdict[n] # "open"
      BY <3>1 DEF EngineInv, PathInv, OthersSettled, Open
    <3> QED BY <2>0, <2>3, <3>1, <3>2 DEF Promise!Reject
  <2> QED BY <2>1, <2>2, <2>3
<1>7. CASE RowFinished("failed")
  <2>1. Promise!CancelOrFail
    BY <1>7, <1>k DEF RowFinished, Promise!CancelOrFail
  <2> QED BY <2>1 DEF Promise!Next
<1> QED BY <1>1, <1>2, <1>3, <1>4, <1>5, <1>6, <1>7 DEF StepView, RowStep, Promise!Next

\* The runtime, the command handler and the rows together keep the promise made
\* to the users of an instance (workflow.go Execute, repository.go): it ends at
\* most once, and a completed or rejected end is backed by the decisions on
\* record, for every graph, whatever is lost, repeated, reordered or cancelled.
THEOREM RuntimeKeepsPromise == Spec => KeepsPromise
<1>1. EngineInv /\ [Next]_vars => [Promise!Next]_(Promise!promiseVars)
  BY NextView, PromiseStep DEF EngineInv
<1> QED BY PromiseInit, <1>1, EngineInvariant, PTL DEF Spec, KeepsPromise, Promise!Spec

\* And the end stays justified by the decisions for good, although open tasks of
\* an ended instance can still be decided (repository.go:531).
THEOREM EndStaysJustified == Spec => []Promise!EndJustified
<1>1. EngineInv => Promise!EndJustified
  <2> SUFFICES ASSUME EngineInv PROVE Promise!EndJustified
    OBVIOUS
  <2>1. Backed(inst.status) /\ cur \in Nodes /\ OthersSettled /\ Approved(cur)
    BY DEF EngineInv, PathInv, FinishBacked, GuardsPassed, EngineTypes, TypeBase
  <2>2. CASE inst.status = "completed"
    <3>1. NodeType[cur] = "end" /\ cur \notin Approvals
      BY <2>1, <2>2, Kinds DEF Backed
    <3> QED BY <2>1, <2>2, <3>1 DEF Promise!EndJustified, OthersSettled, Approved, Open
  <2>3. CASE inst.status = "rejected"
    BY <2>1, <2>3 DEF Promise!EndJustified, OthersSettled, Backed, Open
  <2> QED BY <2>2, <2>3 DEF Promise!EndJustified
<1> QED BY <1>1, EngineInvariant, PTL

\* Once an instance has ended and no attempt is past its database check, no
\* service is called and no task is opened any more (activities.go:71 and
\* repository.go:376 check the status), for every graph and any number of
\* late attempts.
THEOREM QuietIsFinal == Spec => QuietStaysQuiet
<1>1. ASSUME EngineTypes, StepView, Quiet
      PROVE  /\ Quiet'
             /\ Happened("invoke")' = Happened("invoke")
             /\ \A n \in Approvals : TaskExists(n)' => TaskExists(n)
  <2>1. inst.status \in Terminal /\ inst'.status = inst.status /\ inst.status # "running"
    BY <1>1, StatusesFinal, Statuses DEF StepView, Quiet
  <2>2. \A a \in Attempts : a.kind = "invoke" => a.phase = "begun"
    BY <1>1 DEF Quiet, Attempts
  <2>3. act'.kind = "invoke" => act'.phase = "begun"
    <3>1. CASE act' = NoAct
      BY <3>1, Kinds
    <3>2. CASE ActGoesOn
      BY <2>1, <2>2, <3>2 DEF ActGoesOn, Attempts
    <3>3. CASE ActBegins
      BY <3>3 DEF ActBegins
    <3> QED BY <1>1, <3>1, <3>2, <3>3 DEF StepView, ActStep
  <2>4. Quiet'
    BY <1>1, <2>1, <2>2, <2>3 DEF StepView, OrphanStep, Quiet
  <2>5. effects' = effects \/ \E n : effects' = Append(effects, <<"compensate", n>>)
    BY <1>1, <2>2 DEF StepView, EffectStep
  <2>6. Happened("invoke")' = Happened("invoke")
    <3>1. CASE effects' = effects
      BY <3>1 DEF Happened
    <3>2. ASSUME NEW n, effects' = Append(effects, <<"compensate", n>>)
          PROVE  Happened("invoke")' = Happened("invoke")
      <4>1. /\ DOMAIN effects' = DOMAIN effects \cup {Len(effects) + 1}
            /\ Len(effects) + 1 \notin DOMAIN effects
            /\ \A i \in DOMAIN effects : effects'[i] = effects[i]
            /\ effects'[Len(effects) + 1] = <<"compensate", n>>
        BY <1>1, <3>2 DEF EngineTypes, TypeBase
      <4>2. <<"compensate", n>>[1] # "invoke"
        OBVIOUS
      <4> QED BY <4>1, <4>2 DEF Happened
    <3> QED BY <2>5, <3>1, <3>2
  <2>7. \A n \in Approvals : TaskExists(n)' => TaskExists(n)
    <3>1. TasksKept \/ \E n \in Approvals, d \in Decisions : TaskDecided(n, d)
      BY <1>1, <2>1 DEF StepView, RowStep, RowsKept, RowStarted, RowCancelled, RowFinished, TaskOpened
    <3>2. CASE TasksKept
      BY <3>2 DEF TasksKept, TaskExists
    <3>3. ASSUME NEW n \in Approvals, NEW d \in Decisions, TaskDecided(n, d)
          PROVE  \A m \in Approvals : TaskExists(m)' => TaskExists(m)
      BY <3>3 DEF TaskDecided, TaskMoves, TaskExists, Open
    <3> QED BY <3>1, <3>2, <3>3
  <2> QED BY <2>4, <2>6, <2>7
<1>2. EngineTypes /\ [Next]_vars =>
        [Quiet => /\ Quiet'
                  /\ Happened("invoke")' = Happened("invoke")
                  /\ \A n \in Approvals : TaskExists(n)' => TaskExists(n)]_vars
  BY <1>1, NextView
<1> QED BY <1>2, EngineTyped, PTL DEF Spec, QuietStaysQuiet

(* -- The kinds of steps of the workflow -------------------------------------------- *)

\* Nothing happens to its activity: the API, a delivery, a timer, a decision.
Bystands ==
  /\ UNCHANGED <<act, done, undo, abandoned, orphans, effects>>
  /\ RowsKept \/ RowStarted \/ RowCancelled \/ \E n \in Approvals, d \in Decisions : TaskDecided(n, d)
  /\ pc' = pc \/ (pc \in {"none", "sleep", "await"} /\ pc' = "route")
  /\ faults' \in {faults, faults + 1}

\* An attempt nobody waits for takes effect, or finds that it cannot.
Lands(a) ==
  /\ orphans' = orphans \ {a}
  /\ (RowsKept /\ UNCHANGED effects /\ a.kind # "compensate") \/ CallView(a)
  /\ UNCHANGED <<pc, act, done, undo, abandoned, faults>>

\* The work of a node begins.
Begins ==
  /\ pc \in {"route", "await"} /\ act = NoAct
  /\ \/ pc' = "sleep" /\ act' = NoAct
     \/ /\ pc' = "activity" /\ act' \in Activity /\ act'.tries = 0
        /\ act'.kind \in {"create", "invoke", "finish"}
  /\ RowsKept /\ UNCHANGED <<done, undo, abandoned, orphans, effects, faults>>

\* The work ends in the cleanup.
Stops ==
  /\ BeginCleanup
  /\ pc \in {"route", "sleep", "await", "activity"} /\ act.kind \in {"none", "create", "invoke", "finish"}
  /\ act.kind = "finish" => \/ cancelReq
                            \/ Refused(act)
                            \/ act.tries + 1 >= MaxAttempts /\ faults' = faults + 1
  /\ orphans \subseteq orphans' /\ orphans' \subseteq Attempts \ {NoAct}
  /\ RowsKept /\ UNCHANGED <<abandoned, effects>>
  /\ faults' \in {faults, faults + 1}

Succeeds ==
  /\ pc = "activity" /\ act \in Activity
  /\ CallView(act)
  /\ \/ /\ act.kind = "invoke" /\ act.phase = "begun"
        /\ act' \in Activity /\ act'.kind = "invoke"
        /\ UNCHANGED <<pc, done, undo>>
     \/ /\ ~(act.kind = "invoke" /\ act.phase = "begun")
        /\ Returned(act)
  /\ UNCHANGED <<orphans, faults, abandoned, undo>>

\* The attempt is lost, or it is refused or answered with an error.
Loses ==
  /\ pc = "activity" /\ act \in Activity
  /\ Retried(act) \/ CleanupDropped(act)
  /\ \/ faults' = faults + 1 /\ orphans' = orphans \cup {act}
     \/ UNCHANGED <<faults, orphans>> /\ (Refused(act) \/ CallsUpstream(act))
  /\ RowsKept /\ UNCHANGED effects

\* One iteration of the deferred cleanup.
Undoes ==
  /\ pc = "undo" /\ act = NoAct
  /\ \/ /\ undo = <<>> /\ UNCHANGED undo
        /\ pc' = "activity" /\ act' \in Activity /\ act'.kind = "fail" /\ act'.tries = 0
     \/ /\ undo # <<>> /\ undo' = Front(undo) /\ Last(undo) \in Compensable
        /\ pc' = "activity" /\ act' \in Activity /\ act'.kind = "compensate" /\ act'.node = Last(undo)
     \/ /\ undo # <<>> /\ undo' = Front(undo) /\ Last(undo) \notin Compensable
        /\ UNCHANGED <<pc, act>>
  /\ RowsKept /\ UNCHANGED <<done, abandoned, orphans, effects, faults>>

WorkStep == Bystands \/ (\E a \in orphans : Lands(a)) \/ Begins \/ Stops \/ Succeeds \/ Loses \/ Undoes

LEMMA ApiWork ==
  ASSUME ApiOnly,
         RowsKept \/ RowStarted \/ RowCancelled \/ \E n \in Approvals, d \in Decisions : TaskDecided(n, d)
  PROVE  WorkStep
BY DEF ApiOnly, wfVars, WorkStep, Bystands

LEMMA RouteWork ==
  ASSUME EngineTypes, SelectNext \/ SelectNextFails \/ TimerElapses
  PROVE  WorkStep
<1>1. /\ UNCHANGED <<storeVars, orphans, effects, abandoned, faults>>
      /\ pc \in {"route", "sleep"} /\ act = NoAct
  BY DEF SelectNext, SelectNextFails, TimerElapses, EngineTypes, Waits
<1>2. RowsKept /\ act.kind = "none" /\ orphans \subseteq Attempts \ {NoAct}
  BY <1>1, Kinds, OrphansKept DEF RowsKept, TasksKept, storeVars
<1>3. CASE BeginCleanup
  <2>1. Stops
    BY <1>1, <1>2, <1>3 DEF Stops
  <2> QED BY <2>1 DEF WorkStep
<1>4. CASE SelectNext
  <2>1. PICK n \in Targets(cur) : Visit(n)
    BY <1>4 DEF SelectNext
  <2>2. n \in Nodes /\ NodeType[n] # "start"
    BY GraphFacts DEF EngineTypes, TypeBase
  <2>3. CASE ~(cancelReq \/ steps + 1 > Cardinality(Nodes))
    <3>1. UNCHANGED <<done, undo>> /\ pc = "route"
      BY <1>4, <2>1, <2>3 DEF Visit, SelectNext
    <3>2. \/ Schedule("create", n, "none") \/ Schedule("invoke", n, "none")
          \/ Schedule("finish", n, "completed") \/ (pc' = "sleep" /\ act' = NoAct)
      <4>1. NodeType[n] \in {"approval", "service_task", "end", "timer"}
        BY <2>2, EngineConstants
      <4> QED BY <2>1, <2>3, <4>1 DEF Visit
    <3>3. \/ pc' = "sleep" /\ act' = NoAct
          \/ /\ pc' = "activity" /\ act' \in Activity /\ act'.tries = 0
             /\ act'.kind \in {"create", "invoke", "finish"}
      BY <2>2, <3>2, ScheduledFields, Statuses
    <3>4. Begins
      BY <1>1, <1>2, <3>1, <3>3 DEF Begins
    <3> QED BY <3>4 DEF WorkStep
  <2>4. CASE cancelReq \/ steps + 1 > Cardinality(Nodes)
    BY <1>3, <2>1, <2>4 DEF Visit
  <2> QED BY <2>3, <2>4
<1>5. CASE TimerElapses /\ ~cancelReq
  <2>1. Bystands
    BY <1>1, <1>2, <1>5 DEF Bystands, TimerElapses
  <2> QED BY <2>1 DEF WorkStep
<1> QED BY <1>3, <1>4, <1>5 DEF SelectNextFails, TimerElapses

LEMMA AwaitWork ==
  ASSUME EngineTypes, AwaitDecision \/ ApprovalTimeout
  PROVE  WorkStep
<1>1. /\ UNCHANGED <<storeVars, orphans, effects, abandoned, faults>>
      /\ pc = "await" /\ act = NoAct /\ cur \in Nodes
  BY DEF AwaitDecision, ApprovalTimeout, EngineTypes, TypeBase, Waits
<1>2. RowsKept /\ act.kind = "none" /\ orphans \subseteq Attempts \ {NoAct}
  BY <1>1, Kinds, OrphansKept DEF RowsKept, TasksKept, storeVars
<1>3. CASE BeginCleanup
  <2>1. Stops
    BY <1>1, <1>2, <1>3 DEF Stops
  <2> QED BY <2>1 DEF WorkStep
<1>4. CASE Schedule("finish", cur, "rejected") /\ UNCHANGED <<done, undo>>
  <2>1. Begins
    BY <1>1, <1>2, <1>4, ScheduledFields, Statuses DEF Begins
  <2> QED BY <2>1 DEF WorkStep
<1>5. CASE pc' \in {pc, "route"} /\ UNCHANGED <<act, done, undo>>
  <2>1. Bystands
    BY <1>1, <1>2, <1>5 DEF Bystands
  <2> QED BY <2>1 DEF WorkStep
<1> QED BY <1>3, <1>4, <1>5 DEF AwaitDecision, ApprovalTimeout

LEMMA AttemptLostWork ==
  ASSUME EngineTypes, AttemptErrors \/ AttemptTimesOut \/ ActivityCancelled
  PROVE  WorkStep
<1>1. pc = "activity" /\ act \in Activity /\ UNCHANGED <<storeVars, effects>>
  BY DEF AttemptErrors, AttemptTimesOut, ActivityCancelled, EngineTypes, Waits
<1>2. RowsKept /\ orphans \cup {act} \subseteq Attempts \ {NoAct}
  BY <1>1, OrphansKept DEF RowsKept, TasksKept, storeVars
<1>3. \/ faults' = faults + 1 /\ orphans' = orphans \cup {act} /\ RetryOrGiveUp(act)
      \/ UNCHANGED <<faults, orphans>> /\ (Refused(act) \/ CallsUpstream(act)) /\ RetryOrGiveUp(act)
      \/ /\ UNCHANGED <<faults, abandoned>> /\ orphans' = orphans \cup {act} /\ cancelReq /\ BeginCleanup
         /\ ~InCleanup(act)
  BY DEF AttemptErrors, AttemptTimesOut, ActivityCancelled, Fault
<1>4. CASE /\ UNCHANGED <<faults, abandoned>> /\ orphans' = orphans \cup {act} /\ cancelReq
           /\ BeginCleanup /\ ~InCleanup(act)
  <2>1. act.kind \in {"create", "invoke", "finish"}
    BY <1>1, <1>4, ActivityFields DEF InCleanup
  <2>2. Stops
    BY <1>1, <1>2, <1>4, <2>1 DEF Stops
  <2> QED BY <2>2 DEF WorkStep
<1>5. CASE /\ RetryOrGiveUp(act)
           /\ \/ faults' = faults + 1 /\ orphans' = orphans \cup {act}
              \/ UNCHANGED <<faults, orphans>> /\ (Refused(act) \/ CallsUpstream(act))
  <2>1. CASE Retried(act) \/ CleanupDropped(act)
    <3>1. Loses
      BY <1>1, <1>2, <1>5, <2>1 DEF Loses
    <3> QED BY <3>1 DEF WorkStep
  <2>2. CASE WorkStopped(act)
    <3>1. act.kind = "finish" => act.tries + 1 >= MaxAttempts /\ ~CallsUpstream(act)
      BY <2>2 DEF WorkStopped, AttemptLimit, InCleanup, CallsUpstream
    <3>2. Stops
      BY <1>1, <1>2, <1>5, <2>2, <3>1 DEF Stops, WorkStopped
    <3> QED BY <3>2 DEF WorkStep
  <2> QED BY <1>1, <1>5, <2>1, <2>2, RetryView
<1> QED BY <1>3, <1>4, <1>5

LEMMA AttemptSucceedsWork ==
  ASSUME EngineTypes, AttemptSucceeds
  PROVE  WorkStep
<1>1. /\ pc = "activity" /\ act \in Activity /\ Fits(act) /\ TypeBase
      /\ UNCHANGED <<orphans, faults, abandoned, undo>>
  BY DEF AttemptSucceeds, EngineTypes, Waits, AttemptsFit, Attempts, Returned
<1>2. CallView(act)
  BY <1>1, CallRows DEF AttemptSucceeds
<1>3. CASE act.kind = "invoke" /\ act.phase = "begun"
  <2>1. act' = [act EXCEPT !.phase = "advanced"] /\ UNCHANGED <<pc, done, undo>>
    BY <1>3 DEF AttemptSucceeds
  <2>2. act' \in Activity /\ act'.kind = "invoke"
    BY <1>1, <1>3, <2>1, AdvancedFields
  <2>3. Succeeds
    BY <1>1, <1>2, <1>3, <2>1, <2>2 DEF Succeeds
  <2> QED BY <2>3 DEF WorkStep
<1>4. CASE ~(act.kind = "invoke" /\ act.phase = "begun")
  <2>1. Returned(act)
    BY <1>4 DEF AttemptSucceeds
  <2>2. Succeeds
    BY <1>1, <1>2, <1>4, <2>1 DEF Succeeds
  <2> QED BY <2>2 DEF WorkStep
<1> QED BY <1>3, <1>4

LEMMA OrphanWork ==
  ASSUME EngineTypes, NEW a \in orphans, OrphanLands(a)
  PROVE  WorkStep
<1>1. orphans' = orphans \ {a} /\ UNCHANGED <<pc, act, done, undo, abandoned, faults>>
  BY DEF OrphanLands, wfVars
<1>2. a.kind = "compensate" => ~Refused(a)
  BY DEF Refused
<1>3. a \in Activity /\ Fits(a) /\ TypeBase
  BY DEF EngineTypes, TypeBase, AttemptsFit, Attempts
<1>4. (RowsKept /\ UNCHANGED effects /\ a.kind # "compensate") \/ CallView(a)
  <2>1. CASE Refused(a)
    BY <1>2, <2>1 DEF OrphanLands, RowsKept, TasksKept, storeVars
  <2>2. CASE ~Refused(a)
    BY <1>3, <2>2, CallRows DEF OrphanLands
  <2> QED BY <2>1, <2>2
<1>5. Lands(a)
  BY <1>1, <1>4 DEF Lands
<1> QED BY <1>5 DEF WorkStep

LEMMA CleanupWork ==
  ASSUME EngineTypes, CleanupStep
  PROVE  WorkStep
<1>1. /\ UNCHANGED <<storeVars, done, orphans, effects, abandoned, faults>>
      /\ pc = "undo" /\ act = NoAct /\ cur \in Nodes
  BY DEF CleanupStep, EngineTypes, TypeBase, Waits
<1>2. RowsKept
  BY <1>1 DEF RowsKept, TasksKept, storeVars
<1>3. CASE undo = <<>>
  <2>1. Schedule("fail", cur, "failed") /\ UNCHANGED undo
    BY <1>3 DEF CleanupStep
  <2>2. Undoes
    BY <1>1, <1>2, <1>3, <2>1, ScheduledFields, Statuses DEF Undoes
  <2> QED BY <2>2 DEF WorkStep
<1>4. CASE undo # <<>> /\ Last(undo) \in Compensable
  <2>1. Schedule("compensate", Last(undo), "none") /\ undo' = Front(undo) /\ Last(undo) \in Nodes
    BY <1>4, Kinds DEF CleanupStep
  <2>2. pc' = "activity" /\ act' \in Activity /\ act'.kind = "compensate" /\ act'.node = Last(undo)
    BY <2>1, ScheduledFields
  <2>3. Undoes
    BY <1>1, <1>2, <1>4, <2>1, <2>2 DEF Undoes
  <2> QED BY <2>3 DEF WorkStep
<1>5. CASE undo # <<>> /\ Last(undo) \notin Compensable
  <2>1. Undoes
    BY <1>1, <1>2, <1>5 DEF Undoes, CleanupStep
  <2> QED BY <2>1 DEF WorkStep
<1> QED BY <1>3, <1>4, <1>5

LEMMA DeliveryWork ==
  ASSUME EngineTypes, NEW i \in 1 .. MaxEvents, Delivery(i)
  PROVE  WorkStep
<1>1. /\ UNCHANGED <<inst, tasks, outbox, act, done, undo, orphans, effects, abandoned>>
      /\ HandledView(i) /\ faults' \in {faults, faults + 1}
  BY DeliveryView
<1>2. pc' = pc \/ (pc = "none" /\ pc' = "route")
  BY <1>1 DEF HandledView
<1>3. Bystands
  BY <1>1, <1>2 DEF Bystands, RowsKept, TasksKept
<1> QED BY <1>3 DEF WorkStep

LEMMA NextWork == EngineTypes /\ [Next]_vars => WorkStep
<1> SUFFICES ASSUME EngineTypes, [Next]_vars PROVE WorkStep
  OBVIOUS
<1>1. CASE StartInstance \/ UserCancels \/ \E n \in Approvals, d \in Decisions : UserDecides(n, d)
  BY <1>1, ApiStep, ApiWork
<1>2. CASE SelectNext \/ SelectNextFails \/ TimerElapses
  BY <1>2, RouteWork
<1>3. CASE AwaitDecision \/ ApprovalTimeout
  BY <1>3, AwaitWork
<1>4. CASE AttemptSucceeds
  BY <1>4, AttemptSucceedsWork
<1>5. CASE AttemptErrors \/ AttemptTimesOut \/ ActivityCancelled
  BY <1>5, AttemptLostWork
<1>6. CASE \E a \in orphans : OrphanLands(a)
  BY <1>6, OrphanWork
<1>7. CASE CleanupStep
  BY <1>7, CleanupWork
<1>8. CASE \E i \in 1 .. MaxEvents : Delivery(i)
  BY <1>8, DeliveryWork
<1>9. CASE UNCHANGED vars
  <2>1. RowsKept /\ ApiOnly
    BY <1>9 DEF vars, storeVars, ApiOnly, RowsKept, TasksKept
  <2> QED BY <2>1, ApiWork
<1> QED BY <1>1, <1>2, <1>3, <1>4, <1>5, <1>6, <1>7, <1>8, <1>9 DEF Next, Delivery

(* -- The saga ----------------------------------------------------------------------- *)

LEMMA EffectsGrow ==
  ASSUME NEW e \in {"invoke", "compensate"} \X ServiceNodes,
         effects \in Seq({"invoke", "compensate"} \X ServiceNodes), effects' = Append(effects, e)
  PROVE  /\ DOMAIN effects' = DOMAIN effects \cup {Len(effects) + 1}
         /\ \A j \in DOMAIN effects : effects'[j] = effects[j] /\ j < Len(effects) + 1
         /\ effects'[Len(effects) + 1] = e
OBVIOUS

\* The effects of a step, as far as the saga is concerned.
LEMMA EffectsView ==
  ASSUME EngineTypes, StepView
  PROVE  /\ DOMAIN effects \subseteq DOMAIN effects'
         /\ \A j \in DOMAIN effects : effects'[j] = effects[j]
         /\ \/ effects' = effects
            \/ \E a \in Attempts :
                 /\ a.kind = "compensate" \/ (a.kind = "invoke" /\ a.phase = "advanced")
                 /\ a.node \in ServiceNodes
                 /\ effects' = Append(effects, <<a.kind, a.node>>)
                 /\ DOMAIN effects' = DOMAIN effects \cup {Len(effects) + 1}
                 /\ \A j \in DOMAIN effects : j < Len(effects) + 1
                 /\ effects'[Len(effects) + 1] = <<a.kind, a.node>>
<1>1. CASE effects' = effects
  BY <1>1
<1>2. ASSUME NEW a \in Attempts, a.kind = "compensate" \/ (a.kind = "invoke" /\ a.phase = "advanced"),
             effects' = Append(effects, <<a.kind, a.node>>)
      PROVE  /\ a.node \in ServiceNodes
             /\ DOMAIN effects' = DOMAIN effects \cup {Len(effects) + 1}
             /\ \A j \in DOMAIN effects : effects'[j] = effects[j] /\ j < Len(effects) + 1
             /\ effects'[Len(effects) + 1] = <<a.kind, a.node>>
  <2>1. a.node \in ServiceNodes
    BY <1>2, Kinds DEF EngineTypes, AttemptsFit, Fits
  <2>2. <<a.kind, a.node>> \in {"invoke", "compensate"} \X ServiceNodes
    BY <1>2, <2>1
  <2>3. effects \in Seq({"invoke", "compensate"} \X ServiceNodes)
    BY DEF EngineTypes, TypeBase
  <2> QED BY <1>2, <2>1, <2>2, <2>3, EffectsGrow
<1> QED BY <1>1, <1>2 DEF StepView, EffectStep

Invoked(n) == \E j \in DOMAIN effects : effects[j] = <<"invoke", n>>

\* Whatever is or may be compensated was invoked.
InvokedBefore ==
  /\ \A i \in DOMAIN done : Invoked(done[i])
  /\ \A i \in DOMAIN undo : Invoked(undo[i])
  /\ \A a \in Attempts : a.kind = "compensate" => Invoked(a.node)

LEMMA SagaSequences ==
  ASSUME EngineTypes
  PROVE  /\ undo # <<>> => /\ Last(undo) = undo[Len(undo)] /\ Len(undo) \in DOMAIN undo
                           /\ Front(undo) \in Seq(ServiceNodes) /\ Len(Front(undo)) = Len(undo) - 1
                           /\ \A i \in DOMAIN Front(undo) : i \in DOMAIN undo /\ Front(undo)[i] = undo[i]
         /\ \A n \in ServiceNodes :
              /\ Len(Append(done, n)) = Len(done) + 1
              /\ \A i \in DOMAIN Append(done, n) :
                   (i \in DOMAIN done /\ Append(done, n)[i] = done[i]) \/ Append(done, n)[i] = n
<1>1. undo \in Seq(ServiceNodes) /\ done \in Seq(ServiceNodes)
  BY DEF EngineTypes, TypeBase
<1>2. undo # <<>> => /\ Last(undo) = undo[Len(undo)] /\ Len(undo) \in DOMAIN undo
                     /\ Front(undo) \in Seq(ServiceNodes) /\ Len(Front(undo)) = Len(undo) - 1
                     /\ \A i \in DOMAIN Front(undo) : i \in DOMAIN undo /\ Front(undo)[i] = undo[i]
  <2> SUFFICES ASSUME undo # <<>>
               PROVE  /\ Last(undo) = undo[Len(undo)] /\ Len(undo) \in DOMAIN undo
                      /\ Front(undo) \in Seq(ServiceNodes) /\ Len(Front(undo)) = Len(undo) - 1
                      /\ \A i \in DOMAIN Front(undo) : i \in DOMAIN undo /\ Front(undo)[i] = undo[i]
    OBVIOUS
  <2>1. Len(undo) \in Nat /\ Len(undo) > 0 /\ DOMAIN undo = 1 .. Len(undo)
    BY <1>1
  <2>2. Last(undo) = undo[Len(undo)] /\ Len(undo) \in DOMAIN undo
    BY <2>1 DEF Last
  <2>3. Front(undo) = SubSeq(undo, 1, Len(undo) - 1)
    BY DEF Front
  <2>4. /\ Front(undo) \in Seq(ServiceNodes) /\ Len(Front(undo)) = Len(undo) - 1
        /\ \A i \in 1 .. Len(undo) - 1 : Front(undo)[i] = undo[i]
    BY <1>1, <2>1, <2>3
  <2> QED BY <2>1, <2>2, <2>4
<1>3. \A n \in ServiceNodes :
        /\ Len(Append(done, n)) = Len(done) + 1
        /\ \A i \in DOMAIN Append(done, n) :
             (i \in DOMAIN done /\ Append(done, n)[i] = done[i]) \/ Append(done, n)[i] = n
  BY <1>1
<1> QED BY <1>2, <1>3

\* What each kind of step leaves in completedServices, in the list the cleanup
\* works off, and among the compensations under way.
LEMMA DoneView ==
  ASSUME EngineTypes, WorkStep
  PROVE  /\ \/ done' = done
            \/ /\ act.kind = "invoke" /\ done' = Append(done, act.node) /\ act.node \in ServiceNodes
               /\ effects' = Append(effects, <<"invoke", act.node>>)
         /\ undo' = undo \/ undo' = done \/ (undo # <<>> /\ undo' = Front(undo))
         /\ \A a \in orphans' \cup {act'} : a.kind = "compensate" =>
              \/ \E b \in Attempts : b.kind = "compensate" /\ b.node = a.node
              \/ pc = "undo" /\ undo # <<>> /\ a.node = Last(undo)
<1>1. CASE Bystands
  BY <1>1 DEF Bystands, Attempts
<1>2. ASSUME NEW a \in orphans, Lands(a)
      PROVE  UNCHANGED <<done, undo, act>> /\ orphans' \subseteq orphans
  BY <1>2 DEF Lands
<1>3. CASE Begins
  BY <1>3, Kinds DEF Begins, Attempts
<1>4. CASE Stops
  BY <1>4, Kinds DEF Stops, BeginCleanup
<1>5. CASE Succeeds
  <2>1. CASE act.kind = "invoke" /\ act.phase = "begun"
    BY <1>5, <2>1 DEF Succeeds, Attempts
  <2>2. CASE Returned(act) /\ ~(act.kind = "invoke" /\ act.phase = "begun")
    <3>1. act' = NoAct /\ UNCHANGED <<undo, orphans>>
      BY <1>5, <2>2 DEF Succeeds, Returned
    <3>2. CASE act.kind = "invoke"
      <4>1. act.phase = "advanced" /\ act.node \in ServiceNodes
        BY <1>5, <2>2, <3>2, ActivityFields DEF Succeeds, EngineTypes, AttemptsFit, Attempts, Fits
      <4>2. effects' = Append(effects, <<"invoke", act.node>>)
        BY <1>5, <3>2, <4>1 DEF Succeeds, CallView
      <4>3. done' = Append(done, act.node)
        BY <2>2, <3>2 DEF Returned
      <4> QED BY <3>1, <3>2, <4>1, <4>2, <4>3, Kinds DEF Attempts
    <3>3. CASE act.kind # "invoke"
      BY <2>2, <3>1, <3>3, Kinds DEF Returned, Attempts
    <3> QED BY <3>2, <3>3
  <2> QED BY <1>5, <2>1, <2>2 DEF Succeeds
<1>6. CASE Loses
  BY <1>6, Kinds DEF Loses, Retried, CleanupDropped, Attempts
<1>7. CASE Undoes
  BY <1>7, Kinds DEF Undoes, Attempts
<1> QED BY <1>1, <1>2, <1>3, <1>4, <1>5, <1>6, <1>7 DEF WorkStep, Attempts

LEMMA InvokedStep ==
  ASSUME EngineTypes, StepView, WorkStep, InvokedBefore
  PROVE  InvokedBefore'
<1>1. \A n : Invoked(n) => Invoked(n)'
  BY EffectsView DEF Invoked
<1>2. \A i \in DOMAIN done' : Invoked(done[i])'
  <2>1. CASE done' = done
    BY <1>1, <2>1 DEF InvokedBefore, Invoked
  <2>2. CASE /\ act.kind = "invoke" /\ done' = Append(done, act.node) /\ act.node \in ServiceNodes
             /\ effects' = Append(effects, <<"invoke", act.node>>)
    <3>0. PICK n \in ServiceNodes : n = act.node
      BY <2>2
    <3>1. Invoked(n)'
      <4>1. /\ effects \in Seq({"invoke", "compensate"} \X ServiceNodes)
            /\ <<"invoke", n>> \in {"invoke", "compensate"} \X ServiceNodes
        BY DEF EngineTypes, TypeBase
      <4>2. Len(effects) + 1 \in DOMAIN effects' /\ effects'[Len(effects) + 1] = <<"invoke", n>>
        BY <2>2, <3>0, <4>1, EffectsGrow
      <4> QED BY <4>2 DEF Invoked
    <3>2. ASSUME NEW i \in DOMAIN done' PROVE Invoked(done[i])'
      <4>1. (i \in DOMAIN done /\ done'[i] = done[i]) \/ done'[i] = n
        BY <2>2, <3>0, SagaSequences
      <4>2. PICK x : done'[i] = x /\ Invoked(x)'
        BY <1>1, <3>1, <4>1 DEF InvokedBefore
      <4> QED BY <4>2 DEF Invoked
    <3> QED BY <3>2
  <2> QED BY <2>1, <2>2, DoneView
<1>3. ASSUME NEW i \in DOMAIN undo' PROVE Invoked(undo[i])'
  <2>1. undo' = undo \/ undo' = done \/ (undo # <<>> /\ undo' = Front(undo))
    BY DoneView
  <2>2. PICK x : undo'[i] = x /\ Invoked(x)
    BY <2>1, SagaSequences DEF InvokedBefore
  <2>3. Invoked(x)'
    BY <1>1, <2>2
  <2> QED BY <2>2, <2>3 DEF Invoked
<1>4. \A a \in Attempts' : a.kind = "compensate" => Invoked(a.node)'
  <2>1. undo # <<>> => Invoked(Last(undo))
    BY SagaSequences DEF InvokedBefore
  <2>2. ASSUME NEW a \in orphans' \cup {act'}, a.kind = "compensate" PROVE Invoked(a.node)
    BY <2>1, <2>2, DoneView DEF InvokedBefore
  <2> QED BY <1>1, <2>2 DEF Attempts
<1> QED BY <1>2, <1>3, <1>4 DEF InvokedBefore

LEMMA FollowsStep ==
  ASSUME EngineTypes, StepView, InvokedBefore, CompensationFollowsInvocation
  PROVE  CompensationFollowsInvocation'
<1>1. CASE effects' = effects
  BY <1>1 DEF CompensationFollowsInvocation, Happened
<1>2. ASSUME NEW a \in Attempts,
             a.kind = "compensate" \/ (a.kind = "invoke" /\ a.phase = "advanced"),
             DOMAIN effects' = DOMAIN effects \cup {Len(effects) + 1},
             \A j \in DOMAIN effects : j < Len(effects) + 1,
             effects'[Len(effects) + 1] = <<a.kind, a.node>>
      PROVE  CompensationFollowsInvocation'
  <2>1. \A j \in DOMAIN effects : effects'[j] = effects[j]
    BY EffectsView
  <2>2. ASSUME NEW i \in DOMAIN effects', effects'[i][1] = "compensate"
        PROVE  \E j \in DOMAIN effects' : effects'[j][1] = "invoke" /\ j < i /\ effects'[j][2] = effects'[i][2]
    <3>1. CASE i \in DOMAIN effects
      <4>1. PICK j \in DOMAIN effects : effects[j][1] = "invoke" /\ j < i /\ effects[j][2] = effects[i][2]
        BY <2>1, <2>2, <3>1 DEF CompensationFollowsInvocation, Happened
      <4> QED BY <1>2, <2>1, <3>1, <4>1
    <3>2. CASE i = Len(effects) + 1
      <4>1. a.kind = "compensate" /\ effects'[i][2] = a.node
        BY <1>2, <2>2, <3>2
      <4>2. PICK j \in DOMAIN effects : effects[j] = <<"invoke", a.node>>
        BY <4>1 DEF InvokedBefore, Invoked
      <4> QED BY <1>2, <2>1, <3>2, <4>1, <4>2
    <3> QED BY <1>2, <3>1, <3>2
  <2> QED BY <2>2 DEF CompensationFollowsInvocation, Happened
<1> QED BY <1>1, <1>2, EffectsView

Cleaning == pc = "undo" \/ InCleanup(act)

NoneUndone ==
  /\ \A i \in DOMAIN effects : effects[i][1] # "compensate"
  /\ \A a \in Attempts : a.kind # "compensate"

\* Before the cleanup nothing is compensated.
UndoneLate == pc # "closed" /\ ~Cleaning => NoneUndone

\* From the first attempt to finish on, as long as the instance is not
\* cancelled or failed and fewer results are lost than there are attempts, the
\* workflow goes on trying to finish or is closed, and compensates nothing.
FinishUnderWay ==
  (\E a \in Attempts : a.kind = "finish") \/ inst.status \in {"completed", "rejected"}

FinishSurvives ==
  inst.status \notin {"cancelled", "failed"} /\ faults < MaxAttempts /\ FinishUnderWay =>
    (act.kind = "finish" \/ pc = "closed") /\ NoneUndone

\* Every attempt but the first of these follows a fault.
FinishTries ==
  act.kind = "finish" /\ inst.status \notin {"cancelled", "failed"} => act.tries <= faults

FailTries == act.kind = "fail" => act.tries <= faults

LEMMA NoneUndoneStep ==
  ASSUME EngineTypes, StepView, WorkStep, NoneUndone, pc # "undo"
  PROVE  NoneUndone'
<1>1. \A a \in orphans' \cup {act'} : a.kind # "compensate"
  BY DoneView DEF NoneUndone
<1>2. \A i \in DOMAIN effects' : effects'[i][1] # "compensate"
  BY EffectsView DEF NoneUndone
<1> QED BY <1>1, <1>2 DEF NoneUndone, Attempts

\* The cleanup and the end are one-way.
LEMMA OneWay ==
  ASSUME EngineTypes, WorkStep
  PROVE  /\ pc = "closed" => pc' = "closed" /\ act' = NoAct /\ act = NoAct /\ orphans' \subseteq orphans
         /\ Cleaning => Cleaning' \/ pc' = "closed"
<1>0. pc # "activity" => act = NoAct /\ act.kind = "none"
  BY Kinds DEF EngineTypes, Waits
<1>1. CASE Bystands
  BY <1>0, <1>1 DEF Bystands, Cleaning, InCleanup
<1>2. ASSUME NEW a \in orphans, Lands(a) PROVE UNCHANGED <<pc, act>> /\ orphans' \subseteq orphans
  BY <1>2 DEF Lands
<1>3. CASE Begins
  BY <1>0, <1>3 DEF Begins, Cleaning, InCleanup
<1>4. CASE Stops
  BY <1>4 DEF Stops, BeginCleanup, Cleaning
<1>5. CASE Succeeds
  BY <1>0, <1>5 DEF Succeeds, Returned, Cleaning, InCleanup
<1>6. CASE Loses
  BY <1>0, <1>6 DEF Loses, Retried, CleanupDropped, Cleaning, InCleanup
<1>7. CASE Undoes
  BY <1>0, <1>7 DEF Undoes, Cleaning, InCleanup
<1> QED BY <1>0, <1>1, <1>2, <1>3, <1>4, <1>5, <1>6, <1>7 DEF WorkStep, Cleaning, InCleanup

LEMMA UndoneLateStep ==
  ASSUME EngineTypes, StepView, WorkStep, UndoneLate
  PROVE  UndoneLate'
BY OneWay, NoneUndoneStep DEF UndoneLate, Cleaning

\* A finish is refused only to an instance that was cancelled or has failed.
LEMMA FinishRefused ==
  ASSUME EngineInv, pc = "activity", act.kind = "finish", Refused(act)
  PROVE  inst.status \in {"cancelled", "failed"}
<1>1. inst.status \notin {"running", act.status} /\ act.status \in {"completed", "rejected"}
  BY DEF Refused, FinishAccepted, EngineInv, EngineTypes, AttemptsFit, Attempts, Fits
<1>2. inst.status \in {"completed", "rejected", "cancelled", "failed"}
  BY <1>1 DEF EngineInv, RowsInv, CommandsTrue, EngineTypes, TypeBase, StoreTypeOK, Instance, InstanceStatus, Terminal
<1>3. Backed(inst.status) /\ Backed(act.status)
  BY DEF EngineInv, PathInv, FinishBacked, Attempts
<1>4. NodeType[cur] = "end" => cur \notin Approvals
  BY EngineConstants
<1> QED BY <1>1, <1>2, <1>3, <1>4 DEF Backed

LEMMA FaultsGrow ==
  ASSUME EngineTypes, WorkStep
  PROVE  faults \in Nat /\ faults' \in Nat /\ faults' >= faults
<1>1. faults \in Nat
  BY EngineConstants DEF EngineTypes, TypeBase
<1>2. faults' \in {faults, faults + 1}
  BY DEF WorkStep, Bystands, Lands, Begins, Stops, Succeeds, Loses, Undoes
<1> QED BY <1>1, <1>2

LEMMA TriesStep ==
  ASSUME EngineInv, StepView, WorkStep, FinishTries, FailTries
  PROVE  FinishTries' /\ FailTries'
<1>0. /\ faults \in Nat /\ faults' \in Nat /\ faults' >= faults
      /\ inst.status \in Terminal => inst'.status = inst.status
      /\ act \in Activity => act.tries \in Nat
  BY FaultsGrow, StatusesFinal, ActivityFields DEF EngineInv, StepView
<1>1. CASE act' = NoAct
  BY <1>1, Kinds DEF FinishTries, FailTries
<1>2. CASE act' = act
  BY <1>0, <1>2, ActivityFields, Kinds DEF FinishTries, FailTries, Terminal, EngineInv, EngineTypes, TypeBase
<1>3. CASE act'.tries = 0
  BY <1>0, <1>3 DEF FinishTries, FailTries
<1>4. CASE act'.kind \in {"invoke", "compensate"}
  BY <1>4 DEF FinishTries, FailTries
<1>5. CASE Loses /\ Retried(act)
  <2>1. CASE faults' = faults + 1
    BY <1>0, <1>5, <2>1 DEF Loses, Retried, FinishTries, FailTries, Terminal
  <2>2. CASE Refused(act) \/ CallsUpstream(act)
    <3>1. act.kind # "fail"
      BY <2>2 DEF Refused, CallsUpstream
    <3>2. act.kind = "finish" => inst.status \in {"cancelled", "failed"}
      BY <1>5, <2>2, FinishRefused DEF Loses, CallsUpstream
    <3> QED BY <1>0, <1>5, <3>1, <3>2 DEF Retried, FinishTries, FailTries, Terminal
  <2> QED BY <1>5, <2>1, <2>2 DEF Loses
<1>6. act' = NoAct \/ act' = act \/ act'.tries = 0 \/ act'.kind \in {"invoke", "compensate"} \/ (Loses /\ Retried(act))
  BY DEF WorkStep, Bystands, Lands, Begins, Stops, BeginCleanup, Succeeds, Returned, Loses, CleanupDropped, Undoes
<1> QED BY <1>1, <1>2, <1>3, <1>4, <1>5, <1>6

LEMMA FinishSurvivesStep ==
  ASSUME EngineInv, StepView, WorkStep, UndoneLate, FinishSurvives, FinishTries
  PROVE  FinishSurvives'
<1> SUFFICES ASSUME inst'.status \notin {"cancelled", "failed"}, faults' < MaxAttempts, FinishUnderWay'
             PROVE  (act'.kind = "finish" \/ pc' = "closed") /\ NoneUndone'
  BY DEF FinishSurvives
<1>0. /\ faults \in Nat /\ faults' \in Nat /\ faults' >= faults /\ MaxAttempts \in Nat
      /\ inst.status \in Terminal => inst'.status = inst.status
      /\ EngineTypes
  BY FaultsGrow, StatusesFinal, EngineConstants DEF EngineInv, StepView
<1>1. inst.status \notin {"cancelled", "failed"} /\ faults < MaxAttempts
  BY <1>0 DEF Terminal
<1>2. pc # "activity" => act = NoAct /\ act.kind = "none"
  BY <1>0, Kinds DEF EngineTypes, Waits
<1>3. CASE FinishUnderWay
  <2>1. (act.kind = "finish" \/ pc = "closed") /\ NoneUndone
    BY <1>1, <1>3 DEF FinishSurvives
  <2>2. pc # "undo" /\ NoneUndone'
    BY <1>0, <1>2, <2>1, NoneUndoneStep
  <2>3. CASE pc = "closed"
    BY <1>0, <2>2, <2>3, OneWay
  <2>4. CASE pc = "activity" /\ act.kind = "finish"
    <3>1. CASE Stops
      <4>1. ~cancelReq
        BY <1>1 DEF EngineInv, RowsInv, CommandsTrue
      <4>2. ~Refused(act)
        BY <1>1, <2>4, FinishRefused
      <4>3. act.tries + 1 >= MaxAttempts /\ faults' = faults + 1
        BY <2>4, <3>1, <4>1, <4>2 DEF Stops
      <4>4. act.tries <= faults /\ act.tries \in Nat
        BY <1>0, <1>1, <2>4, ActivityFields DEF FinishTries, EngineTypes, Waits
      <4> QED BY <1>0, <4>3, <4>4
    <3>2. CASE Succeeds
      BY <2>2, <2>4, <3>2 DEF Succeeds, Returned
    <3>3. CASE Loses
      BY <2>2, <2>4, <3>3 DEF Loses, Retried, CleanupDropped
    <3>4. CASE Bystands \/ \E a \in orphans : Lands(a)
      BY <2>2, <2>4, <3>4 DEF Bystands, Lands
    <3> QED BY <2>4, <3>1, <3>2, <3>3, <3>4 DEF WorkStep, Begins, Undoes
  <2> QED BY <1>2, <2>1, <2>3, <2>4
<1>4. CASE ~FinishUnderWay
  <2>1. inst'.status \notin {"completed", "rejected"}
    BY <1>0, <1>4 DEF FinishUnderWay, StepView, RowStep, RowsKept, RowStarted, RowCancelled, TaskDecided,
                      TaskOpened, RowFinished
  <2>2. \A a \in orphans' : a.kind # "finish"
    BY <1>4 DEF FinishUnderWay, StepView, OrphanStep
  <2>3. act'.kind = "finish"
    BY <2>1, <2>2 DEF FinishUnderWay, Attempts
  <2>4. act.kind # "finish"
    BY <1>4 DEF FinishUnderWay, Attempts
  <2>5. Begins
    BY <2>3, <2>4, Kinds
    DEF WorkStep, Bystands, Lands, Stops, BeginCleanup, Succeeds, Returned, Loses, Retried, CleanupDropped, Undoes
  <2>6. pc \in {"route", "await"} /\ ~Cleaning
    BY <1>2, <2>5 DEF Begins, Cleaning, InCleanup
  <2>7. NoneUndone'
    BY <1>0, <2>6, NoneUndoneStep DEF UndoneLate
  <2> QED BY <2>3, <2>7
<1> QED BY <1>3, <1>4

LEMMA ClosedStep ==
  ASSUME EngineInv, StepView, WorkStep, ClosedMeansTerminal, FailTries
  PROVE  ClosedMeansTerminal'
<1> SUFFICES ASSUME pc' = "closed", faults' < CleanupAttempts PROVE inst'.status \in Terminal
  BY DEF ClosedMeansTerminal
<1>0. /\ faults \in Nat /\ faults' \in Nat /\ faults' >= faults /\ CleanupAttempts \in Nat
      /\ inst.status \in Terminal => inst'.status = inst.status
      /\ EngineTypes
  BY FaultsGrow, StatusesFinal, EngineConstants DEF EngineInv, StepView
<1>1. CASE pc = "closed"
  BY <1>0, <1>1 DEF ClosedMeansTerminal
<1>2. CASE pc # "closed" /\ Succeeds
  <2>1. Returned(act) /\ act \in Activity /\ CallView(act)
    BY <1>2 DEF Succeeds
  <2>2. act.kind \in {"create", "invoke", "finish", "compensate", "fail"}
    BY <2>1, ActivityFields
  <2>3. act.kind \in {"finish", "fail"}
    BY <2>1, <2>2 DEF Returned
  <2>4. CASE act.kind = "finish"
    <3>1. act.status \in {"completed", "rejected"}
      BY <1>0, <2>4 DEF EngineTypes, AttemptsFit, Attempts, Fits
    <3> QED BY <2>1, <2>4, <3>1 DEF CallView, RowsKept, RowFinished, Terminal
  <2>5. CASE act.kind = "fail"
    <3>1. inst.status \in {"running"} \cup Terminal
      BY <1>0, <1>2 DEF Succeeds, EngineInv, RowsInv, CommandsTrue, EngineTypes, TypeBase, StoreTypeOK,
                        Instance, InstanceStatus
    <3> QED BY <1>0, <2>1, <2>5, <3>1 DEF CallView, RowsKept, RowFinished, Terminal
  <2> QED BY <2>3, <2>4, <2>5
<1>3. CASE pc # "closed" /\ Loses
  <2>1. CleanupDropped(act) /\ act.kind = "fail"
    BY <1>3 DEF Loses, Retried, CleanupDropped
  <2>2. faults' = faults + 1
    BY <1>3, <2>1 DEF Loses, Refused, CallsUpstream
  <2>3. act.tries + 1 >= CleanupAttempts /\ act.tries <= faults /\ act.tries \in Nat
    BY <1>3, <2>1, ActivityFields DEF CleanupDropped, AttemptLimit, InCleanup, FailTries, Loses
  <2> QED BY <1>0, <2>2, <2>3
<1>4. pc = "closed" \/ Succeeds \/ Loses
  BY DEF WorkStep, Bystands, Lands, Begins, Stops, BeginCleanup, Undoes
<1> QED BY <1>1, <1>2, <1>3, <1>4

\* The compensation of n reached its service or is still under way.
Undone(n) ==
  \/ \E j \in DOMAIN effects : effects[j] = <<"compensate", n>>
  \/ \E a \in Attempts : a.kind = "compensate" /\ a.node = n

\* undo is what the cleanup has left of completedServices; the rest of it is
\* compensated, unless there is no method or the attempts were used up.
LeftToUndo ==
  /\ Len(undo) <= Len(done)
  /\ \A i \in 1 .. Len(undo) : undo[i] = done[i]
  /\ \A i \in DOMAIN done : \/ i <= Len(undo)
                            \/ done[i] \notin Compensable \ abandoned
                            \/ Undone(done[i])

EndedWithoutSuccess == pc = "closed" /\ inst.status \notin {"completed", "rejected"}

UndoInv ==
  /\ Cleaning \/ EndedWithoutSuccess => LeftToUndo
  /\ act.kind = "fail" \/ EndedWithoutSuccess => undo = <<>>

LEMMA UndoneStays ==
  ASSUME EngineTypes, StepView, WorkStep
  PROVE  /\ abandoned \subseteq abandoned'
         /\ \A n : Undone(n) => Undone(n)' \/ n \in abandoned'
<1>0. \A n : (\E j \in DOMAIN effects : effects[j] = <<"compensate", n>>) => Undone(n)'
  BY EffectsView DEF Undone
<1>1. ASSUME NEW a \in Attempts, a.kind = "compensate",
             effects' = Append(effects, <<"compensate", a.node>>), NEW n, n = a.node
      PROVE  Undone(n)'
  <2>1. effects \in Seq({"invoke", "compensate"} \X ServiceNodes) /\ a.node \in ServiceNodes
    BY <1>1, Kinds DEF EngineTypes, TypeBase, AttemptsFit, Fits
  <2>2. \E j \in DOMAIN effects' : effects'[j] = <<"compensate", n>>
    BY <1>1, <2>1, EffectsGrow
  <2> QED BY <2>2 DEF Undone
<1>2. ASSUME NEW a \in Attempts, a.kind = "compensate", NEW n, n = a.node
      PROVE  Undone(n)' \/ n \in abandoned'
  <2>1. a \in orphans' \cup {act'} => Undone(n)'
    BY <1>2 DEF Undone, Attempts
  <2>2. CASE Bystands
    BY <1>2, <2>1, <2>2 DEF Bystands, Attempts
  <2>3. ASSUME NEW b \in orphans, Lands(b) PROVE Undone(n)'
    <3>1. CASE a = b
      <4>1. effects' = Append(effects, <<"compensate", a.node>>)
        BY <1>2, <2>3, <3>1 DEF Lands, CallView
      <4> QED BY <1>1, <1>2, <4>1
    <3>2. CASE a # b
      BY <1>2, <2>1, <2>3, <3>2 DEF Lands, Attempts
    <3> QED BY <3>1, <3>2
  <2>4. CASE Begins \/ Undoes
    BY <1>2, <2>1, <2>4, Kinds DEF Begins, Undoes, Attempts
  <2>5. CASE Stops
    BY <1>2, <2>1, <2>5 DEF Stops, Attempts
  <2>6. CASE Succeeds
    <3>1. CASE a \in orphans
      BY <2>1, <2>6, <3>1 DEF Succeeds
    <3>2. CASE a = act
      <4>1. effects' = Append(effects, <<"compensate", a.node>>)
        BY <1>2, <2>6, <3>2 DEF Succeeds, CallView
      <4> QED BY <1>1, <1>2, <4>1
    <3> QED BY <3>1, <3>2 DEF Attempts
  <2>7. CASE Loses
    <3>1. CASE a \in orphans
      BY <2>1, <2>7, <3>1 DEF Loses
    <3>2. CASE a = act /\ Retried(act)
      BY <1>2, <3>2 DEF Undone, Attempts, Retried
    <3>3. CASE a = act /\ CleanupDropped(act)
      BY <1>2, <3>3 DEF CleanupDropped
    <3> QED BY <2>7, <3>1, <3>2, <3>3 DEF Attempts, Loses
  <2> QED BY <2>2, <2>3, <2>4, <2>5, <2>6, <2>7 DEF WorkStep
<1>3. abandoned \subseteq abandoned'
  BY DEF WorkStep, Bystands, Lands, Begins, Stops, Succeeds, Loses, Retried, CleanupDropped, Undoes
<1> QED BY <1>0, <1>2, <1>3 DEF Undone

LEMMA UndoInvStep ==
  ASSUME EngineInv, StepView, WorkStep, UndoInv
  PROVE  UndoInv'
<1>0. /\ EngineTypes /\ abandoned \subseteq abandoned'
      /\ \A n : Undone(n) => Undone(n)' \/ n \in abandoned'
      /\ inst.status \in Terminal => inst'.status = inst.status
      /\ undo \in Seq(ServiceNodes) /\ done \in Seq(ServiceNodes)
  BY UndoneStays, StatusesFinal DEF EngineInv, StepView, EngineTypes, TypeBase
<1>1. EndedWithoutSuccess' /\ pc = "closed" => EndedWithoutSuccess
  BY <1>0 DEF EndedWithoutSuccess, Terminal
<1>2. pc # "activity" => act = NoAct /\ act.kind = "none"
  BY <1>0, Kinds DEF EngineTypes, Waits
<1>3. NoAct.kind = "none"
  BY Kinds
\* While done and undo stay, what was settled stays settled.
<1>4. ASSUME LeftToUndo, UNCHANGED <<done, undo>> PROVE LeftToUndo'
  <2>1. ASSUME NEW i \in DOMAIN done
        PROVE  i <= Len(undo') \/ done'[i] \notin Compensable \ abandoned' \/ Undone(done[i])'
    <3>1. PICK n : n = done[i]
      OBVIOUS
    <3>2. i <= Len(undo') \/ n \notin Compensable \ abandoned' \/ Undone(n)'
      BY <1>0, <1>4, <3>1 DEF LeftToUndo
    <3> QED BY <1>4, <3>1, <3>2 DEF Undone
  <2> QED BY <1>4, <2>1 DEF LeftToUndo
<1>5. CASE Stops
  <2>1. pc' = "undo" /\ act'.kind = "none" /\ undo' = done /\ done' = done
    BY <1>3, <1>5 DEF Stops, BeginCleanup
  <2>2. LeftToUndo'
    BY <1>0, <2>1 DEF LeftToUndo
  <2> QED BY <2>1, <2>2 DEF UndoInv, EndedWithoutSuccess
<1>6. CASE Undoes
  <2>1. Cleaning /\ LeftToUndo /\ UNCHANGED done /\ ~EndedWithoutSuccess'
    BY <1>6 DEF Undoes, Cleaning, UndoInv, EndedWithoutSuccess
  <2>2. CASE UNCHANGED undo
    <3>1. undo' = <<>> \/ act'.kind # "fail"
      BY <1>3, <1>6, <2>2 DEF Undoes
    <3> QED BY <1>4, <2>1, <2>2, <3>1 DEF UndoInv
  <2>3. CASE undo # <<>> /\ undo' = Front(undo) /\ act'.kind # "fail"
    <3>1. /\ Last(undo) = undo[Len(undo)] /\ Len(undo) \in DOMAIN undo
          /\ Len(undo') = Len(undo) - 1 /\ undo' \in Seq(ServiceNodes)
          /\ \A i \in DOMAIN undo' : i \in DOMAIN undo /\ undo'[i] = undo[i]
      BY <1>0, <2>3, SagaSequences
    <3>2. PICK n : n = Last(undo)
      OBVIOUS
    <3>3. n \notin Compensable \/ Undone(n)'
      <4>1. CASE act'.kind = "compensate" /\ act'.node = n
        BY <4>1 DEF Undone, Attempts
      <4> QED BY <1>6, <2>3, <3>2, <4>1 DEF Undoes
    <3>4. /\ Len(undo) \in Nat /\ Len(done) \in Nat /\ DOMAIN undo = 1 .. Len(undo)
          /\ DOMAIN undo' = 1 .. Len(undo') /\ DOMAIN done = 1 .. Len(done)
      BY <1>0, <3>1
    <3>5. Len(undo') <= Len(done') /\ \A i \in 1 .. Len(undo') : undo'[i] = done'[i]
      BY <2>1, <3>1, <3>4 DEF LeftToUndo
    <3>6. ASSUME NEW i \in DOMAIN done
          PROVE  i <= Len(undo') \/ done'[i] \notin Compensable \ abandoned' \/ Undone(done[i])'
      <4>1. PICK m : m = done[i]
        OBVIOUS
      <4>2. i \in Nat /\ (i <= Len(undo') \/ i = Len(undo) \/ ~(i <= Len(undo)))
        BY <3>1, <3>4
      <4>3. CASE i = Len(undo)
        <5>1. m = n
          BY <2>1, <3>1, <3>2, <3>4, <4>1, <4>3 DEF LeftToUndo
        <5> QED BY <2>1, <3>3, <4>1, <5>1 DEF Undone
      <4>4. CASE ~(i <= Len(undo))
        <5>1. m \notin Compensable \ abandoned' \/ Undone(m)'
          BY <1>0, <2>1, <4>1, <4>4 DEF LeftToUndo
        <5> QED BY <2>1, <4>1, <5>1 DEF Undone
      <4> QED BY <4>2, <4>3, <4>4
    <3>7. LeftToUndo'
      BY <2>1, <3>5, <3>6 DEF LeftToUndo
    <3> QED BY <2>1, <2>3, <3>7 DEF UndoInv
  <2> QED BY <1>2, <1>3, <1>6, <2>2, <2>3 DEF Undoes
<1>7. CASE Succeeds
  <2>1. act \in Activity /\ pc = "activity" /\ UNCHANGED undo /\ CallView(act)
    BY <1>7 DEF Succeeds
  <2>2. act.kind \in {"create", "invoke", "finish", "compensate", "fail"}
    BY <2>1, ActivityFields
  <2>3. CASE act.kind \in {"create", "invoke"}
    <3>1. pc' \in {"activity", "await", "route"} /\ act'.kind \in {"none", "invoke"}
      BY <1>3, <1>7, <2>3 DEF Succeeds, Returned
    <3> QED BY <3>1 DEF UndoInv, Cleaning, InCleanup, EndedWithoutSuccess
  <2>4. CASE act.kind = "finish"
    <3>1. act.status \in {"completed", "rejected"}
      BY <1>0, <2>4 DEF EngineTypes, AttemptsFit, Attempts, Fits
    <3>2. inst'.status \in {"completed", "rejected"}
      BY <2>1, <2>4, <3>1 DEF CallView, RowsKept, RowFinished
    <3>3. pc' = "closed" /\ act'.kind = "none"
      BY <1>3, <1>7, <2>4 DEF Succeeds, Returned
    <3> QED BY <3>2, <3>3 DEF UndoInv, Cleaning, InCleanup, EndedWithoutSuccess
  <2>5. CASE act.kind \in {"compensate", "fail"}
    <3>1. Cleaning /\ UNCHANGED <<done, undo>> /\ act'.kind = "none" /\ pc' \in {"undo", "closed"}
      BY <1>3, <1>7, <2>5 DEF Succeeds, Returned, Cleaning, InCleanup
    <3>2. LeftToUndo'
      BY <1>4, <3>1 DEF UndoInv
    <3>3. pc' = "closed" => undo' = <<>>
      BY <1>7, <2>5, <3>1 DEF Succeeds, Returned, UndoInv
    <3> QED BY <3>1, <3>2, <3>3 DEF UndoInv, EndedWithoutSuccess
  <2> QED BY <2>2, <2>3, <2>4, <2>5
<1>8. CASE Loses
  <2>1. UNCHANGED <<done, undo>> /\ pc = "activity" /\ act \in Activity
    BY <1>8 DEF Loses, Retried, CleanupDropped
  <2>2. CASE Retried(act)
    <3>1. pc' = "activity" /\ (Cleaning' => Cleaning) /\ act'.kind = act.kind
      BY <2>1, <2>2 DEF Retried, Cleaning, InCleanup
    <3> QED BY <1>4, <2>1, <3>1 DEF UndoInv, EndedWithoutSuccess
  <2>3. CASE CleanupDropped(act)
    <3>1. Cleaning /\ act'.kind = "none" /\ (pc' = "closed" => act.kind = "fail")
      BY <1>3, <2>3 DEF CleanupDropped, Cleaning, InCleanup
    <3> QED BY <1>4, <2>1, <3>1 DEF UndoInv, EndedWithoutSuccess
  <2> QED BY <1>8, <2>2, <2>3 DEF Loses
<1>9. CASE Bystands \/ (\E a \in orphans : Lands(a)) \/ Begins
  <2>1. UNCHANGED <<done, undo>>
    BY <1>9 DEF Bystands, Lands, Begins
  <2>2. Cleaning' => Cleaning
    BY <1>2, <1>3, <1>9 DEF Bystands, Lands, Begins, Cleaning, InCleanup
  <2>3. EndedWithoutSuccess' => EndedWithoutSuccess
    BY <1>1, <1>9 DEF Bystands, Lands, Begins, EndedWithoutSuccess
  <2>4. act'.kind = "fail" => act.kind = "fail"
    BY <1>3, <1>9 DEF Bystands, Lands, Begins
  <2> QED BY <1>4, <2>1, <2>2, <2>3, <2>4 DEF UndoInv
<1> QED BY <1>5, <1>6, <1>7, <1>8, <1>9 DEF WorkStep

SagaInv ==
  /\ InvokedBefore /\ CompensationFollowsInvocation
  /\ UndoneLate /\ FinishSurvives /\ FinishTries /\ FailTries
  /\ ClosedMeansTerminal /\ UndoInv

LEMMA SagaInvInit == Init => SagaInv
<1> SUFFICES ASSUME Init PROVE SagaInv
  OBVIOUS
<1>1. /\ pc = "none" /\ act = NoAct /\ act.kind = "none" /\ Attempts = {NoAct}
      /\ orphans = {} /\ effects = <<>> /\ done = <<>> /\ undo = <<>> /\ inst.status = "none"
  BY Kinds DEF Init, StoreInit, Attempts
<1>2. InvokedBefore /\ CompensationFollowsInvocation
  BY <1>1 DEF InvokedBefore, CompensationFollowsInvocation, Happened
<1>3. UndoneLate /\ FinishSurvives /\ FinishTries /\ FailTries
  BY <1>1 DEF UndoneLate, NoneUndone, FinishSurvives, FinishUnderWay, FinishTries, FailTries
<1>4. ClosedMeansTerminal /\ UndoInv
  BY <1>1 DEF ClosedMeansTerminal, UndoInv, Cleaning, InCleanup, EndedWithoutSuccess
<1> QED BY <1>2, <1>3, <1>4 DEF SagaInv

LEMMA SagaInvariant == Spec => [](EngineInv /\ SagaInv)
<1>1. Init => EngineInv /\ SagaInv
  BY EngineTypesInit, RowsInvInit, PathInvInit, SagaInvInit DEF EngineInv
<1>2. EngineInv /\ SagaInv /\ [Next]_vars => EngineInv' /\ SagaInv'
  <2> SUFFICES ASSUME EngineInv, SagaInv, [Next]_vars PROVE EngineInv' /\ SagaInv'
    OBVIOUS
  <2>1. EngineTypes /\ StepView /\ WorkStep
    BY NextView, NextWork DEF EngineInv
  <2>2. EngineInv'
    BY <2>1, EngineTypesStep, RowsInvStep, PathInvStep DEF EngineInv
  <2>3. InvokedBefore' /\ CompensationFollowsInvocation'
    BY <2>1, InvokedStep, FollowsStep DEF SagaInv
  <2>4. UndoneLate' /\ FinishSurvives' /\ FinishTries' /\ FailTries'
    BY <2>1, UndoneLateStep, FinishSurvivesStep, TriesStep DEF SagaInv
  <2>5. ClosedMeansTerminal' /\ UndoInv'
    BY <2>1, ClosedStep, UndoInvStep DEF SagaInv
  <2> QED BY <2>2, <2>3, <2>4, <2>5 DEF SagaInv
<1> QED BY <1>1, <1>2, PTL DEF Spec

\* Compensation only undoes a service call that reached the service before
\* (workflow.go:98-103 works off completedServices), also when attempts of
\* either kind are retried, cancelled or land late.
THEOREM CompensationIsBacked == Spec => []CompensationFollowsInvocation
BY SagaInvariant, PTL DEF SagaInv

\* A completed or rejected instance keeps the effects of its services as long
\* as fewer results are lost than the finish activity has attempts: the retry
\* of a finish that was written succeeds (repository.go:450).
THEOREM SuccessIsKept == Spec => []SuccessNotUndone
<1>1. SagaInv => SuccessNotUndone
  BY DEF SagaInv, FinishSurvives, FinishUnderWay, NoneUndone, SuccessNotUndone, Happened
<1> QED BY <1>1, SagaInvariant, PTL

\* Every way out of Execute ends with a terminal write (workflow.go:104), which
\* takes as many faults as it has attempts to prevent.
THEOREM ClosedIsTerminal == Spec => []ClosedMeansTerminal
BY SagaInvariant, PTL DEF SagaInv

\* Once the workflow is closed without success, the compensation of every
\* completed service that has a method reached the service or is still under
\* way, unless its attempts were used up.
NothingLeftToUndo ==
  EndedWithoutSuccess =>
    \A i \in Owed :
      \/ \E j \in DOMAIN effects : effects[j] = <<"compensate", done[i]>>
      \/ \E a \in orphans : a.kind = "compensate" /\ a.node = done[i]

\* The cleanup forgets no completed service, however its compensations are
\* retried, lost or answered with errors.
LEMMA CleanupForgetsNothing == EngineInv /\ SagaInv => NothingLeftToUndo
<1> SUFFICES ASSUME EngineInv, SagaInv, EndedWithoutSuccess, NEW i \in Owed
             PROVE  \/ \E j \in DOMAIN effects : effects[j] = <<"compensate", done[i]>>
                    \/ \E a \in orphans : a.kind = "compensate" /\ a.node = done[i]
  BY DEF NothingLeftToUndo
<1>1. LeftToUndo /\ undo = <<>> /\ i \in DOMAIN done /\ done[i] \in Compensable \ abandoned
  BY DEF SagaInv, UndoInv, Owed
<1>2. ~(i <= Len(undo))
  BY <1>1 DEF EngineInv, EngineTypes, TypeBase
<1>3. Undone(done[i])
  BY <1>1, <1>2 DEF LeftToUndo
<1>4. act.kind = "none"
  BY Kinds DEF EndedWithoutSuccess, EngineInv, EngineTypes, Waits
<1> QED BY <1>3, <1>4 DEF Undone, Attempts

(* -- The bus -------------------------------------------------------------------------- *)

\* Nothing happens to the tasks before the workflow is started.
Unstarted == pc = "none" => orphans = {} /\ \A n \in Approvals : tasks[n].status = "none"

\* An event that is not acknowledged was delivered in vain at most once for
\* every fault, unless it is a decision that comes after the end.
Delivered(i) ==
  \/ tries[i] <= faults
  \/ i \in 1 .. Len(outbox) /\ outbox[i].type = "taskCompleted" /\ pc = "closed"

Delivering == \A i \in (1 .. MaxEvents) \ acked : Delivered(i)

LEMMA UnstartedStep ==
  ASSUME EngineTypes, StepView, Unstarted
  PROVE  Unstarted'
<1> SUFFICES ASSUME pc' = "none"
             PROVE  orphans' = {} /\ \A n \in Approvals : tasks'[n].status = "none"
  BY DEF Unstarted
<1>1. pc = "none" /\ orphans = {} /\ act = NoAct /\ \A n \in Approvals : tasks[n].status = "none"
  BY DEF Unstarted, StepView, CommandStep, EngineTypes, Waits
<1>2. Attempts = {NoAct} /\ NoAct.kind = "none"
  BY <1>1, Kinds DEF Attempts
<1>3. orphans' = {}
  BY <1>2 DEF StepView, OrphanStep
<1>4. RowsKept \/ RowStarted \/ RowCancelled
  BY <1>1, <1>2 DEF StepView, RowStep, TaskDecided, TaskMoves, Open
<1> QED BY <1>1, <1>3, <1>4 DEF RowsKept, RowStarted, RowCancelled, TasksKept

\* The outbox is only appended to.
LEMMA OutboxGrows ==
  ASSUME EngineTypes, RowStep, NEW i \in 1 .. Len(outbox)
  PROVE  i \in 1 .. Len(outbox)' /\ outbox'[i] = outbox[i]
<1>1. outbox \in Seq(Event)
  BY DEF EngineTypes, TypeBase, StoreTypeOK
<1>2. ASSUME NEW e, outbox' = Append(outbox, e)
      PROVE  i \in 1 .. Len(outbox)' /\ outbox'[i] = outbox[i]
  BY <1>1, <1>2
<1> QED BY <1>2, NewEventTrue

\* Only a delivery touches the consumer's state.
LEMMA BusKept ==
  ASSUME [Next]_vars
  PROVE  UNCHANGED <<tries, acked>> \/ \E i \in 1 .. MaxEvents : Delivery(i)
<1>1. CASE StartInstance \/ UserCancels \/ \E n \in Approvals, d \in Decisions : UserDecides(n, d)
  BY <1>1 DEF StartInstance, UserCancels, UserDecides, ApiOnly, busVars
<1>2. CASE SelectNext \/ SelectNextFails \/ TimerElapses \/ AwaitDecision \/ ApprovalTimeout \/ CleanupStep
  BY <1>2 DEF SelectNext, SelectNextFails, TimerElapses, AwaitDecision, ApprovalTimeout, CleanupStep, busVars
<1>3. CASE AttemptSucceeds \/ AttemptErrors \/ AttemptTimesOut \/ ActivityCancelled
  BY <1>3 DEF AttemptSucceeds, AttemptErrors, AttemptTimesOut, ActivityCancelled, AttemptUnchanged, busVars
<1>4. CASE \E a \in orphans : OrphanLands(a)
  BY <1>4 DEF OrphanLands, busVars
<1>5. CASE UNCHANGED vars
  BY <1>5 DEF vars, busVars
<1> QED BY <1>1, <1>2, <1>3, <1>4, <1>5 DEF Next, Delivery

\* A delivery is acknowledged, costs a fault, or fails because the decision it
\* carries comes before the start or after the end.
LEMMA DeliveryOutcome ==
  ASSUME NEW i, Delivery(i)
  PROVE  \/ i \in acked'
         \/ faults' = faults + 1
         \/ outbox[i].type = "taskCompleted" /\ pc \in {"none", "closed"}
BY DEF Delivery, Deliver, DeliverUnacked, DeliverFails, Fault, HandlerFails, WorkflowOpen

LEMMA DeliveringStep ==
  ASSUME EngineTypes, RowsInv, StepView, WorkStep, Unstarted, Delivering, [Next]_vars
  PROVE  Delivering'
<1> SUFFICES ASSUME NEW i \in 1 .. MaxEvents, i \notin acked'
             PROVE  Delivered(i)'
  BY DEF Delivering
<1>1. faults \in Nat /\ faults' \in Nat /\ faults' >= faults
  BY FaultsGrow
<1>2. pc = "closed" => pc' = "closed"
  BY OneWay
<1>3. i \in 1 .. Len(outbox) => i \in 1 .. Len(outbox)' /\ outbox'[i] = outbox[i]
  BY OutboxGrows DEF StepView
<1>4. tries[i] \in Nat
  <2>1. tries \in [1 .. MaxEvents -> 0 .. MaxDeliver]
    BY DEF EngineTypes, TypeBase
  <2>2. tries[i] \in 0 .. MaxDeliver
    BY <2>1
  <2> QED BY <2>2
<1>5. CASE UNCHANGED <<tries, acked>>
  BY <1>1, <1>2, <1>3, <1>4, <1>5 DEF Delivering, Delivered
<1>6. ASSUME NEW j \in 1 .. MaxEvents, Delivery(j) PROVE Delivered(i)'
  <2>1. /\ j \in 1 .. Len(outbox) /\ j \notin acked
        /\ tries' = [tries EXCEPT ![j] = tries[j] + 1]
        /\ acked' = acked \/ acked' = acked \cup {j}
    BY <1>6, DeliveryView
  <2>2. tries'[i] = IF i = j THEN tries[i] + 1 ELSE tries[i]
    BY <2>1 DEF EngineTypes, TypeBase
  <2>3. Delivered(i)
    BY <2>1 DEF Delivering
  <2>4. ASSUME i # j \/ (outbox[i].type = "taskCompleted" /\ pc = "closed") PROVE Delivered(i)'
    BY <1>1, <1>2, <1>3, <1>4, <2>1, <2>2, <2>3, <2>4 DEF Delivered
  <2>5. ASSUME i = j, ~(outbox[i].type = "taskCompleted" /\ pc = "closed") PROVE tries'[i] <= faults'
    <3>1. tries[i] <= faults
      BY <2>3, <2>5 DEF Delivered
    <3>2. ~(outbox[i].type = "taskCompleted" /\ pc = "none")
      <4> SUFFICES ASSUME outbox[i].type = "taskCompleted", pc = "none" PROVE FALSE
        OBVIOUS
      <4>1. i \in DOMAIN outbox
        BY <2>1, <2>5 DEF EngineTypes, TypeBase, StoreTypeOK
      <4>2. /\ outbox[i].node \in Approvals /\ outbox[i].detail \in Decisions
            /\ tasks[outbox[i].node].status = StatusOf(outbox[i].detail)
        BY <4>1 DEF RowsInv, EventsTrue, EventTrue
      <4> QED BY <4>2, Statuses DEF Unstarted, Decided
    <3>3. faults' = faults + 1
      BY <1>6, <2>5, <3>2, DeliveryOutcome
    <3> QED BY <1>1, <1>4, <2>2, <2>5, <3>1, <3>3
  <2>6. ASSUME tries'[i] <= faults' PROVE Delivered(i)'
    BY <2>6 DEF Delivered
  <2> QED BY <2>4, <2>5, <2>6
<1> QED BY <1>5, <1>6, BusKept

\* What an event is about: an instance is started once and ended once, a task
\* is created once and completed once.
Slot(e) ==
  IF e.type \in {"cancel", "statusChanged"} THEN <<"end", None>> ELSE <<e.type, e.node>>

Slots == {<<"start", None>>, <<"end", None>>} \cup ({"taskCreated", "taskCompleted"} \X Approvals)

AnnouncedOnce ==
  \A i, j \in DOMAIN outbox : Slot(outbox[i]) = Slot(outbox[j]) => i = j

LEMMA SlotOf ==
  ASSUME NEW e \in Event, EventTrue(e)
  PROVE  /\ Slot(e) \in Slots
         /\ Slot(e)[1] = "start" => inst.status # "none"
         /\ Slot(e)[1] = "end" => inst.status \in Terminal
         /\ Slot(e)[1] = "taskCreated" => TaskExists(Slot(e)[2])
         /\ Slot(e)[1] = "taskCompleted" => tasks[Slot(e)[2]].status \in Decided
<1>1. e.type \in {"start", "cancel", "taskCreated", "taskCompleted", "statusChanged"}
  BY DEF Event, EventTypes
<1>2. CASE e.type \in {"cancel", "statusChanged"}
  <2>1. Slot(e) = <<"end", None>> /\ inst.status \in Terminal
    BY <1>2 DEF Slot, EventTrue, Terminal
  <2> QED BY <2>1 DEF Slots
<1>3. CASE e.type = "start"
  <2>1. Slot(e) = <<"start", None>> /\ inst.status # "none"
    BY <1>3 DEF Slot, EventTrue
  <2> QED BY <2>1 DEF Slots
<1>4. CASE e.type = "taskCreated"
  <2>1. Slot(e) = <<"taskCreated", e.node>> /\ e.node \in Approvals /\ TaskExists(e.node)
    BY <1>4 DEF Slot, EventTrue
  <2> QED BY <2>1 DEF Slots
<1>5. CASE e.type = "taskCompleted"
  <2>1. /\ Slot(e) = <<"taskCompleted", e.node>> /\ e.node \in Approvals /\ e.detail \in Decisions
        /\ tasks[e.node].status = StatusOf(e.detail)
    BY <1>5 DEF Slot, EventTrue
  <2>2. tasks[e.node].status \in Decided
    BY <2>1, Statuses
  <2> QED BY <2>1, <2>2 DEF Slots
<1> QED BY <1>1, <1>2, <1>3, <1>4, <1>5

\* The slot of the event a step adds is free.
LEMMA NewSlotFree ==
  ASSUME EngineTypes, RowsInv, RowStep, outbox' # outbox
  PROVE  \E e : outbox' = Append(outbox, e) /\ \A i \in DOMAIN outbox : Slot(outbox[i]) # Slot(e)
<1> DEFINE E(type, node, detail) == [type |-> type, node |-> node, detail |-> detail]
<1>1. \A t, n, d : E(t, n, d).type = t /\ E(t, n, d).node = n
  OBVIOUS
<1>2. \A t, n, d : Announced(t, n, d) <=> outbox' = Append(outbox, E(t, n, d))
  BY DEF Announced
<1> HIDE DEF E
<1>3. ASSUME NEW i \in DOMAIN outbox
      PROVE  /\ Slot(outbox[i])[1] = "start" => inst.status # "none"
             /\ Slot(outbox[i])[1] = "end" => inst.status \in Terminal
             /\ Slot(outbox[i])[1] = "taskCreated" => TaskExists(Slot(outbox[i])[2])
             /\ Slot(outbox[i])[1] = "taskCompleted" => tasks[Slot(outbox[i])[2]].status \in Decided
  <2>1. outbox[i] \in Event
    BY DEF EngineTypes, TypeBase, StoreTypeOK
  <2>2. EventTrue(outbox[i])
    BY DEF RowsInv, EventsTrue
  <2> QED BY <2>1, <2>2, SlotOf
<1>4. CASE RowStarted
  <2>1. Slot(E("start", None, "none")) = <<"start", None>> /\ inst.status = "none"
    BY <1>1, <1>4 DEF Slot, RowStarted
  <2>2. \A i \in DOMAIN outbox : Slot(outbox[i]) # Slot(E("start", None, "none"))
    BY <1>3, <2>1
  <2> QED BY <1>2, <1>4, <2>2 DEF RowStarted
<1>5. CASE RowCancelled
  <2>1. Slot(E("cancel", None, "none")) = <<"end", None>> /\ inst.status \notin Terminal
    BY <1>1, <1>5, Statuses DEF Slot, RowCancelled
  <2>2. \A i \in DOMAIN outbox : Slot(outbox[i]) # Slot(E("cancel", None, "none"))
    BY <1>3, <2>1
  <2> QED BY <1>2, <1>5, <2>2 DEF RowCancelled
<1>6. ASSUME NEW n \in Approvals, NEW d \in Decisions, TaskDecided(n, d)
      PROVE  \E e : outbox' = Append(outbox, e) /\ \A i \in DOMAIN outbox : Slot(outbox[i]) # Slot(e)
  <2>1. Slot(E("taskCompleted", n, d)) = <<"taskCompleted", n>> /\ tasks[n].status \notin Decided
    BY <1>1, <1>6 DEF Slot, TaskDecided, TaskMoves, Open, Decided
  <2>2. \A i \in DOMAIN outbox : Slot(outbox[i]) # Slot(E("taskCompleted", n, d))
    BY <1>3, <2>1
  <2> QED BY <1>2, <1>6, <2>2 DEF TaskDecided
<1>7. ASSUME NEW n, TaskOpened(n)
      PROVE  \E e : outbox' = Append(outbox, e) /\ \A i \in DOMAIN outbox : Slot(outbox[i]) # Slot(e)
  <2>1. Slot(E("taskCreated", n, "none")) = <<"taskCreated", n>> /\ ~TaskExists(n)
    BY <1>1, <1>7 DEF Slot, TaskOpened, TaskMoves, TaskExists
  <2>2. \A i \in DOMAIN outbox : Slot(outbox[i]) # Slot(E("taskCreated", n, "none"))
    BY <1>3, <2>1
  <2> QED BY <1>2, <1>7, <2>2 DEF TaskOpened
<1>8. ASSUME NEW s, RowFinished(s)
      PROVE  \E e : outbox' = Append(outbox, e) /\ \A i \in DOMAIN outbox : Slot(outbox[i]) # Slot(e)
  <2>1. Slot(E("statusChanged", None, s)) = <<"end", None>> /\ inst.status \notin Terminal
    BY <1>1, <1>8, Statuses DEF Slot, RowFinished
  <2>2. \A i \in DOMAIN outbox : Slot(outbox[i]) # Slot(E("statusChanged", None, s))
    BY <1>3, <2>1
  <2> QED BY <1>2, <1>8, <2>2 DEF RowFinished
<1> QED BY <1>4, <1>5, <1>6, <1>7, <1>8 DEF RowStep, RowsKept

LEMMA AnnouncedOnceStep ==
  ASSUME EngineTypes, RowsInv, RowStep, AnnouncedOnce
  PROVE  AnnouncedOnce'
<1>1. CASE outbox' = outbox
  BY <1>1 DEF AnnouncedOnce, Slot
<1>2. ASSUME NEW e, outbox' = Append(outbox, e), \A i \in DOMAIN outbox : Slot(outbox[i]) # Slot(e)
      PROVE  AnnouncedOnce'
  <2>1. outbox \in Seq(Event)
    BY DEF EngineTypes, TypeBase, StoreTypeOK
  <2>2. \A i \in DOMAIN outbox' : \/ i \in DOMAIN outbox /\ outbox'[i] = outbox[i]
                                  \/ i = Len(outbox) + 1 /\ outbox'[i] = e
    BY <1>2, <2>1
  <2>3. \A i, j \in DOMAIN outbox' : Slot(outbox'[i]) = Slot(outbox'[j]) => i = j
    BY <1>2, <2>2 DEF AnnouncedOnce
  <2> QED BY <2>3 DEF AnnouncedOnce, Slot
<1> QED BY <1>1, <1>2, NewSlotFree

LEMMA SlotsCounted ==
  IsFiniteSet(Slots) /\ Cardinality(Slots) = MaxEvents /\ MaxEvents \in Nat
<1> DEFINE P == {<<"start", None>>, <<"end", None>>}
           T == {"taskCreated", "taskCompleted"}
<1>1. IsFiniteSet(Approvals) /\ Cardinality(Approvals) \in Nat
  BY AcyclicGraph, StoreConstants, FS_Subset, FS_CardinalityType
<1>0. ASSUME NEW x, NEW y, x # y PROVE IsFiniteSet({x, y}) /\ Cardinality({x, y}) = 2
  <2>1. IsFiniteSet({x}) /\ Cardinality({x}) = 1 /\ y \notin {x} /\ {x, y} = {x} \cup {y}
    BY <1>0, FS_Singleton
  <2>2. IsFiniteSet({x} \cup {y}) /\ Cardinality({x} \cup {y}) = Cardinality({x}) + 1
    BY <2>1, FS_AddElement
  <2> QED BY <2>1, <2>2
<1>2. IsFiniteSet(P) /\ Cardinality(P) = 2
  BY <1>0
<1>3. IsFiniteSet(T) /\ Cardinality(T) = 2
  BY <1>0
<1>4. IsFiniteSet(T \X Approvals) /\ Cardinality(T \X Approvals) = 2 * Cardinality(Approvals)
  BY <1>1, <1>3, FS_Product
<1>5. P \cap (T \X Approvals) = {}
  OBVIOUS
<1>6. IsFiniteSet(P \cup (T \X Approvals))
  BY <1>2, <1>4, FS_Union
<1>7. Cardinality(P \cup (T \X Approvals)) = 2 + 2 * Cardinality(Approvals) - 0
  BY <1>2, <1>4, <1>5, FS_Union, FS_EmptySet
<1> QED BY <1>1, <1>6, <1>7 DEF Slots, MaxEvents

\* Two events of the instance and two of every task.
LEMMA OutboxBounded ==
  ASSUME EngineTypes, RowsInv, AnnouncedOnce
  PROVE  Len(outbox) <= MaxEvents
<1> DEFINE f == [i \in 1 .. Len(outbox) |-> Slot(outbox[i])]
<1>1. outbox \in Seq(Event) /\ Len(outbox) \in Nat /\ DOMAIN outbox = 1 .. Len(outbox)
  BY DEF EngineTypes, TypeBase, StoreTypeOK
<1>2. ASSUME NEW i \in 1 .. Len(outbox) PROVE Slot(outbox[i]) \in Slots
  <2>1. outbox[i] \in Event /\ EventTrue(outbox[i])
    BY <1>1 DEF RowsInv, EventsTrue
  <2> QED BY <2>1, SlotOf
<1>3. f \in Injection(1 .. Len(outbox), Slots)
  BY <1>1, <1>2 DEF AnnouncedOnce, Injection, IsInjective
<1>4. Cardinality(1 .. Len(outbox)) <= MaxEvents
  BY <1>3, SlotsCounted, FS_Injection
<1>5. Cardinality(1 .. Len(outbox)) = Len(outbox)
  BY <1>1, FS_Interval
<1> QED BY <1>4, <1>5

\* A numbering of the nodes along the edges.  The loop of Execute climbs it, so
\* the number of steps stays below the number of the node.
Rank == CHOOSE rank \in [Nodes -> 1 .. Cardinality(Nodes)] :
          \A e \in Edges : rank[e.from] < rank[e.to]

Climbs == steps < Rank[cur]

LEMMA RankFacts ==
  /\ Cardinality(Nodes) \in Nat
  /\ \A n \in Nodes : Rank[n] \in Nat /\ Rank[n] >= 1 /\ Rank[n] <= Cardinality(Nodes)
  /\ \A e \in Edges : Rank[e.from] < Rank[e.to]
<1>1. Cardinality(Nodes) \in Nat
  BY AcyclicGraph, FS_CardinalityType
<1>2. /\ Rank \in [Nodes -> 1 .. Cardinality(Nodes)]
      /\ \A e \in Edges : Rank[e.from] < Rank[e.to]
  BY AcyclicGraph DEF Rank
<1> QED BY <1>1, <1>2

\* Only the choice of the next node counts a step.
LEMMA StepsKept ==
  ASSUME EngineTypes, [Next]_vars
  PROVE  UNCHANGED <<cur, steps>> \/ (cur' \in Targets(cur) /\ steps' = steps + 1)
<1>1. CASE StartInstance \/ UserCancels \/ \E n \in Approvals, d \in Decisions : UserDecides(n, d)
  BY <1>1 DEF StartInstance, UserCancels, UserDecides, ApiOnly, wfVars
<1>2. CASE SelectNext
  BY <1>2 DEF SelectNext, Visit
<1>3. CASE SelectNextFails \/ TimerElapses \/ AwaitDecision \/ ApprovalTimeout \/ CleanupStep
  BY <1>3 DEF SelectNextFails, TimerElapses, AwaitDecision, ApprovalTimeout, CleanupStep
<1>4. CASE AttemptSucceeds \/ AttemptErrors \/ AttemptTimesOut \/ ActivityCancelled
  BY <1>4 DEF AttemptSucceeds, AttemptErrors, AttemptTimesOut, ActivityCancelled, AttemptUnchanged
<1>5. CASE \E a \in orphans : OrphanLands(a)
  BY <1>5 DEF OrphanLands, wfVars
<1>6. CASE \E i \in 1 .. MaxEvents : Delivery(i)
  BY <1>6, DeliveryView
<1>7. CASE UNCHANGED vars
  BY <1>7 DEF vars, wfVars
<1> QED BY <1>1, <1>2, <1>3, <1>4, <1>5, <1>6, <1>7 DEF Next, Delivery

LEMMA ClimbsStep ==
  ASSUME EngineTypes, Climbs, [Next]_vars
  PROVE  Climbs'
<1>0. cur \in Nodes /\ steps \in Nat
  BY DEF EngineTypes, TypeBase
<1>1. CASE UNCHANGED <<cur, steps>>
  BY <1>1 DEF Climbs
<1>2. CASE cur' \in Targets(cur) /\ steps' = steps + 1
  <2>1. PICK e \in Edges : e.from = cur /\ e.to = cur'
    BY <1>0, <1>2, GraphFacts
  <2>2. cur' \in Nodes
    BY <1>0, <1>2, GraphFacts
  <2>3. Rank[cur] < Rank[cur']
    BY <2>1, RankFacts
  <2>4. steps' < Rank[cur']
    BY <1>0, <1>2, <2>2, <2>3, RankFacts DEF Climbs
  <2> QED BY <2>4 DEF Climbs
<1> QED BY <1>1, <1>2, StepsKept

BusInv == Unstarted /\ Delivering /\ AnnouncedOnce /\ Climbs

LEMMA BusInvariant == Spec => [](EngineInv /\ BusInv)
<1>1. Init => EngineInv /\ BusInv
  <2> SUFFICES ASSUME Init PROVE EngineInv /\ BusInv
    OBVIOUS
  <2>1. EngineInv
    BY EngineTypesInit, RowsInvInit, PathInvInit DEF EngineInv
  <2>2. Unstarted /\ Delivering /\ AnnouncedOnce
    BY DEF Init, StoreInit, Unstarted, Delivering, Delivered, AnnouncedOnce
  <2>3. Climbs
    BY RankFacts, GraphFacts DEF Init, Climbs
  <2> QED BY <2>1, <2>2, <2>3 DEF BusInv
<1>2. EngineInv /\ BusInv /\ [Next]_vars => EngineInv' /\ BusInv'
  <2> SUFFICES ASSUME EngineInv, BusInv, [Next]_vars PROVE EngineInv' /\ BusInv'
    OBVIOUS
  <2>1. EngineTypes /\ RowsInv /\ StepView /\ WorkStep
    BY NextView, NextWork DEF EngineInv
  <2>2. EngineInv'
    BY <2>1, EngineTypesStep, RowsInvStep, PathInvStep DEF EngineInv
  <2>3. Unstarted' /\ Delivering' /\ AnnouncedOnce'
    BY <2>1, UnstartedStep, DeliveringStep, AnnouncedOnceStep DEF BusInv, StepView
  <2>4. Climbs'
    BY <2>1, ClimbsStep DEF BusInv
  <2> QED BY <2>2, <2>3, <2>4 DEF BusInv
<1> QED BY <1>1, <1>2, PTL DEF Spec

\* The outbox announces the start and the end of the instance and the creation
\* and completion of every task at most once, however often an activity that
\* writes one of them is retried (repository.go:376, 450).
THEOREM EventsAreAnnouncedOnce == Spec => []AnnouncedOnce
BY BusInvariant, PTL DEF BusInv

\* Execute reaches an end before it has chosen as many nodes as there are, so
\* its "workflow exceeded graph step limit" (workflow.go:169) is never met on a
\* graph that ValidateDefinition accepted.
StepLimitUnreached == steps < Cardinality(Nodes)

\* The loop of Execute (workflow.go:107) is bounded by the graph, not by its guard.
THEOREM LoopIsBounded == Spec => []StepLimitUnreached
<1>1. EngineInv /\ BusInv => StepLimitUnreached
  <2> SUFFICES ASSUME EngineInv, BusInv PROVE StepLimitUnreached
    OBVIOUS
  <2>1. cur \in Nodes /\ steps \in Nat
    BY DEF EngineInv, EngineTypes, TypeBase
  <2> QED BY <2>1, RankFacts DEF BusInv, Climbs, StepLimitUnreached
<1> QED BY <1>1, BusInvariant, PTL

\* The state of the runtime keeps its type; above all the outbox never holds
\* more than two events of the instance and two of every task, and Execute
\* never chooses more nodes than the graph has (workflow.go:107).
THEOREM TypeCorrect == Spec => []TypeOK
<1>1. EngineInv /\ BusInv => TypeOK
  <2> SUFFICES ASSUME EngineInv, BusInv PROVE TypeOK
    OBVIOUS
  <2>1. EngineTypes /\ TypeBase
    BY DEF EngineInv, EngineTypes
  <2>2. Len(outbox) <= MaxEvents
    BY OutboxBounded DEF EngineInv, BusInv
  <2>3. steps \in 0 .. Cardinality(Nodes)
    BY <2>1, RankFacts DEF BusInv, Climbs, TypeBase
  <2> QED BY <2>1, <2>2, <2>3 DEF TypeBase, TypeOK
<1> QED BY <1>1, BusInvariant, PTL

\* With fewer faults than deliveries no start or cancel command is ever
\* dead-lettered, and a decision only when the workflow is closed by now
\* (commands.go:114 returns every signal error).
THEOREM DeadLettersAreLate == Spec => []DeadLetterOnlyLate
<1>1. EngineInv /\ BusInv => DeadLetterOnlyLate
  <2> SUFFICES ASSUME EngineInv, BusInv, NEW i \in 1 .. Len(outbox),
                      tries[i] = MaxDeliver, i \notin acked, faults < MaxDeliver
               PROVE  outbox[i].type = "taskCompleted" /\ pc = "closed"
    BY DEF DeadLetterOnlyLate
  <2>1. Len(outbox) <= MaxEvents /\ MaxEvents \in Nat
    BY OutboxBounded, SlotsCounted DEF EngineInv, BusInv
  <2>2. Len(outbox) \in Nat
    BY DEF EngineInv, EngineTypes, TypeBase, StoreTypeOK
  <2>3. i \in (1 .. MaxEvents) \ acked
    BY <2>1, <2>2
  <2>4. Delivered(i)
    BY <2>3 DEF BusInv, Delivering
  <2>5. faults \in Nat /\ MaxDeliver \in Nat
    BY EngineConstants DEF EngineInv, EngineTypes, TypeBase
  <2>6. ~(tries[i] <= faults)
    BY <2>5
  <2> QED BY <2>4, <2>6 DEF Delivered
<1> QED BY <1>1, BusInvariant, PTL

(* -- The order of the cleanup ------------------------------------------------------------ *)

\* What becomes of completedServices and of the invocation under way.
LEMMA DoneMoves ==
  ASSUME EngineTypes, [Next]_vars
  PROVE  \/ done' = done /\ cur' \in Targets(cur)
         \/ UNCHANGED <<done, cur>> /\ (act'.kind = "invoke" => act.kind = "invoke")
         \/ /\ act.kind = "invoke" /\ cur \in ServiceNodes /\ UNCHANGED cur
            /\ done' = Append(done, cur) /\ act'.kind # "invoke"
<1>0. NoAct.kind = "none" /\ (pc = "activity" => act \in Activity)
  BY Kinds DEF EngineTypes, Waits
<1>1. CASE SelectNext
  <2>1. \E n \in Targets(cur) : Visit(n)
    BY <1>1 DEF SelectNext
  <2>2. cur' \in Targets(cur)
    BY <2>1 DEF Visit
  <2>3. done' = done
    BY <2>1 DEF Visit, BeginCleanup
  <2> QED BY <2>2, <2>3
<1>2. CASE SelectNextFails \/ TimerElapses
  BY <1>0, <1>2 DEF SelectNextFails, TimerElapses, BeginCleanup
<1>3. CASE AwaitDecision
  BY <1>0, <1>3 DEF AwaitDecision, BeginCleanup, Schedule
<1>4. CASE AttemptSucceeds
  <2>1. UNCHANGED cur /\ act \in Activity
    BY <1>0, <1>4 DEF AttemptSucceeds, AttemptUnchanged
  <2>2. CASE act.kind = "invoke" /\ act.phase = "begun"
    BY <1>4, <2>1, <2>2 DEF AttemptSucceeds
  <2>3. CASE Returned(act) /\ act.kind = "invoke"
    <3>1. act.node = cur /\ cur \in ServiceNodes
      BY <2>3 DEF EngineTypes, Waits, AttemptsFit, Attempts, Fits
    <3> QED BY <1>0, <2>1, <2>3, <3>1 DEF Returned
  <2>4. CASE Returned(act) /\ act.kind # "invoke"
    BY <1>0, <2>1, <2>4 DEF Returned
  <2> QED BY <1>4, <2>2, <2>3, <2>4 DEF AttemptSucceeds
<1>5. CASE AttemptErrors \/ AttemptTimesOut
  <2>1. UNCHANGED cur /\ RetryOrGiveUp(act) /\ act \in Activity
    BY <1>0, <1>5 DEF AttemptErrors, AttemptTimesOut, AttemptUnchanged
  <2>2. Retried(act) \/ CleanupDropped(act) \/ WorkStopped(act)
    BY <2>1, RetryView
  <2> QED BY <1>0, <2>1, <2>2 DEF Retried, CleanupDropped, WorkStopped, BeginCleanup
<1>6. CASE ActivityCancelled
  BY <1>0, <1>6 DEF ActivityCancelled, AttemptUnchanged, BeginCleanup
<1>7. CASE CleanupStep
  BY <1>7 DEF CleanupStep, Schedule
<1>8. CASE \E i \in 1 .. MaxEvents : Delivery(i)
  BY <1>8, DeliveryView
<1>9. CASE UNCHANGED <<done, cur, act>>
  BY <1>9
<1> QED BY <1>1, <1>2, <1>3, <1>4, <1>5, <1>6, <1>7, <1>8, <1>9
    DEF Next, StartInstance, UserCancels, UserDecides, ApiOnly, ApprovalTimeout, OrphanLands, Delivery, vars, wfVars

\* completedServices follows the edges: no service is in it twice.
DoneClimbs ==
  /\ \A i, j \in DOMAIN done : i < j => Rank[done[i]] < Rank[done[j]]
  /\ \A i \in DOMAIN done : Rank[done[i]] <= Rank[cur]
  /\ act.kind = "invoke" => \A i \in DOMAIN done : Rank[done[i]] < Rank[cur]

LEMMA DoneClimbsStep ==
  ASSUME EngineTypes, DoneClimbs, [Next]_vars
  PROVE  DoneClimbs'
<1>0. /\ cur \in Nodes /\ Rank[cur] \in Nat /\ done \in Seq(ServiceNodes)
      /\ \A i \in DOMAIN done : Rank[done[i]] \in Nat
  <2>1. cur \in Nodes /\ done \in Seq(ServiceNodes) /\ ServiceNodes \subseteq Nodes
    BY Kinds DEF EngineTypes, TypeBase
  <2>2. \A i \in DOMAIN done : done[i] \in Nodes
    BY <2>1
  <2> QED BY <2>1, <2>2, RankFacts
<1>1. CASE done' = done /\ cur' \in Targets(cur)
  <2>1. PICK e \in Edges : e.from = cur /\ e.to = cur'
    BY <1>0, <1>1, GraphFacts
  <2>2. Rank[cur] < Rank[cur'] /\ Rank[cur'] \in Nat
    BY <1>0, <1>1, <2>1, GraphFacts, RankFacts
  <2>3. \A i \in DOMAIN done : Rank[done[i]] < Rank[cur']
    BY <1>0, <2>2 DEF DoneClimbs
  <2> QED BY <1>0, <1>1, <2>2, <2>3 DEF DoneClimbs
<1>2. CASE UNCHANGED <<done, cur>> /\ (act'.kind = "invoke" => act.kind = "invoke")
  BY <1>2 DEF DoneClimbs
<1>3. CASE /\ act.kind = "invoke" /\ cur \in ServiceNodes /\ UNCHANGED cur
           /\ done' = Append(done, cur) /\ act'.kind # "invoke"
  <2>1. /\ DOMAIN done = 1 .. Len(done) /\ Len(done) \in Nat /\ DOMAIN done' = 1 .. Len(done) + 1
        /\ \A i \in 1 .. Len(done) : done'[i] = done[i]
        /\ done'[Len(done) + 1] = cur
    BY <1>0, <1>3
  <2>2. ASSUME NEW i \in DOMAIN done', NEW j \in DOMAIN done', i < j
        PROVE  Rank[done'[i]] < Rank[done'[j]]
    <3>1. i \in 1 .. Len(done) /\ (j \in 1 .. Len(done) \/ j = Len(done) + 1)
      BY <2>1, <2>2
    <3> QED BY <1>3, <2>1, <2>2, <3>1 DEF DoneClimbs
  <2>3. ASSUME NEW i \in DOMAIN done' PROVE Rank[done'[i]] <= Rank[cur']
    <3>1. i \in 1 .. Len(done) \/ i = Len(done) + 1
      BY <2>1
    <3> QED BY <1>0, <1>3, <2>1, <3>1 DEF DoneClimbs
  <2> QED BY <1>3, <2>2, <2>3 DEF DoneClimbs
<1> QED BY <1>1, <1>2, <1>3, DoneMoves

LEMMA DoneDistinct ==
  ASSUME EngineTypes, DoneClimbs, NEW i \in DOMAIN done, NEW j \in DOMAIN done, done[i] = done[j]
  PROVE  i = j
<1>1. /\ i \in Nat /\ j \in Nat /\ done[i] \in Nodes /\ done[j] \in Nodes
  BY Kinds DEF EngineTypes, TypeBase
<1>2. Rank[done[i]] \in Nat
  BY <1>1, RankFacts
<1>3. ~(i < j) /\ ~(j < i)
  BY <1>2 DEF DoneClimbs
<1> QED BY <1>1, <1>3

\* The places of completedServices with which the cleanup is done.
WorkedOff(i) == i > Len(undo) + (IF act.kind = "compensate" THEN 1 ELSE 0)

\* The compensation under way is that of the place just taken off.
Compensating ==
  act.kind = "compensate" => Len(undo) + 1 \in DOMAIN done /\ act.node = done[Len(undo) + 1]

AbandonedKnown ==
  /\ ~Cleaning /\ pc # "closed" => abandoned = {}
  /\ \A n \in abandoned : \E i \in DOMAIN done : WorkedOff(i) /\ done[i] = n

\* As long as no result was lost, what is compensated has been worked off, and
\* in the order of the places from the last to the first.
WorkedOffInOrder ==
  faults = 0 =>
    /\ \A a \in orphans : a.kind # "compensate"
    /\ \A j \in Happened("compensate") :
         \E i \in DOMAIN done : WorkedOff(i) /\ done[i] = effects[j][2] /\ done[i] \in Compensable \ abandoned
    /\ \A j, k \in Happened("compensate") : j < k =>
         \E h, i \in DOMAIN done : h < i /\ effects[j][2] = done[i] /\ effects[k][2] = done[h]

OrderInv == DoneClimbs /\ Compensating /\ AbandonedKnown /\ WorkedOffInOrder

LEMMA CompensationsStay ==
  ASSUME EngineTypes,
         effects' = effects \/ \E n \in ServiceNodes : effects' = Append(effects, <<"invoke", n>>)
  PROVE  /\ Happened("compensate")' = Happened("compensate")
         /\ \A j \in Happened("compensate") : effects'[j] = effects[j]
<1>1. CASE effects' = effects
  BY <1>1 DEF Happened
<1>2. ASSUME NEW n \in ServiceNodes, effects' = Append(effects, <<"invoke", n>>)
      PROVE  /\ Happened("compensate")' = Happened("compensate")
             /\ \A j \in Happened("compensate") : effects'[j] = effects[j]
  <2>1. /\ DOMAIN effects' = DOMAIN effects \cup {Len(effects) + 1}
        /\ \A j \in DOMAIN effects : effects'[j] = effects[j] /\ j < Len(effects) + 1
        /\ effects'[Len(effects) + 1] = <<"invoke", n>>
    <3>1. effects \in Seq({"invoke", "compensate"} \X ServiceNodes)
      BY DEF EngineTypes, TypeBase
    <3> QED BY <1>2, <3>1, EffectsGrow
  <2> QED BY <2>1 DEF Happened
<1> QED BY <1>1, <1>2

\* Steps that compensate and abandon nothing, and take back no place.
LEMMA OrderKept ==
  ASSUME OrderInv, faults \in Nat, faults' \in {faults, faults + 1}, UNCHANGED <<done, abandoned>>,
         \A i \in DOMAIN done : WorkedOff(i) => WorkedOff(i)',
         Compensating',
         ~Cleaning' /\ pc' # "closed" => ~Cleaning /\ pc # "closed",
         faults' = 0 =>
           /\ \A a \in orphans' : a.kind # "compensate"
           /\ Happened("compensate")' = Happened("compensate")
           /\ \A j \in Happened("compensate") : effects'[j] = effects[j]
  PROVE  Compensating' /\ AbandonedKnown' /\ WorkedOffInOrder'
<1>1. AbandonedKnown'
  <2>1. ~Cleaning' /\ pc' # "closed" => abandoned' = {}
    BY DEF OrderInv, AbandonedKnown
  <2>2. ASSUME NEW n \in abandoned' PROVE \E i \in DOMAIN done' : WorkedOff(i)' /\ done'[i] = n
    BY <2>2 DEF OrderInv, AbandonedKnown
  <2> QED BY <2>1, <2>2 DEF AbandonedKnown
<1>2. WorkedOffInOrder'
  <2> SUFFICES ASSUME faults' = 0
               PROVE  /\ \A a \in orphans' : a.kind # "compensate"
                      /\ \A j \in Happened("compensate")' :
                           \E i \in DOMAIN done' : /\ WorkedOff(i)' /\ done'[i] = effects'[j][2]
                                                   /\ done'[i] \in Compensable \ abandoned'
                      /\ \A j, k \in Happened("compensate")' : j < k =>
                           \E h, i \in DOMAIN done' :
                             h < i /\ effects'[j][2] = done'[i] /\ effects'[k][2] = done'[h]
    BY DEF WorkedOffInOrder
  <2>1. faults = 0 /\ WorkedOffInOrder
    BY DEF OrderInv
  <2>2. \A j \in Happened("compensate")' :
          \E i \in DOMAIN done' : /\ WorkedOff(i)' /\ done'[i] = effects'[j][2]
                                  /\ done'[i] \in Compensable \ abandoned'
    BY <2>1 DEF WorkedOffInOrder
  <2>3. \A j, k \in Happened("compensate")' : j < k =>
          \E h, i \in DOMAIN done' : h < i /\ effects'[j][2] = done'[i] /\ effects'[k][2] = done'[h]
    BY <2>1 DEF WorkedOffInOrder
  <2> QED BY <2>2, <2>3
<1> QED BY <1>1, <1>2

\* Before the cleanup there is nothing to keep in order, so that it can start.
LEMMA OrderStarts ==
  ASSUME NoneUndone', abandoned' = {}
  PROVE  Compensating' /\ AbandonedKnown' /\ WorkedOffInOrder'
<1>1. Happened("compensate")' = {} /\ \A a \in orphans' : a.kind # "compensate"
  BY DEF NoneUndone, Happened, Attempts
<1>2. Compensating'
  BY DEF NoneUndone, Attempts, Compensating
<1> QED BY <1>1, <1>2 DEF AbandonedKnown, WorkedOffInOrder

\* An iteration of the cleanup takes the last place off.
LEMMA OrderUndoes ==
  ASSUME EngineTypes, SagaInv, OrderInv, Undoes
  PROVE  Compensating' /\ AbandonedKnown' /\ WorkedOffInOrder'
<1>0. /\ undo \in Seq(ServiceNodes) /\ done \in Seq(ServiceNodes) /\ faults \in Nat
      /\ Len(undo) \in Nat /\ Len(done) \in Nat /\ DOMAIN done = 1 .. Len(done) /\ DOMAIN undo = 1 .. Len(undo)
      /\ NoAct.kind = "none" /\ act.kind = "none" /\ pc = "undo"
  BY Kinds DEF EngineTypes, TypeBase, Undoes
<1>1. UNCHANGED <<done, abandoned, orphans, effects, faults>> /\ Cleaning
  BY <1>0 DEF Undoes, Cleaning
<1>2. LeftToUndo
  BY <1>1 DEF SagaInv, UndoInv
<1>3. /\ faults' \in {faults, faults + 1}
      /\ faults' = 0 => /\ \A a \in orphans' : a.kind # "compensate"
                        /\ Happened("compensate")' = Happened("compensate")
                        /\ \A j \in Happened("compensate") : effects'[j] = effects[j]
  BY <1>1 DEF OrderInv, WorkedOffInOrder, Happened
<1>4. Cleaning'
  BY <1>0 DEF Undoes, Cleaning, InCleanup
<1>5. /\ \A i \in DOMAIN done : WorkedOff(i) => WorkedOff(i)'
      /\ Compensating'
  <2>1. CASE UNCHANGED undo /\ act'.kind = "fail"
    BY <1>0, <2>1 DEF WorkedOff, Compensating
  <2>2. CASE undo # <<>> /\ undo' = Front(undo)
    <3>1. /\ Len(undo') = Len(undo) - 1 /\ Last(undo) = undo[Len(undo)] /\ Len(undo) \in DOMAIN undo
      BY <2>2, SagaSequences
    <3>2. Len(undo) \in DOMAIN done /\ Last(undo) = done[Len(undo)]
      BY <1>0, <1>2, <3>1 DEF LeftToUndo
    <3>3. \A i \in DOMAIN done : WorkedOff(i) => WorkedOff(i)'
      BY <1>0, <3>1 DEF WorkedOff
    <3>4. act'.kind = "compensate" => act'.node = Last(undo)
      BY <1>0, <2>2 DEF Undoes
    <3>5. Len(undo') + 1 = Len(undo)
      BY <1>0, <3>1
    <3> QED BY <1>1, <3>2, <3>3, <3>4, <3>5 DEF Compensating
  <2> QED BY <2>1, <2>2 DEF Undoes
<1> QED BY <1>0, <1>1, <1>3, <1>4, <1>5, OrderKept

\* The compensation reaches its service: it is the next in the order.
LEMMA OrderCompensates ==
  ASSUME EngineTypes, OrderInv, act.kind = "compensate", act'.kind = "none",
         effects' = Append(effects, <<"compensate", act.node>>), Cleaning',
         UNCHANGED <<done, undo, abandoned, orphans, faults>>
  PROVE  Compensating' /\ AbandonedKnown' /\ WorkedOffInOrder'
<1> DEFINE new == Len(effects) + 1
<1> PICK at : at = Len(undo) + 1
  OBVIOUS
<1>0. /\ Len(undo) \in Nat /\ done \in Seq(ServiceNodes) /\ DOMAIN done \subseteq Nat
      /\ effects \in Seq({"invoke", "compensate"} \X ServiceNodes)
      /\ at \in DOMAIN done /\ act.node = done[at] /\ act.node \in Compensable
      /\ act.node \in ServiceNodes
  BY Kinds DEF EngineTypes, TypeBase, AttemptsFit, Attempts, Fits, OrderInv, Compensating
<1>1. \A i \in DOMAIN done : /\ WorkedOff(i) <=> i > at
                             /\ WorkedOff(i)' <=> i > Len(undo)
  BY <1>0 DEF WorkedOff
<1>2. WorkedOff(at)' /\ \A i \in DOMAIN done : WorkedOff(i) => WorkedOff(i)' /\ at < i
  BY <1>0, <1>1
<1>3. act.node \notin abandoned
  <2> SUFFICES ASSUME act.node \in abandoned PROVE FALSE
    OBVIOUS
  <2>1. PICK i \in DOMAIN done : WorkedOff(i) /\ done[i] = act.node
    BY DEF OrderInv, AbandonedKnown
  <2>2. i = at
    BY <1>0, <2>1, DoneDistinct DEF OrderInv
  <2> QED BY <1>0, <1>2, <2>1, <2>2
<1>4. /\ Happened("compensate")' = Happened("compensate") \cup {new}
      /\ \A j \in Happened("compensate") : effects'[j] = effects[j] /\ j < new /\ j \in Nat
      /\ effects'[new][2] = act.node /\ new \in Nat
  <2>1. <<"compensate", act.node>> \in {"invoke", "compensate"} \X ServiceNodes
    BY <1>0
  <2>2. /\ DOMAIN effects' = DOMAIN effects \cup {new}
        /\ \A j \in DOMAIN effects : effects'[j] = effects[j] /\ j < new
        /\ effects'[new] = <<"compensate", act.node>>
    BY <1>0, <2>1, EffectsGrow
  <2>3. new \in Nat /\ DOMAIN effects \subseteq Nat
    BY <1>0
  <2> QED BY <2>2, <2>3 DEF Happened
<1> HIDE DEF new
<1>5. Compensating'
  BY DEF Compensating
<1>6. AbandonedKnown'
  BY <1>2 DEF OrderInv, AbandonedKnown
<1>7. WorkedOffInOrder'
  <2> SUFFICES ASSUME faults = 0 PROVE WorkedOffInOrder'
    BY DEF WorkedOffInOrder
  <2>1. WorkedOffInOrder
    BY DEF OrderInv
  <2>2. ASSUME NEW j \in Happened("compensate")'
        PROVE  \E i \in DOMAIN done' : /\ WorkedOff(i)' /\ done'[i] = effects'[j][2]
                                       /\ done'[i] \in Compensable \ abandoned'
    <3>1. CASE j = new
      BY <1>0, <1>2, <1>3, <1>4, <3>1
    <3>2. CASE j \in Happened("compensate")
      BY <1>2, <1>4, <2>1, <3>2 DEF WorkedOffInOrder
    <3> QED BY <1>4, <2>2, <3>1, <3>2
  <2>3. ASSUME NEW j \in Happened("compensate")', NEW k \in Happened("compensate")', j < k
        PROVE  \E h, i \in DOMAIN done' : h < i /\ effects'[j][2] = done'[i] /\ effects'[k][2] = done'[h]
    <3>1. j \in Happened("compensate")
      BY <1>4, <2>3
    <3>2. CASE k = new
      <4>1. PICK i \in DOMAIN done : WorkedOff(i) /\ done[i] = effects[j][2]
        BY <2>1, <3>1 DEF WorkedOffInOrder
      <4> QED BY <1>0, <1>2, <1>4, <3>1, <3>2, <4>1
    <3>3. CASE k \in Happened("compensate")
      <4>1. PICK h \in DOMAIN done, i \in DOMAIN done :
              h < i /\ effects[j][2] = done[i] /\ effects[k][2] = done[h]
        BY <2>1, <2>3, <3>1, <3>3 DEF WorkedOffInOrder
      <4>2. effects'[j] = effects[j] /\ effects'[k] = effects[k]
        BY <1>4, <3>1, <3>3
      <4> QED BY <4>1, <4>2
    <3> QED BY <1>4, <2>3, <3>2, <3>3
  <2>4. \A a \in orphans' : a.kind # "compensate"
    BY <2>1 DEF WorkedOffInOrder
  <2> QED BY <2>2, <2>3, <2>4 DEF WorkedOffInOrder
<1> QED BY <1>5, <1>6, <1>7

\* The attempts of the compensation are used up: it is not among the effects.
LEMMA OrderAbandons ==
  ASSUME EngineTypes, OrderInv, act.kind = "compensate", act'.kind = "none",
         abandoned' = abandoned \cup {act.node}, Cleaning',
         faults' = faults + 1 \/ UNCHANGED <<faults, orphans>>,
         UNCHANGED <<done, undo, effects>>
  PROVE  Compensating' /\ AbandonedKnown' /\ WorkedOffInOrder'
<1> PICK at : at = Len(undo) + 1
  OBVIOUS
<1>0. /\ Len(undo) \in Nat /\ done \in Seq(ServiceNodes) /\ DOMAIN done \subseteq Nat /\ faults \in Nat
      /\ at \in DOMAIN done /\ act.node = done[at]
  BY DEF EngineTypes, TypeBase, OrderInv, Compensating
<1>1. \A i \in DOMAIN done : /\ WorkedOff(i) <=> i > at
                             /\ WorkedOff(i)' <=> i > Len(undo)
  BY <1>0 DEF WorkedOff
<1>2. WorkedOff(at)' /\ \A i \in DOMAIN done : WorkedOff(i) => WorkedOff(i)' /\ at < i
  BY <1>0, <1>1
<1>3. Compensating'
  BY DEF Compensating
<1>4. AbandonedKnown'
  BY <1>0, <1>2 DEF OrderInv, AbandonedKnown
<1>5. WorkedOffInOrder'
  <2> SUFFICES ASSUME faults' = 0 PROVE WorkedOffInOrder'
    BY DEF WorkedOffInOrder
  <2>1. WorkedOffInOrder /\ faults = 0 /\ orphans' = orphans /\ Happened("compensate")' = Happened("compensate")
    BY <1>0 DEF OrderInv, Happened
  <2>2. ASSUME NEW i \in DOMAIN done, WorkedOff(i) PROVE done[i] # act.node
    <3>1. done[i] = act.node => i = at
      BY <1>0, DoneDistinct DEF OrderInv
    <3>2. at \in Nat /\ at < i
      BY <1>0, <1>2, <2>2
    <3> QED BY <3>1, <3>2
  <2>3. \A j \in Happened("compensate")' :
          \E i \in DOMAIN done' : /\ WorkedOff(i)' /\ done'[i] = effects'[j][2]
                                  /\ done'[i] \in Compensable \ abandoned'
    BY <1>2, <2>1, <2>2 DEF WorkedOffInOrder
  <2>4. \A j, k \in Happened("compensate")' : j < k =>
          \E h, i \in DOMAIN done' : h < i /\ effects'[j][2] = done'[i] /\ effects'[k][2] = done'[h]
    BY <2>1 DEF WorkedOffInOrder
  <2> QED BY <2>1, <2>3, <2>4 DEF WorkedOffInOrder
<1> QED BY <1>3, <1>4, <1>5

LEMMA OrderStep ==
  ASSUME EngineTypes, SagaInv, OrderInv, StepView, WorkStep
  PROVE  Compensating' /\ AbandonedKnown' /\ WorkedOffInOrder'
<1>0. /\ faults \in Nat /\ NoAct.kind = "none" /\ (pc # "activity" => act.kind = "none")
  BY Kinds DEF EngineTypes, TypeBase, Waits
<1>1. CASE ~Cleaning /\ pc # "closed"
  <2>1. NoneUndone /\ abandoned = {} /\ pc # "undo"
    BY <1>1 DEF SagaInv, UndoneLate, OrderInv, AbandonedKnown, Cleaning
  <2>2. NoneUndone'
    BY <2>1, NoneUndoneStep
  <2>3. act.kind \notin {"compensate", "fail"}
    BY <1>1 DEF Cleaning, InCleanup
  <2>4. abandoned' = abandoned
    BY <2>3 DEF WorkStep, Bystands, Lands, Begins, Stops, Succeeds, Loses, Retried, CleanupDropped, Undoes
  <2> QED BY <2>1, <2>2, <2>4, OrderStarts
<1>2. CASE Cleaning \/ pc = "closed"
  <2>1. Cleaning' \/ pc' = "closed"
    BY <1>2, OneWay
  <2>2. ~Begins /\ ~Stops
    BY <1>0, <1>2 DEF Begins, Stops, Cleaning, InCleanup
  <2>3. ASSUME UNCHANGED <<done, undo, abandoned, effects>>, faults' \in {faults, faults + 1},
               faults' = 0 => orphans' = orphans,
               (act'.kind = act.kind /\ act'.node = act.node) \/ {act.kind, act'.kind} \subseteq {"none", "fail"}
        PROVE  Compensating' /\ AbandonedKnown' /\ WorkedOffInOrder'
    <3>1. Compensating' /\ \A i \in DOMAIN done : WorkedOff(i) => WorkedOff(i)'
      BY <2>3 DEF OrderInv, Compensating, WorkedOff
    <3>2. faults' = 0 => /\ \A a \in orphans' : a.kind # "compensate"
                         /\ Happened("compensate")' = Happened("compensate")
                         /\ \A j \in Happened("compensate") : effects'[j] = effects[j]
      BY <1>0, <2>3 DEF OrderInv, WorkedOffInOrder, Happened
    <3> QED BY <1>0, <2>1, <2>3, <3>1, <3>2, OrderKept
  <2>4. CASE Bystands
    BY <2>3, <2>4 DEF Bystands
  <2>5. ASSUME NEW a \in orphans, Lands(a)
        PROVE  Compensating' /\ AbandonedKnown' /\ WorkedOffInOrder'
    <3>1. UNCHANGED <<done, undo, abandoned, act, pc, faults>> /\ orphans' \subseteq orphans
      BY <2>5 DEF Lands
    <3>2. Compensating' /\ \A i \in DOMAIN done : WorkedOff(i) => WorkedOff(i)'
      BY <3>1 DEF OrderInv, Compensating, WorkedOff
    <3>3. ASSUME faults' = 0
          PROVE  /\ \A b \in orphans' : b.kind # "compensate"
                 /\ Happened("compensate")' = Happened("compensate")
                 /\ \A j \in Happened("compensate") : effects'[j] = effects[j]
      <4>1. \A b \in orphans : b.kind # "compensate"
        BY <3>1, <3>3 DEF OrderInv, WorkedOffInOrder
      <4>2. a.kind = "invoke" => a.node \in ServiceNodes
        BY DEF EngineTypes, AttemptsFit, Attempts, Fits
      <4>3. effects' = effects \/ \E n \in ServiceNodes : effects' = Append(effects, <<"invoke", n>>)
        BY <2>5, <4>1, <4>2 DEF Lands, CallView
      <4> QED BY <3>1, <4>1, <4>3, CompensationsStay
    <3> QED BY <1>0, <2>1, <3>1, <3>2, <3>3, OrderKept
  <2>6. CASE Undoes
    BY <2>6, OrderUndoes
  <2>7. CASE Succeeds
    <3>1. act.kind \in {"compensate", "fail"} /\ act \in Activity
      BY <1>2, <2>7 DEF Succeeds, Cleaning, InCleanup
    <3>2. /\ act'.kind = "none" /\ UNCHANGED <<done, undo, abandoned, orphans, faults>> /\ CallView(act)
      BY <1>0, <2>7, <3>1 DEF Succeeds, Returned
    <3>3. CASE act.kind = "compensate"
      <4>1. effects' = Append(effects, <<"compensate", act.node>>)
        BY <3>2, <3>3 DEF CallView
      <4>2. Cleaning'
        BY <2>7, <3>3 DEF Succeeds, Returned, Cleaning
      <4> QED BY <3>2, <3>3, <4>1, <4>2, OrderCompensates
    <3>4. CASE act.kind = "fail"
      <4>1. effects' = effects
        BY <3>2, <3>4 DEF CallView
      <4> QED BY <2>3, <3>2, <3>4, <4>1
    <3> QED BY <3>1, <3>3, <3>4
  <2>8. CASE Loses
    <3>1. /\ act.kind \in {"compensate", "fail"} /\ effects' = effects
          /\ faults' = faults + 1 \/ UNCHANGED <<faults, orphans>>
      BY <1>2, <2>8 DEF Loses, Cleaning, InCleanup
    <3>2. faults' \in {faults, faults + 1} /\ (faults' = 0 => orphans' = orphans)
      BY <1>0, <3>1
    <3>3. CASE Retried(act)
      BY <2>3, <3>1, <3>2, <3>3 DEF Retried
    <3>4. CASE CleanupDropped(act) /\ act.kind = "compensate"
      <4>1. /\ act'.kind = "none" /\ abandoned' = abandoned \cup {act.node}
            /\ UNCHANGED <<done, undo>> /\ Cleaning'
        BY <1>0, <3>4 DEF CleanupDropped, Cleaning
      <4> QED BY <3>1, <3>4, <4>1, OrderAbandons
    <3>5. CASE CleanupDropped(act) /\ act.kind = "fail"
      BY <1>0, <2>3, <3>1, <3>2, <3>5 DEF CleanupDropped
    <3> QED BY <2>8, <3>1, <3>3, <3>4, <3>5 DEF Loses
  <2> QED BY <2>2, <2>4, <2>5, <2>6, <2>7, <2>8 DEF WorkStep
<1> QED BY <1>1, <1>2

LEMMA OrderInvariant == Spec => []OrderInv
<1>1. Init => OrderInv
  <2> SUFFICES ASSUME Init PROVE OrderInv
    OBVIOUS
  <2>1. act.kind = "none" /\ done = <<>> /\ orphans = {} /\ effects = <<>> /\ abandoned = {}
    BY Kinds DEF Init
  <2>2. Happened("compensate") = {}
    BY <2>1 DEF Happened
  <2> QED BY <2>1, <2>2 DEF OrderInv, DoneClimbs, Compensating, AbandonedKnown, WorkedOffInOrder
<1>2. EngineInv /\ SagaInv /\ OrderInv /\ [Next]_vars => OrderInv'
  <2> SUFFICES ASSUME EngineInv, SagaInv, OrderInv, [Next]_vars PROVE OrderInv'
    OBVIOUS
  <2>1. EngineTypes /\ StepView /\ WorkStep
    BY NextView, NextWork DEF EngineInv
  <2>2. DoneClimbs'
    BY <2>1, DoneClimbsStep DEF OrderInv
  <2>3. Compensating' /\ AbandonedKnown' /\ WorkedOffInOrder'
    BY <2>1, OrderStep
  <2> QED BY <2>2, <2>3 DEF OrderInv
<1> QED BY <1>1, <1>2, SagaInvariant, PTL DEF Spec

\* The deferred cleanup (workflow.go:98-103): when the workflow is closed
\* without success, the compensation of every completed service that has a
\* method reached the service or is still under way, unless its attempts were
\* used up; and if no result was lost, exactly these services were compensated,
\* each once and the last one first.
THEOREM SagaIsUndone == Spec => []SagaUndone
<1>1. EngineInv /\ SagaInv /\ OrderInv => SagaUndone
  <2> SUFFICES ASSUME EngineInv, SagaInv, OrderInv, EndedWithoutSuccess PROVE SagaUndone
    BY DEF SagaUndone, EndedWithoutSuccess
  <2>0. EngineTypes /\ faults \in Nat
    BY DEF EngineInv, EngineTypes, TypeBase
  <2>1. ASSUME NEW i \in Owed
        PROVE  \/ \E j \in Happened("compensate") : effects[j][2] = done[i]
               \/ faults > 0 /\ \E a \in orphans : a.kind = "compensate" /\ a.node = done[i]
    <3>1. \/ \E j \in DOMAIN effects : effects[j] = <<"compensate", done[i]>>
          \/ \E a \in orphans : a.kind = "compensate" /\ a.node = done[i]
      BY CleanupForgetsNothing DEF NothingLeftToUndo
    <3>2. faults = 0 => \A a \in orphans : a.kind # "compensate"
      BY DEF OrderInv, WorkedOffInOrder
    <3> QED BY <2>0, <3>1, <3>2 DEF Happened
  <2>2. ASSUME faults = 0, NEW j \in Happened("compensate")
        PROVE  \E i \in Owed : effects[j][2] = done[i]
    BY <2>2 DEF OrderInv, WorkedOffInOrder, Owed
  <2>3. ASSUME faults = 0, NEW j \in Happened("compensate"), NEW k \in Happened("compensate"), j < k
        PROVE  /\ effects[j] # effects[k]
               /\ \E h, i \in Owed : h < i /\ effects[j][2] = done[i] /\ effects[k][2] = done[h]
    <3>1. PICK h \in DOMAIN done, i \in DOMAIN done :
            h < i /\ effects[j][2] = done[i] /\ effects[k][2] = done[h]
      BY <2>3 DEF OrderInv, WorkedOffInOrder
    <3>2. h \in Nat /\ i \in Nat
      BY <2>0 DEF EngineTypes, TypeBase
    <3>3. done[h] # done[i]
      BY <2>0, <3>1, <3>2, DoneDistinct DEF OrderInv
    <3>4. h \in Owed /\ i \in Owed
      BY <2>2, <2>3, <3>1 DEF Owed
    <3> QED BY <3>1, <3>3, <3>4
  <2> QED BY <2>1, <2>2, <2>3 DEF SagaUndone
<1> QED BY <1>1, SagaInvariant, OrderInvariant, PTL
===============================================================================
