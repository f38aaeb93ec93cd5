---------------------------- MODULE WorkflowStore ----------------------------
(***************************************************************************)
(* The rows that internal/workflow/repository.go keeps for one workflow    *)
(* instance: the instance, its approval tasks (the unique key on           *)
(* instance and node makes the node the identity of a task), the audit     *)
(* history of every task and the transactional outbox.  Each action is one *)
(* repository operation: its UPDATE ... WHERE condition is the guard (a    *)
(* miss is an error and changes nothing), and everything the transaction   *)
(* writes is one step, because the code commits it together.               *)
(***************************************************************************)
EXTENDS Integers, Sequences

CONSTANTS
  Users,      \* user identities
  Groups,     \* role or expression assignees, decided by the authorization service
  Nodes,      \* node identities of the pinned definition revision
  Approvals,  \* the approval nodes among them
  Assignee,   \* the resolved assignee of every approval node
  None        \* the empty string of current_node_id and claimed_by

ASSUME StoreConstants ==
  /\ Approvals \subseteq Nodes
  /\ Assignee \in [Approvals -> Users \cup Groups]
  /\ Users \cap Groups = {}
  /\ None \notin Users \cup Groups \cup Nodes

VARIABLES inst, tasks, history, outbox

storeVars == <<inst, tasks, history, outbox>>

Terminal       == {"completed", "rejected", "cancelled", "failed"}
InstanceStatus == {"none", "running"} \cup Terminal
Open           == {"pending", "claimed"}
Decided        == {"approved", "rejected"}
TaskStatus     == {"none"} \cup Open \cup Decided
Decisions      == {"approve", "reject"}

Instance == [status : InstanceStatus, node : Nodes \cup {None}, version : Nat]

Task == [status    : TaskStatus,
         assignee  : Users \cup Groups,
         claimedBy : Users \cup {None},
         version   : Nat]

HistoryRow == [action : {"claim", "complete", "delegate"},
               actor  : Users,
               from   : TaskStatus,
               to     : TaskStatus]

EventTypes == {"start", "cancel", "taskCreated", "taskCompleted", "statusChanged"}

Event == [type : EventTypes, node : Nodes \cup {None},
          detail : Decisions \cup Terminal \cup {"none"}]

StoreTypeOK ==
  /\ inst \in Instance
  /\ tasks \in [Approvals -> Task]
  /\ history \in [Approvals -> Seq(HistoryRow)]
  /\ outbox \in Seq(Event)

\* A task row that does not exist yet has status "none" and version 0.
StoreInit ==
  /\ inst = [status |-> "none", node |-> None, version |-> 0]
  /\ tasks = [n \in Approvals |->
                [status |-> "none", assignee |-> Assignee[n], claimedBy |-> None, version |-> 0]]
  /\ history = [n \in Approvals |-> <<>>]
  /\ outbox = <<>>

AddTx(type, node, detail) ==
  outbox' = Append(outbox, [type |-> type, node |-> node, detail |-> detail])

------------------------------------------------------------------------------
(* The instance row.                                                       *)

CreateInstance ==
  /\ inst.status = "none"
  /\ inst' = [status |-> "running", node |-> None, version |-> 1]
  /\ AddTx("start", None, "none")
  /\ UNCHANGED <<tasks, history>>

CancelInstance(expectedVersion) ==
  /\ inst.version = expectedVersion
  /\ inst.status = "running"
  /\ inst' = [inst EXCEPT !.status = "cancelled", !.version = @ + 1]
  /\ AddTx("cancel", None, "none")
  /\ UNCHANGED <<tasks, history>>

\* The UPDATE skips a row that is already on the node; that row counts as
\* advanced as long as the instance is running.
AdvancedTo(n) ==
  IF inst.node = n THEN inst ELSE [inst EXCEPT !.node = n, !.version = @ + 1]

UpdateInstanceNode(n) ==
  /\ inst.status = "running"
  /\ inst' = AdvancedTo(n)
  /\ UNCHANGED <<tasks, history, outbox>>

\* Mutants: a finish that is not idempotent, and one that ignores the status.
FinishAcceptedOnce(status) == inst.status = "running"
FinishAcceptedAlways(status) == TRUE

\* Finishing again with the status the row already has succeeds and writes
\* nothing; any other status of a row that is not running is ErrConflict.
FinishAccepted(status) == inst.status \in {"running", status}

\* Mutant: a repeated finish is announced again.
FinishInstanceAnnouncingAlways(status) ==
  /\ FinishAccepted(status)
  /\ inst' = [inst EXCEPT !.status = status, !.version = @ + 1]
  /\ AddTx("statusChanged", None, status)
  /\ UNCHANGED <<tasks, history>>

FinishInstance(status) ==
  /\ FinishAccepted(status)
  /\ IF inst.status = status
       THEN UNCHANGED <<inst, outbox>>
       ELSE /\ inst' = [inst EXCEPT !.status = status, !.version = @ + 1]
            /\ AddTx("statusChanged", None, status)
  /\ UNCHANGED <<tasks, history>>

------------------------------------------------------------------------------
(* The task rows.                                                          *)

TaskExists(n) == tasks[n].status # "none"

\* Mutant: the status of the instance is not checked.
CreateTaskAcceptedAlways(n) == TRUE

\* A row that exists is returned as it is; otherwise the instance must be
\* running, moves to the node, and the task is inserted with its event.  Of two
\* attempts that insert at once, the unique index refuses one; it fails as a
\* whole, and its retry finds the row.
CreateTaskAccepted(n) == TaskExists(n) \/ inst.status = "running"

CreateTask(n) ==
  /\ CreateTaskAccepted(n)
  /\ IF TaskExists(n)
       THEN UNCHANGED <<inst, tasks, outbox>>
       ELSE /\ inst' = AdvancedTo(n)
            /\ tasks' = [tasks EXCEPT ![n].status = "pending", ![n].version = 1]
            /\ AddTx("taskCreated", n, "none")
  /\ UNCHANGED history

Record(n, action, actor, from, to) ==
  history' = [history EXCEPT ![n] =
    Append(@, [action |-> action, actor |-> actor, from |-> from, to |-> to])]

\* Mutants: the claim forgets one half of its WHERE condition.
ClaimTaskAnyStatus(n, expectedVersion, actor) ==
  /\ tasks[n].version = expectedVersion
  /\ tasks' = [tasks EXCEPT ![n].status = "claimed", ![n].claimedBy = actor,
                            ![n].version = @ + 1]
  /\ Record(n, "claim", actor, "pending", "claimed")
  /\ UNCHANGED <<inst, outbox>>

ClaimTaskAnyVersion(n, expectedVersion, actor) ==
  /\ tasks[n].status = "pending"
  /\ tasks' = [tasks EXCEPT ![n].status = "claimed", ![n].claimedBy = actor,
                            ![n].version = @ + 1]
  /\ Record(n, "claim", actor, "pending", "claimed")
  /\ UNCHANGED <<inst, outbox>>

ClaimTask(n, expectedVersion, actor) ==
  /\ tasks[n].version = expectedVersion
  /\ tasks[n].status = "pending"
  /\ tasks' = [tasks EXCEPT ![n].status = "claimed", ![n].claimedBy = actor,
                            ![n].version = @ + 1]
  /\ Record(n, "claim", actor, "pending", "claimed")
  /\ UNCHANGED <<inst, outbox>>

\* Mutants: the write is not tied to the version, or not to an open status.
WritableAnyVersion(n, current, actor) ==
  /\ tasks[n].status \in Open
  /\ tasks[n].claimedBy \in {None, actor}

WritableAnyStatus(n, current, actor) ==
  /\ tasks[n].version = current.version
  /\ tasks[n].claimedBy \in {None, actor}

\* The WHERE condition of complete and delegate: the version of the row the
\* caller read, an open status, and nobody else's claim.
Writable(n, current, actor) ==
  /\ tasks[n].version = current.version
  /\ tasks[n].status \in Open
  /\ tasks[n].claimedBy \in {None, actor}

\* Mutant: the decision is stored as the status.
StatusOfUnconverted(decision) == decision

StatusOf(decision) == IF decision = "reject" THEN "rejected" ELSE "approved"

\* The history row records the status of the row the caller read, not of the
\* row that is overwritten.
CompleteTask(n, current, decision, actor) ==
  /\ Writable(n, current, actor)
  /\ tasks' = [tasks EXCEPT ![n].status = StatusOf(decision), ![n].version = @ + 1]
  /\ Record(n, "complete", actor, current.status, StatusOf(decision))
  /\ AddTx("taskCompleted", n, decision)
  /\ UNCHANGED inst

\* Mutant: the delegation leaves the version alone.
DelegateTaskSameVersion(n, current, delegateTo, actor) ==
  /\ Writable(n, current, actor)
  /\ tasks' = [tasks EXCEPT ![n].assignee = delegateTo, ![n].claimedBy = None,
                            ![n].status = "pending"]
  /\ Record(n, "delegate", actor, current.status, "pending")
  /\ UNCHANGED <<inst, outbox>>

DelegateTask(n, current, delegateTo, actor) ==
  /\ Writable(n, current, actor)
  /\ tasks' = [tasks EXCEPT ![n].assignee = delegateTo, ![n].claimedBy = None,
                            ![n].status = "pending", ![n].version = @ + 1]
  /\ Record(n, "delegate", actor, current.status, "pending")
  /\ UNCHANGED <<inst, outbox>>
==============================================================================
