---------------------------- MODULE TaskApiProofs ----------------------------
(***************************************************************************)
(* The task API for any number of users, requests and tasks.               *)
(***************************************************************************)
EXTENDS TaskApi, TLAPS

\* The statuses the store writes are statuses.
LEMMA Statuses ==
  /\ {"pending", "claimed", "approved", "rejected"} \subseteq TaskStatus
  /\ {"running", "cancelled"} \subseteq InstanceStatus
  /\ Terminal \subseteq InstanceStatus
  /\ {"completed", "rejected", "failed"} \subseteq Terminal
  /\ \A d \in Decisions : StatusOf(d) \in TaskStatus
BY DEF TaskStatus, InstanceStatus, Terminal, Open, Decided, StatusOf

\* Every event the store adds is one of the declared events (AddTx).
LEMMA AddTxType ==
  ASSUME outbox \in Seq(Event),
         NEW type \in EventTypes, NEW node \in Nodes \cup {None},
         NEW detail \in Decisions \cup Terminal \cup {"none"},
         AddTx(type, node, detail)
  PROVE  outbox' \in Seq(Event)
<1>1. [type |-> type, node |-> node, detail |-> detail] \in Event
  BY DEF Event
<1> QED
  BY <1>1 DEF AddTx

\* Every history row has its type (the three INSERTs into workflow_task_history).
LEMMA RecordType ==
  ASSUME history \in [Approvals -> Seq(HistoryRow)],
         NEW n \in Approvals, NEW action \in {"claim", "complete", "delegate"},
         NEW actor \in Users, NEW from \in TaskStatus, NEW to \in TaskStatus,
         Record(n, action, actor, from, to)
  PROVE  history' \in [Approvals -> Seq(HistoryRow)]
<1>1. [action |-> action, actor |-> actor, from |-> from, to |-> to] \in HistoryRow
  BY DEF HistoryRow
<1>2. Append(history[n], [action |-> action, actor |-> actor, from |-> from, to |-> to])
        \in Seq(HistoryRow)
  BY <1>1
<1> QED
  BY <1>2 DEF Record

\* The rows and the requests keep their types, whatever the interleaving.
THEOREM TypeCorrect == Spec => []TypeOK
<1>1. Init => TypeOK
  BY StoreConstants DEF Init, StoreInit, TypeOK, StoreTypeOK, Instance, Task,
     InstanceStatus, TaskStatus, Open, Decided
<1>2. TypeOK /\ [Next]_apiVars => TypeOK'
  <2> SUFFICES ASSUME TypeOK, [Next]_apiVars PROVE TypeOK'
    OBVIOUS
  <2> USE DEF TypeOK, StoreTypeOK
  <2>0. /\ inst.version + 1 \in Nat
        /\ \A n \in Approvals : tasks[n].version + 1 \in Nat
    BY DEF Instance, Task
  <2>1. CASE Start
    BY <2>1 DEF Start, CreateInstance, AddTx, Instance, InstanceStatus, Event, EventTypes
  <2>2. CASE Cancel
    <3>1. inst' \in Instance
      BY <2>0, <2>2, Statuses DEF Cancel, CancelInstance, Instance
    <3>2. outbox' \in Seq(Event)
      BY <2>2, AddTxType DEF Cancel, CancelInstance, EventTypes
    <3> QED
      BY <2>2, <3>1, <3>2 DEF Cancel, CancelInstance
  <2>3. ASSUME NEW n \in Approvals, RuntimeCreateTask(n) PROVE TypeOK'
    <3>1. CASE TaskExists(n)
      BY <2>3, <3>1 DEF RuntimeCreateTask, CreateTask
    <3>2. CASE ~TaskExists(n)
      <4>1. inst' \in Instance
        <5>1. inst' = AdvancedTo(n) /\ n \in Nodes
          BY <2>3, <3>2, StoreConstants DEF RuntimeCreateTask, CreateTask
        <5> QED
          BY <2>0, <5>1 DEF AdvancedTo, Instance
      <4>2. tasks' \in [Approvals -> Task]
        <5>1. tasks' = [tasks EXCEPT ![n].status = "pending", ![n].version = 1]
          BY <2>3, <3>2 DEF RuntimeCreateTask, CreateTask
        <5>2. [tasks[n] EXCEPT !.status = "pending", !.version = 1] \in Task
          BY Statuses DEF Task
        <5> QED
          BY <5>1, <5>2
      <4>3. outbox' \in Seq(Event)
        <5>1. AddTx("taskCreated", n, "none")
          BY <2>3, <3>2 DEF RuntimeCreateTask, CreateTask
        <5> QED
          BY <5>1, AddTxType, StoreConstants DEF EventTypes
      <4> QED
        BY <2>3, <4>1, <4>2, <4>3 DEF RuntimeCreateTask, CreateTask
    <3> QED
      BY <3>1, <3>2
  <2>4. ASSUME NEW s \in {"completed", "rejected", "failed"}, RuntimeFinish(s) PROVE TypeOK'
    <3>1. CASE inst.status = s
      BY <2>4, <3>1 DEF RuntimeFinish, FinishInstance
    <3>2. CASE inst.status # s
      <4>1. inst' \in Instance
        <5>1. inst' = [inst EXCEPT !.status = s, !.version = @ + 1] /\ s \in InstanceStatus
          BY <2>4, <3>2, Statuses DEF RuntimeFinish, FinishInstance
        <5> QED
          BY <2>0, <5>1 DEF Instance
      <4>2. outbox' \in Seq(Event)
        BY <2>4, <3>2, AddTxType DEF RuntimeFinish, FinishInstance, EventTypes, Terminal
      <4> QED
        BY <2>4, <4>1, <4>2 DEF RuntimeFinish, FinishInstance
    <3> QED
      BY <3>1, <3>2
  <2>5. ASSUME NEW u \in Users, NEW g \in Groups, ChangeGrant(u, g) PROVE TypeOK'
    BY <2>5 DEF ChangeGrant, storeVars
  <2>6. ASSUME NEW r \in Requests, NEW u \in Users, NEW n \in Approvals,
               AuthorizedTask(r, u, n)
        PROVE TypeOK'
    BY <2>6 DEF AuthorizedTask, storeVars, Loaded
  <2>7. ASSUME NEW r \in Requests, reqs[r] # Idle
        PROVE  /\ reqs[r].node \in Approvals
               /\ reqs[r].actor \in Users
               /\ reqs[r].task \in Task
    BY <2>7 DEF Loaded
  <2>8. ASSUME NEW r \in Requests, Claim(r) PROVE TypeOK'
    <3>1. tasks' \in [Approvals -> Task]
      <4> DEFINE n == reqs[r].node
      <4>1. /\ n \in Approvals
            /\ tasks' = [tasks EXCEPT ![n].status = "claimed", ![n].claimedBy = reqs[r].actor,
                                      ![n].version = @ + 1]
        BY <2>8, <2>7 DEF Claim, ClaimTask
      <4>2. [tasks[n] EXCEPT !.status = "claimed", !.claimedBy = reqs[r].actor,
                             !.version = tasks[n].version + 1] \in Task
        BY <2>0, <2>8, <2>7, <4>1, Statuses DEF Claim, Task
      <4> HIDE DEF n
      <4> QED
        BY <4>1, <4>2
    <3>2. history' \in [Approvals -> Seq(HistoryRow)]
      BY <2>8, <2>7, Statuses, RecordType DEF Claim, ClaimTask
    <3> QED
      BY <2>8, <3>1, <3>2 DEF Claim, ClaimTask, Return
  <2>9. ASSUME NEW r \in Requests, NEW d \in Decisions, Complete(r, d) PROVE TypeOK'
    <3>1. StatusOf(d) \in TaskStatus
      BY Statuses
    <3>2. tasks' \in [Approvals -> Task]
      BY <2>0, <2>9, <2>7, <3>1 DEF Complete, CompleteTask, Task
    <3>3. history' \in [Approvals -> Seq(HistoryRow)]
      <4>1. reqs[r].task.status \in TaskStatus
        BY <2>9, <2>7 DEF Complete, Task
      <4> QED
        BY <2>9, <2>7, <3>1, <4>1, RecordType DEF Complete, CompleteTask
    <3>4. outbox' \in Seq(Event)
      <4>1. AddTx("taskCompleted", reqs[r].node, d)
        BY <2>9 DEF Complete, CompleteTask
      <4>2. reqs[r].node \in Nodes
        BY <2>9, <2>7, StoreConstants DEF Complete
      <4> QED
        BY <4>1, <4>2, AddTxType DEF EventTypes
    <3> QED
      BY <2>9, <3>2, <3>3, <3>4 DEF Complete, CompleteTask, Return
  <2>10. ASSUME NEW r \in Requests, NEW u \in Users, Delegate(r, u) PROVE TypeOK'
    <3>1. tasks' \in [Approvals -> Task]
      BY <2>0, <2>10, <2>7, Statuses DEF Delegate, DelegateTask, Task
    <3>2. history' \in [Approvals -> Seq(HistoryRow)]
      <4>1. reqs[r].task.status \in TaskStatus /\ "pending" \in TaskStatus
        BY <2>10, <2>7, Statuses DEF Delegate, Task
      <4> QED
        BY <2>10, <2>7, <4>1, RecordType DEF Delegate, DelegateTask
    <3> QED
      BY <2>10, <3>1, <3>2 DEF Delegate, DelegateTask, Return
  <2>11. ASSUME NEW r \in Requests, ReturnWithoutWrite(r) PROVE TypeOK'
    BY <2>11 DEF ReturnWithoutWrite, Return, storeVars
  <2>12. CASE UNCHANGED apiVars
    BY <2>12 DEF apiVars, storeVars
  <2> QED
    BY <2>1, <2>2, <2>3, <2>4, <2>5, <2>6, <2>8, <2>9, <2>10, <2>11, <2>12 DEF Next
<1> QED
  BY <1>1, <1>2, PTL DEF Spec

------------------------------------------------------------------------------
(* What one step can do to one task, whoever takes it.                     *)

Untouched(n) == tasks'[n] = tasks[n] /\ history'[n] = history[n]

Created(n) ==
  /\ tasks[n].status = "none"
  /\ tasks'[n].status = "pending"
  /\ tasks'[n].version = 1
  /\ history'[n] = history[n]

WrittenBy(n, r) ==
  /\ reqs[r] # Idle
  /\ reqs[r].node = n
  /\ reqs[r].task.version = tasks[n].version
  /\ tasks[n].status \in Open
  /\ tasks'[n].version = tasks[n].version + 1
  /\ tasks'[n].status \in Open \cup Decided
  /\ \E row \in HistoryRow :
       /\ history'[n] = Append(history[n], row)
       /\ row.actor = reqs[r].actor
       /\ row.from \in {tasks[n].status, reqs[r].task.status}
       /\ row.to = tasks'[n].status

\* A step leaves a task alone, creates it, or is the write of one request that
\* holds the current version of an open row.
LEMMA TaskStep ==
  ASSUME TypeOK, [Next]_apiVars, NEW n \in Approvals
  PROVE  \/ Untouched(n)
         \/ Created(n)
         \/ \E r \in Requests : WrittenBy(n, r)
<1> USE DEF TypeOK, StoreTypeOK
<1>1. CASE Start
  BY <1>1 DEF Start, CreateInstance, Untouched
<1>2. CASE Cancel
  BY <1>2 DEF Cancel, CancelInstance, Untouched
<1>3. ASSUME NEW m \in Approvals, RuntimeCreateTask(m) PROVE Untouched(n) \/ Created(n)
  <2>1. CASE TaskExists(m) \/ m # n
    BY <1>3, <2>1 DEF RuntimeCreateTask, CreateTask, Untouched
  <2>2. CASE ~TaskExists(m) /\ m = n
    <3>1. tasks' = [tasks EXCEPT ![n].status = "pending", ![n].version = 1]
      BY <1>3, <2>2 DEF RuntimeCreateTask, CreateTask
    <3>2. tasks'[n] = [tasks[n] EXCEPT !.status = "pending", !.version = 1]
      BY <3>1
    <3>3. tasks'[n].status = "pending" /\ tasks'[n].version = 1
      BY <3>2 DEF Task
    <3> QED
      BY <1>3, <2>2, <3>3 DEF RuntimeCreateTask, CreateTask, Created, TaskExists
  <2> QED
    BY <2>1, <2>2
<1>4. ASSUME NEW s \in {"completed", "rejected", "failed"}, RuntimeFinish(s)
      PROVE Untouched(n)
  BY <1>4 DEF RuntimeFinish, FinishInstance, Untouched
<1>5. ASSUME NEW u \in Users, NEW g \in Groups, ChangeGrant(u, g) PROVE Untouched(n)
  BY <1>5 DEF ChangeGrant, storeVars, Untouched
<1>6. ASSUME NEW r \in Requests, NEW u \in Users, NEW m \in Approvals,
             AuthorizedTask(r, u, m)
      PROVE Untouched(n)
  BY <1>6 DEF AuthorizedTask, storeVars, Untouched
<1>7. ASSUME NEW r \in Requests, Claim(r) PROVE Untouched(n) \/ WrittenBy(n, r)
  <2>1. reqs[r] # Idle /\ reqs[r] \in Loaded
    BY <1>7 DEF Claim
  <2>2. CASE reqs[r].node # n
    BY <1>7, <2>2, <2>1 DEF Claim, ClaimTask, Record, Untouched, Loaded
  <2>3. CASE reqs[r].node = n
    <3> DEFINE row == [action |-> "claim", actor |-> reqs[r].actor,
                       from |-> "pending", to |-> "claimed"]
    <3>1. /\ tasks[n].version = reqs[r].task.version
          /\ tasks[n].status = "pending"
          /\ tasks' = [tasks EXCEPT ![n].status = "claimed", ![n].claimedBy = reqs[r].actor,
                                    ![n].version = @ + 1]
          /\ history' = [history EXCEPT ![n] = Append(@, row)]
      BY <1>7, <2>3 DEF Claim, ClaimTask, Record
    <3>2. tasks'[n] = [tasks[n] EXCEPT !.status = "claimed", !.claimedBy = reqs[r].actor,
                                       !.version = tasks[n].version + 1]
      BY <3>1
    <3>3. tasks'[n].status = "claimed" /\ tasks'[n].version = tasks[n].version + 1
      BY <3>2 DEF Task
    <3>4. row \in HistoryRow
      BY <2>1, Statuses DEF HistoryRow, Loaded
    <3>5. history'[n] = Append(history[n], row)
      BY <3>1
    <3> QED
      BY <2>1, <2>3, <3>1, <3>3, <3>4, <3>5 DEF WrittenBy, Open
  <2> QED
    BY <2>2, <2>3
<1>8. ASSUME NEW r \in Requests, NEW d \in Decisions, Complete(r, d)
      PROVE Untouched(n) \/ WrittenBy(n, r)
  <2>1. reqs[r] # Idle /\ reqs[r] \in Loaded
    BY <1>8 DEF Complete
  <2>2. CASE reqs[r].node # n
    BY <1>8, <2>2, <2>1 DEF Complete, CompleteTask, Record, Untouched, Loaded
  <2>3. CASE reqs[r].node = n
    <3> DEFINE row == [action |-> "complete", actor |-> reqs[r].actor,
                       from |-> reqs[r].task.status, to |-> StatusOf(d)]
    <3>1. /\ tasks[n].version = reqs[r].task.version
          /\ tasks[n].status \in Open
          /\ tasks' = [tasks EXCEPT ![n].status = StatusOf(d), ![n].version = @ + 1]
          /\ history' = [history EXCEPT ![n] = Append(@, row)]
      BY <1>8, <2>3 DEF Complete, CompleteTask, Writable, Record
    <3>2. tasks'[n] = [tasks[n] EXCEPT !.status = StatusOf(d),
                                       !.version = tasks[n].version + 1]
      BY <3>1
    <3>3. tasks'[n].status = StatusOf(d) /\ tasks'[n].version = tasks[n].version + 1
      BY <3>2 DEF Task
    <3>4. row \in HistoryRow /\ row.from = reqs[r].task.status /\ row.to = StatusOf(d)
      BY <2>1, Statuses DEF HistoryRow, Loaded, Task
    <3>5. history'[n] = Append(history[n], row)
      BY <3>1
    <3>6. StatusOf(d) \in Decided
      BY DEF StatusOf, Decided
    <3> QED
      BY <2>1, <2>3, <3>1, <3>3, <3>4, <3>5, <3>6 DEF WrittenBy
  <2> QED
    BY <2>2, <2>3
<1>9. ASSUME NEW r \in Requests, NEW u \in Users, Delegate(r, u)
      PROVE Untouched(n) \/ WrittenBy(n, r)
  <2>1. reqs[r] # Idle /\ reqs[r] \in Loaded
    BY <1>9 DEF Delegate
  <2>2. CASE reqs[r].node # n
    BY <1>9, <2>2, <2>1 DEF Delegate, DelegateTask, Record, Untouched, Loaded
  <2>3. CASE reqs[r].node = n
    <3> DEFINE row == [action |-> "delegate", actor |-> reqs[r].actor,
                       from |-> reqs[r].task.status, to |-> "pending"]
    <3>1. /\ tasks[n].version = reqs[r].task.version
          /\ tasks[n].status \in Open
          /\ tasks' = [tasks EXCEPT ![n].assignee = u, ![n].claimedBy = None,
                                    ![n].status = "pending", ![n].version = @ + 1]
          /\ history' = [history EXCEPT ![n] = Append(@, row)]
      BY <1>9, <2>3 DEF Delegate, DelegateTask, Writable, Record
    <3>2. tasks'[n] = [tasks[n] EXCEPT !.assignee = u, !.claimedBy = None,
                                       !.status = "pending",
                                       !.version = tasks[n].version + 1]
      BY <3>1
    <3>3. tasks'[n].status = "pending" /\ tasks'[n].version = tasks[n].version + 1
      BY <3>2 DEF Task
    <3>4. row \in HistoryRow /\ row.from = reqs[r].task.status
      BY <2>1, Statuses DEF HistoryRow, Loaded, Task
    <3>5. history'[n] = Append(history[n], row)
      BY <3>1
    <3> QED
      BY <2>1, <2>3, <3>1, <3>3, <3>4, <3>5 DEF WrittenBy, Open
  <2> QED
    BY <2>2, <2>3
<1>10. ASSUME NEW r \in Requests, ReturnWithoutWrite(r) PROVE Untouched(n)
  BY <1>10 DEF ReturnWithoutWrite, storeVars, Untouched
<1>11. CASE UNCHANGED apiVars
  BY <1>11 DEF apiVars, storeVars, Untouched
<1> QED
  BY <1>1, <1>2, <1>3, <1>4, <1>5, <1>6, <1>7, <1>8, <1>9, <1>10, <1>11 DEF Next

\* A step leaves a request alone, ends it, or lets it read an existing row it is
\* entitled to while no row changes.
LEMMA RequestStep ==
  ASSUME TypeOK, [Next]_apiVars, NEW r \in Requests
  PROVE  \/ reqs'[r] = reqs[r]
         \/ reqs'[r] = Idle
         \/ /\ UNCHANGED tasks
            /\ \E u \in Users, n \in Approvals :
                 /\ reqs'[r] = [phase |-> "loaded", actor |-> u, node |-> n, task |-> tasks[n]]
                 /\ TaskExists(n)
                 /\ tasks[n].claimedBy \in {None, u}
                 /\ tasks[n].assignee \in Users => tasks[n].assignee = u
<1> USE DEF TypeOK
<1>1. ASSUME NEW q \in Requests, Return(q) PROVE reqs'[r] = reqs[r] \/ reqs'[r] = Idle
  BY <1>1 DEF Return
<1>2. ASSUME NEW q \in Requests, NEW u \in Users, NEW n \in Approvals,
             AuthorizedTask(q, u, n), q = r
      PROVE  /\ UNCHANGED tasks
             /\ reqs'[r] = [phase |-> "loaded", actor |-> u, node |-> n, task |-> tasks[n]]
             /\ TaskExists(n)
             /\ tasks[n].claimedBy \in {None, u}
             /\ tasks[n].assignee \in Users => tasks[n].assignee = u
  BY <1>2, StoreConstants DEF AuthorizedTask, Allowed, storeVars
<1>3. ASSUME NEW q \in Requests, NEW u \in Users, NEW n \in Approvals,
             AuthorizedTask(q, u, n), q # r
      PROVE  reqs'[r] = reqs[r]
  BY <1>3 DEF AuthorizedTask
<1>4. ASSUME Start \/ Cancel \/ (\E n \in Approvals : RuntimeCreateTask(n))
               \/ (\E s \in {"completed", "rejected", "failed"} : RuntimeFinish(s))
               \/ (\E u \in Users, g \in Groups : ChangeGrant(u, g))
               \/ UNCHANGED apiVars
      PROVE  reqs'[r] = reqs[r]
  BY <1>4 DEF Start, Cancel, RuntimeCreateTask, RuntimeFinish, ChangeGrant, apiVars
<1>5. ASSUME NEW q \in Requests,
             Claim(q) \/ (\E d \in Decisions : Complete(q, d))
               \/ (\E u \in Users : Delegate(q, u)) \/ ReturnWithoutWrite(q)
      PROVE  Return(q)
  BY <1>5 DEF Claim, Complete, Delegate, ReturnWithoutWrite
<1>6. CASE \E q \in Requests, u \in Users, n \in Approvals : AuthorizedTask(q, u, n)
  <2>1. PICK q \in Requests, u \in Users, n \in Approvals : AuthorizedTask(q, u, n)
    BY <1>6
  <2>2. CASE q # r
    BY <2>1, <2>2, <1>3
  <2>3. CASE q = r
    <3>1. /\ UNCHANGED tasks
          /\ reqs'[r] = [phase |-> "loaded", actor |-> u, node |-> n, task |-> tasks[n]]
          /\ TaskExists(n)
          /\ tasks[n].claimedBy \in {None, u}
          /\ tasks[n].assignee \in Users => tasks[n].assignee = u
      BY <2>1, <2>3, <1>2
    <3> QED
      BY <3>1, Zenon
  <2> QED
    BY <2>2, <2>3
<1>7. CASE \E q \in Requests : Return(q)
  BY <1>7, <1>1
<1>8. \/ UNCHANGED apiVars \/ Start \/ Cancel
      \/ \E n \in Approvals : RuntimeCreateTask(n)
      \/ \E s \in {"completed", "rejected", "failed"} : RuntimeFinish(s)
      \/ \E u \in Users, g \in Groups : ChangeGrant(u, g)
      \/ \E q \in Requests, u \in Users, n \in Approvals : AuthorizedTask(q, u, n)
      \/ \E q \in Requests : Return(q)
  BY <1>5 DEF Next
<1> QED
  BY <1>4, <1>6, <1>7, <1>8

------------------------------------------------------------------------------
(* Optimistic locking and the audit trail.                                 *)

\* Whatever other requests, the runtime or a cancelling user do between the
\* read and the write of a request, a matching version means a matching row.
THEOREM SnapshotsAreSound == Spec => []SnapshotSound
<1>1. Init => SnapshotSound
  BY DEF Init, SnapshotSound
<1>2. TypeOK /\ SnapshotSound /\ [Next]_apiVars => SnapshotSound'
  <2> SUFFICES ASSUME TypeOK, SnapshotSound, [Next]_apiVars,
                      NEW r \in Requests, reqs'[r] # Idle
               PROVE  LET task == reqs'[r].task
                          row  == tasks'[reqs'[r].node]
                      IN /\ row.status # "none"
                         /\ task.version <= row.version
                         /\ task.version = row.version => task = row
                         /\ task.claimedBy \in {None, reqs'[r].actor}
                         /\ task.assignee \in Users => task.assignee = reqs'[r].actor
    BY DEF SnapshotSound, TaskExists
  <2>1. CASE reqs'[r] = reqs[r]
    <3> DEFINE n == reqs[r].node
    <3>1. /\ n \in Approvals
          /\ reqs[r].task.version \in Nat
          /\ tasks[n].version \in Nat
      BY <2>1 DEF TypeOK, StoreTypeOK, Loaded, Task
    <3>2. /\ tasks[n].status # "none"
          /\ reqs[r].task.version <= tasks[n].version
          /\ reqs[r].task.version = tasks[n].version => reqs[r].task = tasks[n]
          /\ reqs[r].task.claimedBy \in {None, reqs[r].actor}
          /\ reqs[r].task.assignee \in Users => reqs[r].task.assignee = reqs[r].actor
      BY <2>1 DEF SnapshotSound, TaskExists
    <3>3. CASE Untouched(n)
      BY <2>1, <3>2, <3>3 DEF Untouched
    <3>4. CASE Created(n)
      BY <3>2, <3>4 DEF Created
    <3>5. CASE \E q \in Requests : WrittenBy(n, q)
      <4>1. /\ tasks'[n].version = tasks[n].version + 1
            /\ tasks'[n].status # "none"
        BY <3>5 DEF WrittenBy, Open, Decided
      <4> QED
        BY <2>1, <3>1, <3>2, <4>1
    <3> QED
      BY <3>1, <3>3, <3>4, <3>5, TaskStep
  <2>2. CASE /\ UNCHANGED tasks
             /\ \E u \in Users, n \in Approvals :
                  /\ reqs'[r] = [phase |-> "loaded", actor |-> u, node |-> n, task |-> tasks[n]]
                  /\ TaskExists(n)
                  /\ tasks[n].claimedBy \in {None, u}
                  /\ tasks[n].assignee \in Users => tasks[n].assignee = u
    <3>1. PICK u \in Users, n \in Approvals :
            /\ reqs'[r] = [phase |-> "loaded", actor |-> u, node |-> n, task |-> tasks[n]]
            /\ TaskExists(n)
            /\ tasks[n].claimedBy \in {None, u}
            /\ tasks[n].assignee \in Users => tasks[n].assignee = u
      BY <2>2
    <3>2. tasks[n].version \in Nat
      BY DEF TypeOK, StoreTypeOK, Task
    <3> QED
      BY <2>2, <3>1, <3>2 DEF TaskExists
  <2> QED
    BY <2>1, <2>2, RequestStep
<1> QED
  BY <1>1, <1>2, TypeCorrect, PTL DEF Spec

\* What Append leaves alone and what it adds.
LEMMA Appended ==
  ASSUME NEW S, NEW s \in Seq(S), NEW x \in S
  PROVE  /\ Len(Append(s, x)) = Len(s) + 1
         /\ Append(s, x) # <<>>
         /\ Append(s, x)[Len(s) + 1] = x
         /\ \A i \in 1 .. Len(s) : Append(s, x)[i] = s[i]
OBVIOUS

\* The audit trail of every task is a gapless chain that ends in the status of
\* the task, for any number of concurrent claims, completions and delegations.
THEOREM HistoryIsChain == Spec => []HistoryChain
<1>1. Init => HistoryChain
  BY DEF Init, StoreInit, HistoryChain, TaskExists
<1>2. TypeOK /\ SnapshotSound /\ HistoryChain /\ [Next]_apiVars => HistoryChain'
  <2> SUFFICES ASSUME TypeOK, SnapshotSound, HistoryChain, [Next]_apiVars,
                      NEW n \in Approvals
               PROVE  IF tasks'[n].status # "none"
                      THEN /\ tasks'[n].version = Len(history'[n]) + 1
                           /\ \A i \in 1 .. Len(history'[n]) :
                                history'[n][i].from =
                                  IF i = 1 THEN "pending" ELSE history'[n][i - 1].to
                           /\ tasks'[n].status = IF history'[n] = <<>> THEN "pending"
                                                 ELSE history'[n][Len(history'[n])].to
                      ELSE history'[n] = <<>>
    BY DEF HistoryChain, TaskExists, LastRow
  <2>1. CASE Untouched(n)
    BY <2>1 DEF Untouched, HistoryChain, TaskExists, LastRow
  <2>2. CASE Created(n)
    BY <2>2 DEF Created, HistoryChain, TaskExists
  <2>3. ASSUME NEW r \in Requests, WrittenBy(n, r)
        PROVE  /\ tasks'[n].status # "none"
               /\ tasks'[n].version = Len(history'[n]) + 1
               /\ \A i \in 1 .. Len(history'[n]) :
                    history'[n][i].from =
                      IF i = 1 THEN "pending" ELSE history'[n][i - 1].to
               /\ history'[n] # <<>>
               /\ tasks'[n].status = history'[n][Len(history'[n])].to
    <3> DEFINE h == history[n]
    <3>1. PICK row \in HistoryRow :
            /\ history'[n] = Append(h, row)
            /\ row.from \in {tasks[n].status, reqs[r].task.status}
            /\ row.to = tasks'[n].status
      BY <2>3 DEF WrittenBy
    <3>2. reqs[r].task = tasks[n]
      BY <2>3 DEF WrittenBy, SnapshotSound
    <3>3. /\ h \in Seq(HistoryRow)
          /\ Len(h) \in Nat
          /\ tasks[n].status # "none"
      BY <2>3 DEF TypeOK, StoreTypeOK, WrittenBy, Open
    <3>4. /\ tasks[n].version = Len(h) + 1
          /\ \A i \in 1 .. Len(h) : h[i].from = IF i = 1 THEN "pending" ELSE h[i - 1].to
          /\ tasks[n].status = IF h = <<>> THEN "pending" ELSE h[Len(h)].to
      BY <3>3 DEF HistoryChain, TaskExists, LastRow
    <3>5. row.from = tasks[n].status
      BY <3>1, <3>2
    <3>6. /\ tasks'[n].version = tasks[n].version + 1
          /\ tasks'[n].status # "none"
      BY <2>3 DEF WrittenBy, Open, Decided
    <3>7. /\ Len(history'[n]) = Len(h) + 1
          /\ history'[n] # <<>>
          /\ history'[n][Len(h) + 1] = row
          /\ \A i \in 1 .. Len(h) : history'[n][i] = h[i]
      <4> HIDE DEF h
      <4> QED
        BY <3>1, <3>3, Appended
    <3>8. ASSUME NEW i \in 1 .. Len(h) + 1
          PROVE  history'[n][i].from = IF i = 1 THEN "pending" ELSE history'[n][i - 1].to
      <4>1. CASE i \in 1 .. Len(h)
        BY <3>3, <3>4, <3>7, <4>1
      <4>2. CASE i = Len(h) + 1 /\ h = <<>>
        BY <3>4, <3>5, <3>7, <4>2
      <4>3. CASE i = Len(h) + 1 /\ h # <<>>
        <5>1. Len(h) \in 1 .. Len(h) /\ i # 1 /\ i - 1 = Len(h)
          BY <3>3, <4>3
        <5> QED
          BY <3>4, <3>5, <3>7, <4>3, <5>1
      <4> QED
        BY <3>3, <4>1, <4>2, <4>3
    <3> QED
      BY <3>1, <3>3, <3>4, <3>6, <3>7, <3>8
  <2> QED
    BY <2>1, <2>2, <2>3, TaskStep
<1> QED
  BY <1>1, <1>2, TypeCorrect, SnapshotsAreSound, PTL DEF Spec

\* A decided task is never written again.
THEOREM DecisionsAreFinal == Spec => DecisionFinal
<1>1. ASSUME TypeOK, [Next]_apiVars, NEW n \in Approvals, tasks[n].status \in Decided
      PROVE  tasks'[n] = tasks[n] /\ history'[n] = history[n]
  <2>1. ~Created(n)
    BY <1>1 DEF Created, Decided
  <2>2. ASSUME NEW r \in Requests PROVE ~WrittenBy(n, r)
    BY <1>1 DEF WrittenBy, Decided, Open
  <2> QED
    BY <1>1, <2>1, <2>2, TaskStep DEF Untouched
<1>2. TypeOK /\ [Next]_apiVars =>
        [\A n \in Approvals : tasks[n].status \in Decided =>
           tasks'[n] = tasks[n] /\ history'[n] = history[n]]_apiVars
  BY <1>1
<1> QED
  BY <1>2, TypeCorrect, PTL DEF Spec, DecisionFinal

\* Whoever changes a task was entitled to the row that is overwritten.
THEOREM ChangesAreEntitled == Spec => ChangedByEntitledUser
<1>1. ASSUME TypeOK, SnapshotSound, [Next]_apiVars, NEW n \in Approvals,
             Len(history'[n]) > Len(history[n])
      PROVE  LET actor == history'[n][Len(history'[n])].actor IN
             /\ tasks[n].claimedBy \in {None, actor}
             /\ tasks[n].assignee \in Users => tasks[n].assignee = actor
  <2>0. history[n] \in Seq(HistoryRow) /\ Len(history[n]) \in Nat
    BY <1>1 DEF TypeOK, StoreTypeOK
  <2>1. ~Untouched(n) /\ ~Created(n)
    BY <1>1, <2>0 DEF Untouched, Created
  <2>2. PICK r \in Requests : WrittenBy(n, r)
    BY <1>1, <2>1, TaskStep
  <2>3. PICK row \in HistoryRow : history'[n] = Append(history[n], row)
                                  /\ row.actor = reqs[r].actor
    BY <2>2 DEF WrittenBy
  <2>4. history'[n][Len(history'[n])] = row
    BY <2>0, <2>3
  <2>5. /\ reqs[r].task = tasks[n]
        /\ reqs[r].task.claimedBy \in {None, reqs[r].actor}
        /\ reqs[r].task.assignee \in Users => reqs[r].task.assignee = reqs[r].actor
    BY <1>1, <2>2 DEF WrittenBy, SnapshotSound
  <2> QED
    BY <2>3, <2>4, <2>5
<1>2. TypeOK /\ SnapshotSound /\ [Next]_apiVars =>
        [\A n \in Approvals : Len(history'[n]) > Len(history[n]) =>
           LET actor == history'[n][Len(history'[n])].actor IN
           /\ tasks[n].claimedBy \in {None, actor}
           /\ tasks[n].assignee \in Users => tasks[n].assignee = actor]_apiVars
  BY <1>1
<1> QED
  BY <1>2, TypeCorrect, SnapshotsAreSound, PTL DEF Spec, ChangedByEntitledUser

------------------------------------------------------------------------------
(* The announcement of a decision.                                         *)

Announces(e, n) == e.type = "taskCompleted" /\ e.node = n

\* The decision of n is what it was before the step.
SameDecision(n) ==
  (tasks[n].status \in Decided \/ tasks'[n].status \in Decided) =>
    tasks'[n].status = tasks[n].status

\* Seen from one task, a step writes no event, an event that is not about the
\* decision of this task, or the announcement of the decision it makes.
LEMMA OutboxStep ==
  ASSUME TypeOK, [Next]_apiVars, NEW n \in Approvals
  PROVE  \/ UNCHANGED outbox /\ SameDecision(n)
         \/ \E e \in Event :
              /\ outbox' = Append(outbox, e)
              /\ IF Announces(e, n)
                   THEN /\ tasks[n].status \notin Decided
                        /\ tasks'[n].status \in Decided
                        /\ tasks'[n].status = StatusOf(e.detail)
                   ELSE SameDecision(n)
<1> USE DEF TypeOK, StoreTypeOK
<1> DEFINE Added(type, node, detail) == [type |-> type, node |-> node, detail |-> detail]
<1>1. CASE Start
  <2>1. Added("start", None, "none") \in Event
    BY DEF Event, EventTypes
  <2> QED
    BY <1>1, <2>1 DEF Start, CreateInstance, AddTx, SameDecision, Announces
<1>2. CASE Cancel
  <2>1. Added("cancel", None, "none") \in Event
    BY DEF Event, EventTypes
  <2> QED
    BY <1>2, <2>1 DEF Cancel, CancelInstance, AddTx, SameDecision, Announces
<1>3. ASSUME NEW m \in Approvals, RuntimeCreateTask(m), TaskExists(m)
      PROVE  UNCHANGED outbox /\ SameDecision(n)
  BY <1>3 DEF RuntimeCreateTask, CreateTask, SameDecision
<1>4. ASSUME NEW m \in Approvals, RuntimeCreateTask(m), ~TaskExists(m)
      PROVE  \E e \in Event : /\ outbox' = Append(outbox, e)
                              /\ ~Announces(e, n)
                              /\ SameDecision(n)
  <2>1. Added("taskCreated", m, "none") \in Event
    BY <1>4, StoreConstants DEF Event, EventTypes
  <2>2. outbox' = Append(outbox, Added("taskCreated", m, "none"))
    BY <1>4 DEF RuntimeCreateTask, CreateTask, AddTx
  <2>3. SameDecision(n)
    <3>1. tasks' = [tasks EXCEPT ![m].status = "pending", ![m].version = 1]
      BY <1>4 DEF RuntimeCreateTask, CreateTask
    <3>2. CASE m = n
      <4>1. tasks[n].status = "none"
        BY <1>4, <3>2 DEF TaskExists
      <4>2. tasks'[n] = [tasks[n] EXCEPT !.status = "pending", !.version = 1]
        BY <3>1, <3>2
      <4>3. tasks'[n].status = "pending"
        BY <4>2 DEF Task
      <4> QED
        BY <4>1, <4>3 DEF SameDecision, Decided
    <3>3. CASE m # n
      BY <3>1, <3>3 DEF SameDecision
    <3> QED
      BY <3>2, <3>3
  <2> QED
    BY <2>1, <2>2, <2>3 DEF Announces
<1>5. ASSUME NEW s \in {"completed", "rejected", "failed"}, RuntimeFinish(s)
      PROVE  \/ UNCHANGED outbox /\ SameDecision(n)
             \/ \E e \in Event : /\ outbox' = Append(outbox, e)
                                 /\ ~Announces(e, n)
                                 /\ SameDecision(n)
  <2>1. Added("statusChanged", None, s) \in Event
    BY <1>5, Statuses DEF Event, EventTypes
  <2>2. SameDecision(n)
    BY <1>5 DEF RuntimeFinish, FinishInstance, SameDecision
  <2>3. UNCHANGED outbox \/ outbox' = Append(outbox, Added("statusChanged", None, s))
    BY <1>5 DEF RuntimeFinish, FinishInstance, AddTx
  <2> QED
    BY <2>1, <2>2, <2>3 DEF Announces
<1>6. ASSUME \/ \E u \in Users, g \in Groups : ChangeGrant(u, g)
             \/ \E r \in Requests, u \in Users, m \in Approvals : AuthorizedTask(r, u, m)
             \/ \E r \in Requests : ReturnWithoutWrite(r)
             \/ UNCHANGED apiVars
      PROVE  UNCHANGED outbox /\ SameDecision(n)
  BY <1>6 DEF ChangeGrant, AuthorizedTask, ReturnWithoutWrite, apiVars, storeVars, SameDecision
<1>7. ASSUME NEW r \in Requests, Claim(r)
      PROVE  UNCHANGED outbox /\ SameDecision(n)
  <2>1. reqs[r].node \in Approvals
    BY <1>7 DEF Claim, Loaded
  <2>2. CASE reqs[r].node # n
    BY <1>7, <2>1, <2>2 DEF Claim, ClaimTask, SameDecision
  <2>3. CASE reqs[r].node = n
    <3>1. tasks'[n] = [tasks[n] EXCEPT !.status = "claimed", !.claimedBy = reqs[r].actor,
                                       !.version = tasks[n].version + 1]
      BY <1>7, <2>1, <2>3 DEF Claim, ClaimTask
    <3>2. tasks'[n].status = "claimed"
      BY <3>1 DEF Task
    <3> QED
      BY <1>7, <2>3, <3>2 DEF Claim, ClaimTask, SameDecision, Decided
  <2> QED
    BY <2>2, <2>3
<1>8. ASSUME NEW r \in Requests, NEW d \in Decisions, Complete(r, d)
      PROVE  \E e \in Event :
               /\ outbox' = Append(outbox, e)
               /\ IF Announces(e, n)
                    THEN /\ tasks[n].status \notin Decided
                         /\ tasks'[n].status \in Decided
                         /\ tasks'[n].status = StatusOf(e.detail)
                    ELSE SameDecision(n)
  <2> DEFINE e == Added("taskCompleted", reqs[r].node, d)
  <2>1. reqs[r].node \in Approvals
    BY <1>8 DEF Complete, Loaded
  <2>2. e \in Event /\ e.type = "taskCompleted" /\ e.node = reqs[r].node /\ e.detail = d
    BY <2>1, StoreConstants DEF Event, EventTypes
  <2>3. outbox' = Append(outbox, e)
    BY <1>8 DEF Complete, CompleteTask, AddTx
  <2>4. CASE reqs[r].node # n
    <3>1. SameDecision(n)
      BY <1>8, <2>1, <2>4 DEF Complete, CompleteTask, SameDecision
    <3> HIDE DEF e
    <3> QED
      BY <2>2, <2>3, <2>4, <3>1 DEF Announces
  <2>5. CASE reqs[r].node = n
    <3>1. tasks'[n] = [tasks[n] EXCEPT !.status = StatusOf(d),
                                       !.version = tasks[n].version + 1]
      BY <1>8, <2>1, <2>5 DEF Complete, CompleteTask
    <3>2. tasks'[n].status = StatusOf(d)
      BY <3>1 DEF Task
    <3>3. StatusOf(d) \in Decided /\ tasks[n].status \notin Decided
      BY <1>8, <2>5 DEF Complete, CompleteTask, Writable, StatusOf, Open, Decided
    <3>4. Announces(e, n) /\ tasks'[n].status = StatusOf(e.detail)
      BY <2>2, <2>5, <3>2 DEF Announces
    <3>5. tasks'[n].status \in Decided
      BY <3>2, <3>3
    <3> HIDE DEF e
    <3> QED
      BY <2>2, <2>3, <3>3, <3>4, <3>5
  <2> QED
    BY <2>4, <2>5
<1>9. ASSUME NEW r \in Requests, NEW u \in Users, Delegate(r, u)
      PROVE  UNCHANGED outbox /\ SameDecision(n)
  <2>1. reqs[r].node \in Approvals
    BY <1>9 DEF Delegate, Loaded
  <2>2. CASE reqs[r].node # n
    BY <1>9, <2>1, <2>2 DEF Delegate, DelegateTask, SameDecision
  <2>3. CASE reqs[r].node = n
    <3>1. tasks'[n] = [tasks[n] EXCEPT !.assignee = u, !.claimedBy = None,
                                       !.status = "pending",
                                       !.version = tasks[n].version + 1]
      BY <1>9, <2>1, <2>3 DEF Delegate, DelegateTask
    <3>2. tasks'[n].status = "pending" /\ tasks[n].status \notin Decided
      BY <1>9, <2>3, <3>1 DEF Delegate, DelegateTask, Writable, Task, Open, Decided
    <3> QED
      BY <1>9, <3>2 DEF Delegate, DelegateTask, SameDecision, Decided
  <2> QED
    BY <2>2, <2>3
<1> QED
  BY <1>1, <1>2, <1>3, <1>4, <1>5, <1>6, <1>7, <1>8, <1>9 DEF Next

\* Each decision is announced exactly once and as it was recorded.
THEOREM DecisionsAnnounced == Spec => []DecisionAnnouncedOnce
<1> DEFINE Idx(n) == {i \in 1 .. Len(outbox) :
                        outbox[i].type = "taskCompleted" /\ outbox[i].node = n}
<1>1. Init => DecisionAnnouncedOnce
  BY DEF Init, StoreInit, DecisionAnnouncedOnce, Decided
<1>2. TypeOK /\ DecisionAnnouncedOnce /\ [Next]_apiVars => DecisionAnnouncedOnce'
  <2> SUFFICES ASSUME TypeOK, DecisionAnnouncedOnce, [Next]_apiVars, NEW n \in Approvals
               PROVE  /\ \A i, j \in Idx(n)' : i = j
                      /\ (tasks'[n].status \in Decided) <=> (Idx(n)' # {})
                      /\ \A i \in Idx(n)' : StatusOf(outbox'[i].detail) = tasks'[n].status
    BY DEF DecisionAnnouncedOnce
  <2>1. /\ \A i, j \in Idx(n) : i = j
        /\ (tasks[n].status \in Decided) <=> (Idx(n) # {})
        /\ \A i \in Idx(n) : StatusOf(outbox[i].detail) = tasks[n].status
    BY DEF DecisionAnnouncedOnce
  <2>2. outbox \in Seq(Event) /\ Len(outbox) \in Nat
    BY DEF TypeOK, StoreTypeOK
  <2>3. CASE UNCHANGED outbox /\ SameDecision(n)
    BY <2>1, <2>3 DEF SameDecision
  <2>4. ASSUME NEW e \in Event, outbox' = Append(outbox, e)
        PROVE  /\ \A i \in 1 .. Len(outbox) : outbox'[i] = outbox[i]
               /\ Idx(n)' = IF Announces(e, n) THEN Idx(n) \cup {Len(outbox) + 1}
                                               ELSE Idx(n)
               /\ outbox'[Len(outbox) + 1] = e
    <3>1. /\ Len(outbox') = Len(outbox) + 1
          /\ outbox'[Len(outbox) + 1] = e
          /\ \A i \in 1 .. Len(outbox) : outbox'[i] = outbox[i]
      BY <2>2, <2>4, Appended
    <3> QED
      BY <2>2, <3>1 DEF Announces
  <2>5. ASSUME NEW e \in Event, outbox' = Append(outbox, e), Announces(e, n),
               tasks[n].status \notin Decided, tasks'[n].status \in Decided,
               tasks'[n].status = StatusOf(e.detail)
        PROVE  /\ \A i, j \in Idx(n)' : i = j
               /\ (tasks'[n].status \in Decided) <=> (Idx(n)' # {})
               /\ \A i \in Idx(n)' : StatusOf(outbox'[i].detail) = tasks'[n].status
    <3>1. Idx(n) = {}
      BY <2>1, <2>5
    <3>2. Idx(n)' = {Len(outbox) + 1} /\ outbox'[Len(outbox) + 1] = e
      BY <2>4, <2>5, <3>1
    <3> HIDE DEF Idx
    <3> QED
      BY <2>5, <3>2
  <2>6. ASSUME NEW e \in Event, outbox' = Append(outbox, e), ~Announces(e, n),
               SameDecision(n)
        PROVE  /\ \A i, j \in Idx(n)' : i = j
               /\ (tasks'[n].status \in Decided) <=> (Idx(n)' # {})
               /\ \A i \in Idx(n)' : StatusOf(outbox'[i].detail) = tasks'[n].status
    <3>1. /\ Idx(n)' = Idx(n)
          /\ \A i \in Idx(n) : outbox'[i] = outbox[i]
      BY <2>4, <2>6
    <3> HIDE DEF Idx
    <3> QED
      BY <2>1, <2>6, <3>1 DEF SameDecision
  <2> QED
    BY <2>3, <2>5, <2>6, OutboxStep
<1> QED
  BY <1>1, <1>2, TypeCorrect, PTL DEF Spec
==============================================================================
