------------------------------- MODULE TaskApi -------------------------------
(***************************************************************************)
(* The human-task half of internal/workflow/service.go: claim, complete    *)
(* and delegate.  A request first reads the task row and is authorised     *)
(* against what it read (authorizedTask), then, in a second step, issues   *)
(* one guarded UPDATE.  Any number of other requests, the workflow runtime *)
(* and a cancelling user may write between the two steps.                  *)
(***************************************************************************)
EXTENDS WorkflowStore

CONSTANTS
  Requests,    \* concurrent API requests
  MaxVersion   \* bound on the version a claim or a delegation may produce

ASSUME ApiConstants == MaxVersion \in Nat

VARIABLES
  reqs,    \* what every request has read and not yet written back
  grants   \* external: which users the authorization service puts in a group

apiVars == <<storeVars, reqs, grants>>

Idle == [phase |-> "idle"]

Loaded == [phase : {"loaded"}, actor : Users, node : Approvals, task : Task]

TypeOK ==
  /\ StoreTypeOK
  /\ reqs \in [Requests -> {Idle} \cup Loaded]
  /\ grants \subseteq Users \X Groups

Init ==
  /\ StoreInit
  /\ reqs = [r \in Requests |-> Idle]
  /\ grants = {}

------------------------------------------------------------------------------
(* Requests.                                                               *)

\* user and starter assignees are compared with the actor, role and
\* expression assignees are asked of the authorization service.
Allowed(u, task) ==
  IF task.assignee \in Groups THEN <<u, task.assignee>> \in grants
                              ELSE task.assignee = u

\* The request keeps the row it was authorised on.  A request whose expected
\* version is not the version of that row returns here, so the version below
\* is the expected version of every request that goes on.
AuthorizedTask(r, u, n) ==
  /\ reqs[r] = Idle
  /\ TaskExists(n)
  /\ tasks[n].claimedBy \in {None, u}
  /\ Allowed(u, tasks[n])
  /\ reqs' = [reqs EXCEPT ![r] =
               [phase |-> "loaded", actor |-> u, node |-> n, task |-> tasks[n]]]
  /\ UNCHANGED <<storeVars, grants>>

Return(r) == reqs' = [reqs EXCEPT ![r] = Idle] /\ UNCHANGED grants

Claim(r) ==
  /\ reqs[r] # Idle
  /\ reqs[r].task.version < MaxVersion
  /\ ClaimTask(reqs[r].node, reqs[r].task.version, reqs[r].actor)
  /\ Return(r)

Complete(r, decision) ==
  /\ reqs[r] # Idle
  /\ CompleteTask(reqs[r].node, reqs[r].task, decision, reqs[r].actor)
  /\ Return(r)

\* The code compares the actor with the name as it was sent and stores it
\* trimmed, so a padded name of the actor passes: any user may result.
Delegate(r, delegateTo) ==
  /\ reqs[r] # Idle
  /\ reqs[r].task.version < MaxVersion
  /\ DelegateTask(reqs[r].node, reqs[r].task, delegateTo, reqs[r].actor)
  /\ Return(r)

\* GetTask, a write that matches no row (ErrVersionConflict), a failed
\* transaction and a client that gives up all leave the rows alone.
ReturnWithoutWrite(r) ==
  /\ reqs[r] # Idle
  /\ Return(r)
  /\ UNCHANGED storeVars

------------------------------------------------------------------------------
(* The other writers: the start and cancel requests and the activities of  *)
(* the runtime, in any order their own guards allow.                       *)

Start  == CreateInstance /\ UNCHANGED <<reqs, grants>>
Cancel == CancelInstance(inst.version) /\ UNCHANGED <<reqs, grants>>

RuntimeCreateTask(n) == CreateTask(n) /\ UNCHANGED <<reqs, grants>>

RuntimeFinish(status) ==
  /\ status \in {"completed", "rejected", "failed"}
  /\ inst.status # "none"
  /\ FinishInstance(status)
  /\ UNCHANGED <<reqs, grants>>

\* Role bindings and policies change at any time, and are asked only once
\* per request.
ChangeGrant(u, g) ==
  /\ grants' = IF <<u, g>> \in grants THEN grants \ {<<u, g>>}
                                      ELSE grants \cup {<<u, g>>}
  /\ UNCHANGED <<storeVars, reqs>>

Next ==
  \/ Start \/ Cancel
  \/ \E n \in Approvals : RuntimeCreateTask(n)
  \/ \E s \in {"completed", "rejected", "failed"} : RuntimeFinish(s)
  \/ \E u \in Users, g \in Groups : ChangeGrant(u, g)
  \/ \E r \in Requests :
       \/ \E u \in Users, n \in Approvals : AuthorizedTask(r, u, n)
       \/ Claim(r)
       \/ \E d \in Decisions : Complete(r, d)
       \/ \E u \in Users : Delegate(r, u)
       \/ ReturnWithoutWrite(r)

Spec == Init /\ [][Next]_apiVars

------------------------------------------------------------------------------
(* Properties.                                                             *)

LastRow(n) == history[n][Len(history[n])]

\* Optimistic locking is sound: a request whose version is still the version of
\* the row has read that very row, and the user it acts for was entitled to
\* it.  complete and delegate rely on this when they write from_status from
\* the row they read, and claim when it checks no claim and no assignee at all
\* (repository.go:486, 531 and 568).
SnapshotSound ==
  \A r \in Requests : reqs[r] # Idle =>
    LET task == reqs[r].task
        row  == tasks[reqs[r].node]
    IN /\ TaskExists(reqs[r].node)
       /\ task.version <= row.version
       /\ task.version = row.version => task = row
       /\ task.claimedBy \in {None, reqs[r].actor}
       /\ task.assignee \in Users => task.assignee = reqs[r].actor

\* The audit trail of a task is a chain: it starts from pending, every row
\* starts from the status the row before it ended in, the last row ends in
\* the status of the task, and the version counts the rows.  complete and
\* delegate write from_status from the row they read, so a write that is not
\* tied to that very version breaks the chain (repository.go:540 and 574).
HistoryChain ==
  \A n \in Approvals :
    IF TaskExists(n)
    THEN /\ tasks[n].version = Len(history[n]) + 1
         /\ \A i \in 1 .. Len(history[n]) :
              history[n][i].from = IF i = 1 THEN "pending" ELSE history[n][i - 1].to
         /\ tasks[n].status = IF history[n] = <<>> THEN "pending" ELSE LastRow(n).to
    ELSE history[n] = <<>>

\* A decision is announced once and truthfully: the outbox holds exactly one
\* taskCompleted event for a decided task, with the decision of the row, and
\* none for a task that is still open (repository.go:531-553).
DecisionAnnouncedOnce ==
  \A n \in Approvals :
    LET announced == {i \in 1 .. Len(outbox) :
                        outbox[i].type = "taskCompleted" /\ outbox[i].node = n}
    IN /\ \A i, j \in announced : i = j
       /\ (tasks[n].status \in Decided) <=> (announced # {})
       /\ \A i \in announced : StatusOf(outbox[i].detail) = tasks[n].status

\* Once a task is decided no later claim, completion, delegation, cancellation
\* or retried creation changes its row or its history (repository.go:486, 531
\* and 568 against a request that read the task before or after the decision).
DecisionFinal ==
  [][\A n \in Approvals : tasks[n].status \in Decided =>
       tasks'[n] = tasks[n] /\ history'[n] = history[n]]_apiVars

\* Whoever changes a claimed task is the user who claimed it, and whoever
\* changes a task assigned to a user is that user, judged on the row that is
\* overwritten and not on the row the request was authorised on
\* (service.go:412-437 runs outside the transaction of the write).
ChangedByEntitledUser ==
  [][\A n \in Approvals : Len(history'[n]) > Len(history[n]) =>
       LET actor == history'[n][Len(history'[n])].actor IN
       /\ tasks[n].claimedBy \in {None, actor}
       /\ tasks[n].assignee \in Users => tasks[n].assignee = actor]_apiVars
==============================================================================
