------------------------------ MODULE Retention ------------------------------
(***************************************************************************)
(* The cleaner of the task history (workflow/cleanup.go), one per replica, *)
(* against the writers of history rows and of instance ends.               *)
(*                                                                         *)
(* A batch is two statements: the ids of the oldest rows whose instance    *)
(* ended before the cutoff are selected, then these ids are deleted.       *)
(* Clocks of replicas are taken to agree with the one that stamps rows.    *)
(***************************************************************************)
EXTENDS Integers, FiniteSets

CONSTANTS
  Rows,                 \* history rows that may be written
  Instances,
  instanceOf,           \* workflow_task_history.instance_id
  Cleaners,             \* replicas
  TaskHistoryRetention, \* retention.task_history as configured, may be <= 0
  DefaultRetention,     \* 365 days
  CleanupBatchSize, DefaultBatchSize,
  Ends,                 \* the ends instances come to
  MaxClock,             \* bound on time
  MaxFaults             \* bound on failing statements

ASSUME InstanceOfAssumption == instanceOf \in [Rows -> Instances]
ASSUME EndsAssumption == Ends \subseteq {"completed", "rejected", "cancelled", "failed"}
ASSUME RetentionAssumption ==
  /\ TaskHistoryRetention \in Int /\ DefaultRetention \in Nat \ {0}
  /\ CleanupBatchSize \in Int /\ DefaultBatchSize \in Nat \ {0}
  /\ MaxClock \in Nat /\ MaxFaults \in Nat

VARIABLES
  clock,
  created,   \* created_at of the rows written so far
  removed,   \* rows that were deleted
  status,    \* instance status
  finished,  \* finished_at
  pc,        \* of the goroutine of each cleaner
  batch,     \* the ids its select returned
  ticked,    \* its ticker has a tick waiting
  cancelled, \* stop has cancelled its context
  returned,  \* stop has returned
  faults

table == <<created, removed>>
ends == <<status, finished>>
control == <<ticked, cancelled, returned>>
vars == <<clock, table, ends, pc, batch, control, faults>>

Unwritten == -1
Terminal == {"completed", "rejected", "cancelled", "failed"}

(* -- Configuration ------------------------------------------------------- *)

\* Mutant: a retention of zero is taken as it is.
ConfiguredRetention == TaskHistoryRetention

retention == IF TaskHistoryRetention <= 0 THEN DefaultRetention ELSE TaskHistoryRetention

batchSize == IF CleanupBatchSize <= 0 THEN DefaultBatchSize ELSE CleanupBatchSize

(* -- The statements of DeleteTaskHistoryBefore ---------------------------- *)

Present == {r \in Rows : created[r] # Unwritten /\ r \notin removed}

EndedBefore(i, before) == status[i] \in Terminal /\ finished[i] < before

Expired(before) == {r \in Present : EndedBefore(instanceOf[r], before)}

\* Mutant: no ORDER BY.
AnyBatch(before) ==
  {b \in SUBSET Expired(before) : Cardinality(b) <= batchSize /\ (b = {} => Expired(before) = {})}

\* ORDER BY created_at, id LIMIT batchSize; ids are random, so that rows of
\* one moment come in any order.
OldestBatch(before) ==
  {b \in SUBSET Expired(before) :
     /\ Cardinality(b) <= batchSize
     /\ b = Expired(before) \/ Cardinality(b) = batchSize
     /\ \A x \in b : \A y \in Expired(before) \ b : created[x] <= created[y]}

(* -- The cleaner ------------------------------------------------------------ *)

Goto(c, label) == pc' = [pc EXCEPT ![c] = label]

start(c) ==
  /\ pc[c] = "off" /\ ~cancelled[c]
  /\ Goto(c, "clean")
  /\ UNCHANGED <<clock, table, ends, batch, control, faults>>

Select(c) ==
  /\ pc[c] = "clean" /\ ~cancelled[c]
  /\ \E b \in OldestBatch(clock - retention) :
       /\ batch' = [batch EXCEPT ![c] = b]
       /\ Goto(c, IF b = {} THEN "idle" ELSE "delete")
  /\ UNCHANGED <<clock, table, ends, control, faults>>

\* RowsAffected counts what is still there.
Deleted(c) == batch[c] \ removed

\* Mutant: the goroutine ends with a batch that is not full.
AfterBatchEnds(c) == IF Cardinality(Deleted(c)) < batchSize THEN "ended" ELSE "clean"

AfterBatch(c) == IF Cardinality(Deleted(c)) < batchSize THEN "idle" ELSE "clean"

Delete(c) ==
  /\ pc[c] = "delete" /\ ~cancelled[c]
  /\ removed' = removed \cup batch[c]
  /\ Goto(c, AfterBatch(c))
  /\ batch' = [batch EXCEPT ![c] = {}]
  /\ UNCHANGED <<clock, created, ends, control, faults>>

\* A statement fails, by itself or with the cancelled context; a delete may
\* have been carried out all the same.
StatementFails(c) ==
  /\ pc[c] \in {"clean", "delete"}
  /\ cancelled[c] \/ faults < MaxFaults
  /\ faults' = IF cancelled[c] THEN faults ELSE faults + 1
  /\ removed' \in {removed, removed \cup batch[c]}
  /\ batch' = [batch EXCEPT ![c] = {}]
  /\ Goto(c, "idle")
  /\ UNCHANGED <<clock, created, ends, control>>

TickerFires(c) ==
  /\ pc[c] \notin {"off", "ended"} /\ ~ticked[c]
  /\ ticked' = [ticked EXCEPT ![c] = TRUE]
  /\ UNCHANGED <<clock, table, ends, pc, batch, cancelled, returned, faults>>

\* The select at the end of the loop: with both channels ready either wins.
NextRound(c) ==
  /\ pc[c] = "idle" /\ ticked[c]
  /\ ticked' = [ticked EXCEPT ![c] = FALSE]
  /\ Goto(c, "clean")
  /\ UNCHANGED <<clock, table, ends, batch, cancelled, returned, faults>>

End(c) ==
  /\ pc[c] = "idle" /\ cancelled[c]
  /\ Goto(c, "ended")
  /\ UNCHANGED <<clock, table, ends, batch, control, faults>>

\* stop cancels; without a started goroutine it returns at once.
stop(c) ==
  /\ ~cancelled[c]
  /\ cancelled' = [cancelled EXCEPT ![c] = TRUE]
  /\ returned' = [returned EXCEPT ![c] = pc[c] = "off"]
  /\ UNCHANGED <<clock, table, ends, pc, batch, ticked, faults>>

StopReturns(c) ==
  /\ cancelled[c] /\ ~returned[c] /\ pc[c] = "ended"
  /\ returned' = [returned EXCEPT ![c] = TRUE]
  /\ UNCHANGED <<clock, table, ends, pc, batch, ticked, cancelled, faults>>

(* -- The rest of the service ------------------------------------------------- *)

\* Claim, complete and delegate do not look at the instance: a task left open
\* by an instance that ended can still gain rows.
WriteRow(r) ==
  /\ created[r] = Unwritten
  /\ created' = [created EXCEPT ![r] = clock]
  /\ UNCHANGED <<clock, removed, ends, pc, batch, control, faults>>

FinishInstance(i, end) ==
  /\ status[i] = "running"
  /\ status' = [status EXCEPT ![i] = end]
  /\ finished' = [finished EXCEPT ![i] = clock]
  /\ UNCHANGED <<clock, table, pc, batch, control, faults>>

Advance ==
  /\ clock < MaxClock
  /\ clock' = clock + 1
  /\ UNCHANGED <<table, ends, pc, batch, control, faults>>

(* -- The specification --------------------------------------------------------- *)

Init ==
  /\ clock = 0
  /\ created = [r \in Rows |-> Unwritten] /\ removed = {}
  /\ status = [i \in Instances |-> "running"] /\ finished = [i \in Instances |-> 0]
  /\ pc = [c \in Cleaners |-> "off"] /\ batch = [c \in Cleaners |-> {}]
  /\ ticked = [c \in Cleaners |-> FALSE]
  /\ cancelled = [c \in Cleaners |-> FALSE] /\ returned = [c \in Cleaners |-> FALSE]
  /\ faults = 0

Run(c) == Select(c) \/ Delete(c) \/ StatementFails(c) \/ NextRound(c) \/ End(c)

Next ==
  \/ \E c \in Cleaners : start(c) \/ Run(c) \/ TickerFires(c) \/ stop(c) \/ StopReturns(c)
  \/ \E r \in Rows : WriteRow(r)
  \/ \E i \in Instances, end \in Ends : FinishInstance(i, end)
  \/ Advance

Spec == Init /\ [][Next]_vars

\* The goroutine runs and its ticker fires; a select that finds the cancelled
\* context ready again and again takes it at last; the lifecycle waits.
FairSpec ==
  /\ Spec
  /\ \A c \in Cleaners : /\ WF_vars(Run(c)) /\ SF_vars(End(c))
                         /\ WF_vars(TickerFires(c)) /\ WF_vars(StopReturns(c))

(* -- Properties ------------------------------------------------------------------ *)

\* Types of the rows, the instances and the cleaners.
TypeOK ==
  /\ clock \in Nat /\ faults \in Nat
  /\ created \in [Rows -> Nat \cup {Unwritten}] /\ removed \in SUBSET Rows
  /\ status \in [Instances -> Terminal \cup {"running"}] /\ finished \in [Instances -> Nat]
  /\ pc \in [Cleaners -> {"off", "clean", "delete", "idle", "ended"}]
  /\ batch \in [Cleaners -> SUBSET Rows]
  /\ ticked \in [Cleaners -> BOOLEAN] /\ cancelled \in [Cleaners -> BOOLEAN]
  /\ returned \in [Cleaners -> BOOLEAN]

MinimumAge == IF TaskHistoryRetention > 0 THEN TaskHistoryRetention ELSE DefaultRetention

\* DeleteTaskHistoryBefore (repository.go:49-64) deletes ids it selected in an
\* earlier statement: still, a row is gone only if its instance ended and ended
\* longer ago than the retention, which is never zero (README: 365 days).
OnlyExpiredRemoved ==
  \A r \in removed : /\ status[instanceOf[r]] \in Terminal
                     /\ finished[instanceOf[r]] + MinimumAge < clock

\* ORDER BY created_at (repository.go:51): whatever replicas clean at the same
\* time, what is left of an instance's trail is its latest part.
TrailLosesOldestFirst ==
  \A d \in removed, r \in Present :
    instanceOf[d] = instanceOf[r] => created[d] <= created[r]

\* clean (cleanup.go:63-76): every row that has expired is deleted in the end,
\* whoever deletes a full batch first and whatever statement fails, as long as
\* some replica's cleaner was started and is not stopped.
ExpiredEventuallyRemoved ==
  \A r \in Rows :
    (r \in Expired(clock - retention) /\ \E c \in Cleaners : pc[c] # "off" /\ ~cancelled[c])
      ~> (r \in removed \/ \A c \in Cleaners : pc[c] = "off" \/ cancelled[c])
=============================================================================
