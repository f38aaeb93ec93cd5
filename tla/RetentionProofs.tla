---------------------------- MODULE RetentionProofs ----------------------------
(***************************************************************************)
(* What the retention cleaner may delete, for any rows, instances, number  *)
(* of replicas, retention and batch size.                                  *)
(***************************************************************************)
EXTENDS Retention, TLAPS

\* Rows are stamped with a time that has come, and those that were selected or
\* deleted had been written.
StampsPast ==
  /\ \A r \in Rows : created[r] <= clock
  /\ \A r \in removed : created[r] # Unwritten
  /\ \A c \in Cleaners : \A r \in batch[c] : created[r] # Unwritten

\* Between the two statements of a batch: the instance of every selected row
\* has been over for longer than the retention ...
BatchExpired ==
  \A c \in Cleaners : \A r \in batch[c] :
    status[instanceOf[r]] \in Terminal /\ finished[instanceOf[r]] + MinimumAge < clock

\* ... and no row that stays is older than a selected one of its instance.
BatchOldest ==
  \A c \in Cleaners : \A d \in batch[c] : \A r \in Present \ batch[c] :
    instanceOf[d] = instanceOf[r] => created[d] <= created[r]

\* The invariant beside the types.
Rest ==
  StampsPast /\ BatchExpired /\ BatchOldest /\ OnlyExpiredRemoved /\ TrailLosesOldestFirst

RetentionInv == TypeOK /\ Rest

\* The configured retention is used unless it is not positive.
LEMMA RetentionValue == retention = MinimumAge /\ retention \in Nat \ {0}
BY RetentionAssumption DEF retention, MinimumAge

LEMMA RetentionInit == Init => RetentionInv
<1> SUFFICES ASSUME Init PROVE RetentionInv
  OBVIOUS
<1>1. TypeOK
  BY DEF Init, TypeOK, Unwritten
<1>2. StampsPast /\ BatchExpired /\ BatchOldest /\ OnlyExpiredRemoved /\ TrailLosesOldestFirst
  BY DEF Init, StampsPast, BatchExpired, BatchOldest, OnlyExpiredRemoved, TrailLosesOldestFirst, Unwritten
<1> QED BY <1>1, <1>2 DEF RetentionInv, Rest

LEMMA TypeStep ==
  ASSUME TypeOK, [Next]_vars
  PROVE  TypeOK'
<1> USE DEF TypeOK
<1>1. ASSUME NEW c \in Cleaners, start(c) \/ TickerFires(c) \/ stop(c) \/ StopReturns(c)
      PROVE TypeOK'
  BY <1>1 DEF start, TickerFires, stop, StopReturns, Goto, table, ends, control
<1>2. ASSUME NEW c \in Cleaners, Select(c) PROVE TypeOK'
  BY <1>2 DEF Select, OldestBatch, Expired, Present, Goto, table, ends, control
<1>3. ASSUME NEW c \in Cleaners, Delete(c) PROVE TypeOK'
  <2>1. AfterBatch(c) \in {"idle", "clean"}
    BY DEF AfterBatch
  <2> QED BY <1>3, <2>1 DEF Delete, Goto, ends, control
<1>4. ASSUME NEW c \in Cleaners, StatementFails(c) PROVE TypeOK'
  BY <1>4 DEF StatementFails, Goto, ends, control
<1>5. ASSUME NEW c \in Cleaners, NextRound(c) \/ End(c) PROVE TypeOK'
  BY <1>5 DEF NextRound, End, Goto, table, ends, control
<1>6. ASSUME NEW r \in Rows, WriteRow(r) PROVE TypeOK'
  BY <1>6 DEF WriteRow, ends, control
<1>7. ASSUME NEW i \in Instances, NEW end \in Ends, FinishInstance(i, end) PROVE TypeOK'
  BY <1>7, EndsAssumption DEF FinishInstance, Terminal, table, control
<1>8. CASE Advance
  BY <1>8 DEF Advance, table, ends, control
<1>9. CASE UNCHANGED vars
  BY <1>9 DEF vars, table, ends, control
<1> QED BY <1>1, <1>2, <1>3, <1>4, <1>5, <1>6, <1>7, <1>8, <1>9 DEF Next, Run

\* A step that touches neither rows, instances, time nor batches.
LEMMA QuietStep ==
  ASSUME RetentionInv, UNCHANGED <<clock, table, ends, batch>>
  PROVE  Rest'
BY DEF RetentionInv, Rest, StampsPast, BatchExpired, BatchOldest, OnlyExpiredRemoved, TrailLosesOldestFirst,
       Present, table, ends

\* Deleting what a select returned, whatever happened since.
LEMMA DeletedBatch ==
  ASSUME RetentionInv, NEW c \in Cleaners,
         UNCHANGED <<clock, created, ends>>,
         batch' = [batch EXCEPT ![c] = {}],
         removed' \in {removed, removed \cup batch[c]}
  PROVE  Rest'
<1> USE DEF RetentionInv, Rest
<1>2. \A d \in Cleaners : batch'[d] = IF d = c THEN {} ELSE batch[d]
  BY DEF TypeOK
<1>1. StampsPast'
  BY <1>2 DEF StampsPast
<1>3. BatchExpired'
  BY <1>2 DEF BatchExpired, ends
<1>4. Present' \subseteq Present
  BY DEF Present
<1>5. BatchOldest'
  BY <1>2, <1>4 DEF BatchOldest
<1>6. OnlyExpiredRemoved'
  BY DEF OnlyExpiredRemoved, BatchExpired, ends
<1>7. TrailLosesOldestFirst'
  <2> SUFFICES ASSUME NEW d \in removed', NEW r \in Present', instanceOf[d] = instanceOf[r]
               PROVE  created[d] <= created[r]
    BY DEF TrailLosesOldestFirst
  <2>1. CASE d \in removed
    BY <2>1, <1>4 DEF TrailLosesOldestFirst
  <2>2. CASE d \notin removed
    <3>1. d \in batch[c] /\ removed' = removed \cup batch[c]
      BY <2>2
    <3>2. r \in Present \ batch[c]
      BY <3>1, <1>4 DEF Present
    <3> QED BY <3>1, <3>2 DEF BatchOldest
  <2> QED BY <2>1, <2>2
<1> QED BY <1>1, <1>3, <1>5, <1>6, <1>7

LEMMA SelectedBatch ==
  ASSUME RetentionInv, NEW c \in Cleaners, Select(c)
  PROVE  Rest'
<1> USE DEF RetentionInv, Rest
<1>1. PICK b \in OldestBatch(clock - retention) : batch' = [batch EXCEPT ![c] = b]
  BY DEF Select
<1>2. UNCHANGED <<clock, created, removed, status, finished>>
  BY DEF Select, table, ends
<1>3. \A d \in Cleaners : batch'[d] = IF d = c THEN b ELSE batch[d]
  BY <1>1 DEF TypeOK
<1>4. b \subseteq Expired(clock - retention)
  BY DEF OldestBatch
<1>5. BatchExpired'
  <2>1. ASSUME NEW r \in b
        PROVE  status[instanceOf[r]] \in Terminal /\ finished[instanceOf[r]] + MinimumAge < clock
    <3>1. r \in Rows /\ instanceOf[r] \in Instances
      BY <1>4, InstanceOfAssumption DEF Expired, Present
    <3>2. status[instanceOf[r]] \in Terminal /\ finished[instanceOf[r]] < clock - retention
      BY <1>4 DEF Expired, EndedBefore
    <3> QED BY <3>1, <3>2, RetentionValue DEF TypeOK
  <2> QED BY <1>2, <1>3, <2>1 DEF BatchExpired
<1>6. BatchOldest'
  <2>1. ASSUME NEW d \in b, NEW r \in Present \ b, instanceOf[d] = instanceOf[r]
        PROVE  created[d] <= created[r]
    <3>1. r \in Expired(clock - retention)
      BY <1>4, <2>1 DEF Expired
    <3> QED BY <3>1 DEF OldestBatch
  <2>2. Present' = Present
    BY <1>2 DEF Present
  <2> QED BY <1>2, <1>3, <2>1, <2>2 DEF BatchOldest
<1>7. OnlyExpiredRemoved' /\ TrailLosesOldestFirst'
  BY <1>2 DEF OnlyExpiredRemoved, TrailLosesOldestFirst, Present
<1>8. StampsPast'
  BY <1>2, <1>3, <1>4 DEF StampsPast, Expired, Present
<1> QED BY <1>5, <1>6, <1>7, <1>8

\* A new row is the youngest of all.
LEMMA RowWritten ==
  ASSUME RetentionInv, NEW w \in Rows, WriteRow(w)
  PROVE  Rest'
<1> USE DEF RetentionInv, Rest
<1>1. /\ UNCHANGED <<clock, removed, status, finished, batch>>
      /\ created' = [created EXCEPT ![w] = clock] /\ created[w] = Unwritten
  BY DEF WriteRow, ends
<1>2. \A r \in Rows : created'[r] = IF r = w THEN clock ELSE created[r]
  BY <1>1 DEF TypeOK
<1>3. /\ \A d \in removed : d \in Rows /\ d # w
      /\ \A c \in Cleaners : \A d \in batch[c] : d \in Rows /\ d # w
  BY <1>1 DEF StampsPast, TypeOK
<1>4. StampsPast'
  BY <1>1, <1>2, <1>3 DEF StampsPast, TypeOK, Unwritten
<1>5. BatchExpired' /\ OnlyExpiredRemoved'
  BY <1>1 DEF BatchExpired, OnlyExpiredRemoved
<1>6. Present' \subseteq Present \cup {w}
  BY <1>1, <1>2 DEF Present
<1>7. ASSUME NEW d \in Rows, d # w, NEW r \in Present', r \in Present => created[d] <= created[r]
      PROVE  created'[d] <= created'[r]
  <2>1. r \in Rows
    BY DEF Present
  <2>2. CASE r = w
    BY <1>1, <1>2, <1>7, <2>2 DEF StampsPast
  <2>3. CASE r # w
    BY <1>2, <1>6, <1>7, <2>1, <2>3
  <2> QED BY <2>2, <2>3
<1>8. BatchOldest'
  BY <1>1, <1>3, <1>7 DEF BatchOldest
<1>9. TrailLosesOldestFirst'
  BY <1>1, <1>3, <1>7 DEF TrailLosesOldestFirst
<1> QED BY <1>4, <1>5, <1>8, <1>9

\* An instance that ends was running: none of its rows is selected or gone.
LEMMA InstanceFinished ==
  ASSUME RetentionInv, NEW i \in Instances, NEW end \in Ends, FinishInstance(i, end)
  PROVE  Rest'
<1> USE DEF RetentionInv, Rest
<1>1. /\ UNCHANGED <<clock, created, removed, batch>>
      /\ status[i] = "running"
      /\ \A j \in Instances \ {i} : status'[j] = status[j] /\ finished'[j] = finished[j]
  BY DEF FinishInstance, table, TypeOK
<1>2. \A j \in Instances : status[j] \in Terminal => status'[j] = status[j] /\ finished'[j] = finished[j]
  BY <1>1 DEF Terminal
<1>3. \A r \in Rows : instanceOf[r] \in Instances
  BY InstanceOfAssumption
<1>4. BatchExpired'
  BY <1>1, <1>2, <1>3 DEF BatchExpired, TypeOK
<1>5. OnlyExpiredRemoved'
  BY <1>1, <1>2, <1>3 DEF OnlyExpiredRemoved, TypeOK
<1>6. (StampsPast /\ BatchOldest /\ TrailLosesOldestFirst)'
  BY <1>1 DEF StampsPast, BatchOldest, TrailLosesOldestFirst, Present
<1> QED BY <1>4, <1>5, <1>6

LEMMA ClockAdvances ==
  ASSUME RetentionInv, Advance
  PROVE  Rest'
<1> USE DEF RetentionInv, Rest
<1>1. clock' = clock + 1 /\ UNCHANGED <<created, removed, status, finished, batch>>
  BY DEF Advance, table, ends
<1>2. /\ clock \in Nat /\ MinimumAge \in Nat
      /\ \A r \in Rows : created[r] \in Int /\ finished[instanceOf[r]] \in Nat
      /\ removed \subseteq Rows /\ \A c \in Cleaners : batch[c] \subseteq Rows
  BY RetentionValue, InstanceOfAssumption DEF TypeOK, Unwritten
<1>3. StampsPast'
  BY <1>1, <1>2 DEF StampsPast
<1>4. BatchExpired' /\ OnlyExpiredRemoved'
  BY <1>1, <1>2 DEF BatchExpired, OnlyExpiredRemoved
<1>5. BatchOldest' /\ TrailLosesOldestFirst'
  BY <1>1 DEF BatchOldest, TrailLosesOldestFirst, Present
<1> QED BY <1>3, <1>4, <1>5

LEMMA RetentionStep == RetentionInv /\ [Next]_vars => RetentionInv'
<1> SUFFICES ASSUME RetentionInv, [Next]_vars PROVE RetentionInv'
  OBVIOUS
<1>1. TypeOK'
  BY TypeStep DEF RetentionInv
<1>2. ASSUME NEW c \in Cleaners,
             start(c) \/ TickerFires(c) \/ stop(c) \/ StopReturns(c) \/ NextRound(c) \/ End(c)
      PROVE  Rest'
  <2>1. UNCHANGED <<clock, table, ends, batch>>
    BY <1>2 DEF start, TickerFires, stop, StopReturns, NextRound, End
  <2> QED BY <2>1, QuietStep
<1>3. ASSUME NEW c \in Cleaners, Select(c) PROVE Rest'
  BY <1>3, SelectedBatch
<1>4. ASSUME NEW c \in Cleaners, Delete(c) \/ StatementFails(c) PROVE Rest'
  <2>1. /\ UNCHANGED <<clock, created, ends>> /\ batch' = [batch EXCEPT ![c] = {}]
        /\ removed' \in {removed, removed \cup batch[c]}
    BY <1>4 DEF Delete, StatementFails
  <2> QED BY <2>1, DeletedBatch
<1>5. ASSUME NEW r \in Rows, WriteRow(r) PROVE Rest'
  BY <1>5, RowWritten
<1>6. ASSUME NEW i \in Instances, NEW end \in Ends, FinishInstance(i, end) PROVE Rest'
  BY <1>6, InstanceFinished
<1>7. ASSUME Advance PROVE Rest'
  BY <1>7, ClockAdvances
<1>8. ASSUME UNCHANGED vars PROVE Rest'
  BY <1>8, QuietStep DEF vars
<1>9. Rest'
  BY <1>2, <1>3, <1>4, <1>5, <1>6, <1>7, <1>8 DEF Next, Run
<1> QED BY <1>1, <1>9 DEF RetentionInv

\* A batch between its two statements (DeleteTaskHistoryBefore) holds expired
\* rows only and skips no older row of their instances, on every replica.
THEOREM RetentionInvAlways == Spec => []RetentionInv
BY RetentionInit, RetentionStep, PTL DEF Spec

\* The cleaners stay well typed, with any number of replicas.
THEOREM RetentionTypeCorrect == Spec => []TypeOK
<1>1. RetentionInv => TypeOK
  BY DEF RetentionInv, Rest
<1> QED BY <1>1, RetentionInvAlways, PTL

\* Although ids are selected and deleted in two statements (repository.go:49-64)
\* and replicas do so side by side, nothing is deleted before its time.
THEOREM OnlyExpiredAreRemoved == Spec => []OnlyExpiredRemoved
<1>1. RetentionInv => OnlyExpiredRemoved
  BY DEF RetentionInv, Rest
<1> QED BY <1>1, RetentionInvAlways, PTL

\* Whatever replicas, batch sizes and failing statements: what is left of an
\* instance's trail is its latest part.
THEOREM OldestGoFirst == Spec => []TrailLosesOldestFirst
<1>1. RetentionInv => TrailLosesOldestFirst
  BY DEF RetentionInv, Rest
<1> QED BY <1>1, RetentionInvAlways, PTL
================================================================================
