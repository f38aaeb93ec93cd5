CONSTANTS
  u1 = u1
  start = start
  reserve = reserve
  notify = notify
  review = review
  confirm = confirm
  pause = pause
  finish = finish
  Users = {u1}
  Groups = {}
  Nodes = {start, reserve, notify, review, confirm, finish}
  Approvals = {review, confirm}
  Assignee <- MCAssignee
  None = None
  NodeType <- MCNodeType
  Edges <- MCSaga
  Compensable = {reserve, notify}
  MaxAttempts = 2
  CleanupAttempts = 2
  MaxDeliver = 2
  MaxFaults = 3
SPECIFICATION Spec
INVARIANT TypeOK
INVARIANT CompensationFollowsInvocation
INVARIANT SuccessNotUndone
INVARIANT SagaUndone
INVARIANT ClosedMeansTerminal
INVARIANT DeadLetterOnlyLate
INVARIANT ApprovalGuardsService
PROPERTY KeepsPromise
PROPERTY QuietStaysQuiet
CHECK_DEADLOCK FALSE
