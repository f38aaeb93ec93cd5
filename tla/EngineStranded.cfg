CONSTANTS
  u1 = u1
  start = start
  reserve = reserve
  notify = notify
  review = review
  confirm = confirm
  pause = pause
  finish = finish
  Users = {u1}
  Groups = {}
  Nodes = {start, reserve, notify, review, confirm, finish}
  Approvals = {review, confirm}
  Assignee <- MCAssignee
  None = None
  NodeType <- MCNodeType
  Edges <- MCSaga
  Compensable = {reserve, notify}
  MaxAttempts = 2
  CleanupAttempts = 2
  MaxDeliver = 2
  MaxFaults = 2
SPECIFICATION Spec
INVARIANT NoStrandedDecision
CHECK_DEADLOCK FALSE
