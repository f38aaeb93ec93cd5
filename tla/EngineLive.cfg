CONSTANTS
  u1 = u1
  start = start
  reserve = reserve
  notify = notify
  review = review
  confirm = confirm
  pause = pause
  finish = finish
  Users = {u1}
  Groups = {}
  Nodes = {start, pause, reserve, review, finish}
  Approvals = {review}
  Assignee <- MCAssignee
  None = None
  NodeType <- MCNodeType
  Edges <- MCBranch
  Compensable = {reserve}
  MaxAttempts = 2
  CleanupAttempts = 2
  MaxDeliver = 2
  MaxFaults = 1
SPECIFICATION PromptSpec
PROPERTY Terminates
PROPERTY CancelStopsWorkflow
CHECK_DEADLOCK FALSE
