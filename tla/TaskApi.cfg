CONSTANTS
  u1 = u1
  u2 = u2
  managers = managers
  review = review
  Users = {u1, u2}
  Groups = {managers}
  Nodes = {review}
  Approvals = {review}
  Assignee <- MCAssignee
  None = None
  Requests = {r1, r2}
  MaxVersion = 4
SYMMETRY MCSymmetry
SPECIFICATION Spec
INVARIANT TypeOK
INVARIANT SnapshotSound
INVARIANT HistoryChain
INVARIANT DecisionAnnouncedOnce
PROPERTY DecisionFinal
PROPERTY ChangedByEntitledUser
