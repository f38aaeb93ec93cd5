------------------------------- MODULE MCEngine -------------------------------
(* Graphs for model checking the runtime.                                  *)
EXTENDS Engine, TLC

CONSTANTS u1, start, reserve, notify, review, confirm, pause, finish

Edge(from, to) == [from |-> from, to |-> to, conditional |-> FALSE, priority |-> 0]
EdgeIf(from, to) == [from |-> from, to |-> to, conditional |-> TRUE, priority |-> 1]

MCAssignee == [n \in Approvals |-> u1]

MCNodeType ==
  [n \in Nodes |-> CASE n = start               -> "start"
                     [] n \in {reserve, notify} -> "service_task"
                     [] n \in {review, confirm} -> "approval"
                     [] n = pause               -> "timer"
                     [] n = finish              -> "end"]

\* start -> reserve -> review -> confirm -> notify -> finish: a service on
\* either side of two decisions in a row.
MCSaga == {Edge(start, reserve), Edge(reserve, review), Edge(review, confirm),
           Edge(confirm, notify), Edge(notify, finish)}

\* A timer, and a choice after the review: reserve when the condition holds.
MCBranch == {Edge(start, pause), Edge(pause, review), EdgeIf(review, reserve),
             Edge(review, finish), EdgeIf(reserve, finish)}
==============================================================================
