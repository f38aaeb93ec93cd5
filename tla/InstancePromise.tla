--------------------------- MODULE InstancePromise ---------------------------
(***************************************************************************)
(* What a workflow instance promises to its users, without saying how: it  *)
(* runs, it ends at most once, and a completed or rejected end is backed   *)
(* by the recorded decisions of its approval tasks.                        *)
(***************************************************************************)
CONSTANTS
  Approvals,  \* approval nodes of the definition
  Mandatory   \* those that lie on every way from the start to an end

VARIABLES status, verdict

promiseVars == <<status, verdict>>

Ended == {"completed", "rejected", "cancelled", "failed"}

TypeOK ==
  /\ status \in {"none", "running"} \cup Ended
  /\ verdict \in [Approvals -> {"none", "open", "approved", "rejected"}]

Init ==
  /\ status = "none"
  /\ verdict = [n \in Approvals |-> "none"]

Start ==
  /\ status = "none"
  /\ status' = "running"
  /\ UNCHANGED verdict

Ask(n) ==
  /\ status = "running"
  /\ verdict[n] = "none"
  /\ verdict' = [verdict EXCEPT ![n] = "open"]
  /\ UNCHANGED status

\* A task can still be decided after its instance was cancelled or failed.
Decide(n) ==
  /\ verdict[n] = "open"
  /\ \E v \in {"approved", "rejected"} : verdict' = [verdict EXCEPT ![n] = v]
  /\ UNCHANGED status

Complete ==
  /\ status = "running"
  /\ \A n \in Approvals : verdict[n] \in {"none", "approved"}
  /\ \A n \in Mandatory : verdict[n] = "approved"
  /\ status' = "completed"
  /\ UNCHANGED verdict

Reject ==
  /\ status = "running"
  /\ \A n \in Approvals : verdict[n] # "open"
  /\ \E n \in Approvals : verdict[n] = "rejected"
  /\ status' = "rejected"
  /\ UNCHANGED verdict

CancelOrFail ==
  /\ status = "running"
  /\ status' \in {"cancelled", "failed"}
  /\ UNCHANGED verdict

Next ==
  \/ Start
  \/ \E n \in Approvals : Ask(n) \/ Decide(n)
  \/ Complete
  \/ Reject
  \/ CancelOrFail

Spec == Init /\ [][Next]_promiseVars

------------------------------------------------------------------------------

\* The end an instance shows is the end its decisions justify, for good: a
\* completed instance has every mandatory approval and no other answer, a
\* rejected one has a rejection, and neither leaves a question open.
EndJustified ==
  /\ status = "completed" =>
       /\ \A n \in Approvals : verdict[n] \in {"none", "approved"}
       /\ \A n \in Mandatory : verdict[n] = "approved"
  /\ status = "rejected" =>
       /\ \E n \in Approvals : verdict[n] = "rejected"
       /\ \A n \in Approvals : verdict[n] # "open"
==============================================================================
