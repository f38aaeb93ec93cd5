------------------------------ MODULE MCTaskApi ------------------------------
(* One approval task of a role, two users, concurrent requests.            *)
EXTENDS TaskApi, TLC

CONSTANTS u1, u2, managers, review

MCAssignee == review :> managers
MCSymmetry == Permutations(Users) \cup Permutations(Requests)
==============================================================================
