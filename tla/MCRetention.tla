----------------------------- MODULE MCRetention -----------------------------
(* Two rows of one instance and two replicas that clean.                   *)
EXTENDS Retention, TLC

CONSTANTS h1, h2, i1, c1, c2

AllOfOne == h1 :> i1 @@ h2 :> i1
=============================================================================
