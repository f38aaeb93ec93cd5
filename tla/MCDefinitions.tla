---------------------------- MODULE MCDefinitions ----------------------------
(* Requests are interchangeable.                                           *)
EXTENDS Definitions, TLC

Symmetry == Permutations(Publishers) \cup Permutations(Starters) \cup Permutations(Keys)
              \cup Permutations(BusinessKeys)
==============================================================================
