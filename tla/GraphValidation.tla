--------------------------- MODULE GraphValidation ---------------------------
(***************************************************************************)
(* ValidateDefinition and validateEdges of internal/workflow/graph.go, and *)
(* the loop of Execute in internal/workflowruntime/workflow.go that later  *)
(* walks the graph they let pass.  A behaviour picks one graph, validates  *)
(* it and, when it is accepted, takes one walk through it.                 *)
(*                                                                         *)
(* The nodes are identities with a type; the checks of a single node's     *)
(* fields and of the length of a condition are left out.  The edges are a  *)
(* set, so the second of two equal edges, which the code refuses, does not *)
(* arise; two edges that differ in their condition do.                     *)
(***************************************************************************)
EXTENDS Integers, FiniteSets

CONSTANTS
  Nodes,       \* node identities of the definition
  NodeTypings, \* the typings a definition may give them
  Candidates,  \* the edges a definition may draw
  None

ASSUME GraphConstants ==
  /\ IsFiniteSet(Nodes)
  /\ NodeTypings \subseteq [Nodes -> {"start", "task", "end"}]
  /\ IsFiniteSet(Candidates)
  /\ \A e \in Candidates : e.from \in Nodes /\ e.to \in Nodes
  /\ None \notin Nodes

VARIABLES
  type,      \* the type of every node
  edges,
  phase,     \* "check", "sort", "rejected", "walk", "exceeded" or "finished"
  indegree,  \* edges from nodes that are still to be taken off the queue
  queue,     \* nodes without such an edge
  visited,   \* how many nodes were taken off the queue
  rank,      \* auxiliary: when a node was taken off the queue, 0 before
  cur,       \* the node Execute is on
  steps      \* the loop counter of Execute

graphVars == <<type, edges, phase, indegree, queue, visited, rank, cur, steps>>

Seen == {n \in Nodes : rank[n] > 0}

TypeOK ==
  /\ type \in NodeTypings
  /\ edges \subseteq Candidates
  /\ phase \in {"check", "sort", "rejected", "walk", "exceeded", "finished"}
  /\ indegree \in [Nodes -> Nat]
  /\ queue \subseteq Nodes
  /\ visited \in Nat
  /\ rank \in [Nodes -> Nat]
  /\ cur \in Nodes \cup {None}
  /\ steps \in Nat

Init ==
  /\ type \in NodeTypings
  /\ edges \in SUBSET Candidates
  /\ phase = "check"
  /\ indegree = [n \in Nodes |-> 0]
  /\ queue = {}
  /\ visited = 0
  /\ rank = [n \in Nodes |-> 0]
  /\ cur = None
  /\ steps = 0

------------------------------------------------------------------------------
(* ValidateDefinition.                                                     *)

Of(t) == {n \in Nodes : type[n] = t}
Out(n) == {e \in edges : e.from = n}
In(n)  == {e \in edges : e.to = n}

StartNode == CHOOSE n \in Nodes : type[n] = "start"

\* Everything that is checked before the sort: the size, one start and an end, no edge
\* out of an end, into the start or from a node to itself, one edge out of the
\* start, and no other node without an edge in, or not an end without an edge
\* out.
WellFormed ==
  /\ Cardinality(Nodes) \in 2 .. 200
  /\ Cardinality(edges) <= 500
  /\ \E s \in Nodes : Of("start") = {s}
  /\ Of("end") # {}
  /\ \A e \in edges : type[e.from] # "end" /\ type[e.to] # "start" /\ e.from # e.to
  /\ Cardinality(Out(StartNode)) = 1
  /\ \A n \in Nodes : n # StartNode => In(n) # {}
  /\ \A n \in Nodes : type[n] # "end" => Out(n) # {}

RefuseShape ==
  /\ phase = "check"
  /\ ~WellFormed
  /\ phase' = "rejected"
  /\ UNCHANGED <<type, edges, indegree, queue, visited, rank, cur, steps>>

BeginSort ==
  /\ phase = "check"
  /\ WellFormed
  /\ phase' = "sort"
  /\ indegree' = [n \in Nodes |-> Cardinality(In(n))]
  /\ queue' = {StartNode}
  /\ UNCHANGED <<type, edges, visited, rank, cur, steps>>

\* Mutant: a node is queued as soon as one of its edges is gone.
DequeueEager(id) ==
  /\ phase = "sort"
  /\ id \in queue
  /\ indegree' = [n \in Nodes |-> indegree[n] - Cardinality(Out(id) \cap In(n))]
  /\ queue' = (queue \ {id}) \cup {n \in Nodes : rank[n] = 0 /\ Out(id) \cap In(n) # {}}
  /\ visited' = visited + 1
  /\ rank' = [rank EXCEPT ![id] = visited + 1]
  /\ UNCHANGED <<type, edges, phase, cur, steps>>

\* One round of the loop: every edge out of id is struck out, and the nodes
\* whose last edge went are queued.  The code takes the oldest node of the
\* queue; the model takes any, so that no result depends on the order.
Dequeue(id) ==
  /\ phase = "sort"
  /\ id \in queue
  /\ indegree' = [n \in Nodes |-> indegree[n] - Cardinality(Out(id) \cap In(n))]
  /\ queue' = (queue \ {id}) \cup
              {n \in Nodes : Out(id) \cap In(n) # {} /\ indegree'[n] = 0}
  /\ visited' = visited + 1
  /\ rank' = [rank EXCEPT ![id] = visited + 1]
  /\ UNCHANGED <<type, edges, phase, cur, steps>>

\* Mutant: the count of the sort is not looked at.
EndSortUnchecked ==
  /\ phase = "sort"
  /\ queue = {}
  /\ phase' = "walk" /\ cur' = StartNode
  /\ UNCHANGED <<type, edges, indegree, queue, visited, rank, steps>>

\* An accepted definition is published, and an instance of it started.
EndSort ==
  /\ phase = "sort"
  /\ queue = {}
  /\ IF visited = Cardinality(Nodes)
       THEN phase' = "walk" /\ cur' = StartNode
       ELSE phase' = "rejected" /\ UNCHANGED cur
  /\ UNCHANGED <<type, edges, indegree, queue, visited, rank, steps>>

------------------------------------------------------------------------------
(* The loop of Execute: some edge is chosen, and the loop ends after as    *)
(* many rounds as there are nodes, and one.                                *)

StepLimit == Cardinality(Nodes)

Route ==
  /\ phase = "walk"
  /\ type[cur] # "end"
  /\ \E e \in Out(cur) : cur' = e.to
  /\ steps' = steps + 1
  /\ phase' = IF steps + 1 <= StepLimit THEN "walk" ELSE "exceeded"
  /\ UNCHANGED <<type, edges, indegree, queue, visited, rank>>

Finish ==
  /\ phase = "walk"
  /\ type[cur] = "end"
  /\ phase' = "finished"
  /\ UNCHANGED <<type, edges, indegree, queue, visited, rank, cur, steps>>

Next ==
  \/ RefuseShape
  \/ BeginSort
  \/ \E id \in Nodes : Dequeue(id)
  \/ EndSort
  \/ Route
  \/ Finish

Spec == Init /\ [][Next]_graphVars

\* Validation and the loop are sequential code that runs to its end.
FairSpec == Spec /\ WF_graphVars(Next)

------------------------------------------------------------------------------
(* Properties.                                                             *)

\* No set of nodes in which every node has an edge from a node of the set.
Acyclic ==
  \A S \in SUBSET Nodes :
    (\A n \in S : \E e \in edges : e.to = n /\ e.from \in S) => S = {}

\* Whatever holds at the start and is handed on along the edges holds at n.
Reachable(n) ==
  \A S \in SUBSET Nodes :
    StartNode \in S /\ (\A e \in edges : e.from \in S => e.to \in S) => n \in S

\* validateEdges decides what its error messages say: a well-formed graph is
\* refused by the sort only if it has a cycle, and an accepted graph has none
\* and no node the start does not lead to, although the code looks for
\* neither cycles nor paths but only counts (graph.go:103-133).
SortDecidesAcyclicity ==
  /\ phase = "rejected" /\ WellFormed => ~Acyclic
  /\ phase \in {"walk", "exceeded", "finished"} =>
       Acyclic /\ \A n \in Nodes : Reachable(n)

\* An accepted graph never runs into the step limit of Execute, whichever
\* edges its conditions choose (workflow.go:107 and 169).
StepLimitUnreached == phase # "exceeded"

\* Every definition is refused or every walk through it comes to an end node.
WalkEnds == <>(phase \in {"rejected", "finished"})
==============================================================================
