------------------------ MODULE GraphValidationProofs ------------------------
(***************************************************************************)
(* The validation of a definition is exact for every finite graph, and the *)
(* graphs it accepts never meet the step limit of Execute.                 *)
(***************************************************************************)
EXTENDS GraphValidation, FiniteSetTheorems, TLAPS

\* The edges into n that are not struck out yet.
Left(n) == {e \in In(n) : e.from \notin Seen}

\* A set without a first node, and a set that holds every node the start leads to.
Cycle(S)  == \A n \in S : \E e \in edges : e.to = n /\ e.from \in S
Closed(S) == StartNode \in S /\ \A e \in edges : e.from \in S => e.to \in S

\* What the loop of validateEdges keeps true: the counters count the edges left,
\* the queue holds exactly the nodes that are next, a node comes after all its
\* predecessors, no node of a cycle is ever reached and no other node is reached
\* but along the edges.
Sorted ==
  /\ \A n \in Nodes : indegree[n] = Cardinality(Left(n))
  /\ \A n \in Nodes : Left(n) = {} => n \in queue \cup Seen
  /\ \A n \in queue : Left(n) = {} /\ n \notin Seen
  /\ \A e \in edges : e.to \in Seen => e.from \in Seen /\ rank[e.from] < rank[e.to]
  /\ Cardinality(Seen) = visited
  /\ \A n \in Nodes : rank[n] <= visited
  /\ \A S \in SUBSET Nodes : Cycle(S) => S \cap Seen = {}
  /\ \A S \in SUBSET Nodes : Closed(S) => Seen \cup queue \subseteq S

GraphInv ==
  /\ TypeOK
  /\ phase = "check" => Seen = {} /\ visited = 0 /\ steps = 0
  /\ phase \in {"sort", "walk", "exceeded", "finished"} => WellFormed
  /\ phase # "check" /\ WellFormed => Sorted
  /\ phase \in {"sort", "check"} => steps = 0
  /\ phase = "rejected" /\ WellFormed => queue = {} /\ visited # Cardinality(Nodes)
  /\ phase \in {"walk", "finished"} => Seen = Nodes /\ cur \in Nodes /\ steps < rank[cur]
  /\ phase # "exceeded"

\* The edges of a definition are finitely many and join its nodes.
LEMMA EdgeFacts ==
  ASSUME TypeOK
  PROVE  /\ \A e \in edges : e.from \in Nodes /\ e.to \in Nodes
         /\ \A n : IsFiniteSet(In(n)) /\ IsFiniteSet(Out(n)) /\ IsFiniteSet(Left(n))
         /\ IsFiniteSet(Seen) /\ Cardinality(Nodes) \in Nat
<1>1. edges \subseteq Candidates /\ IsFiniteSet(edges)
  BY FS_Subset, GraphConstants DEF TypeOK
<1>2. \A n : In(n) \subseteq edges /\ Out(n) \subseteq edges /\ Left(n) \subseteq edges
  BY DEF In, Out, Left
<1>3. Seen \subseteq Nodes
  BY DEF Seen
<1> QED
  BY <1>1, <1>2, <1>3, FS_Subset, FS_CardinalityType, GraphConstants

\* A well-formed graph has a start, and no edge leads to it.
LEMMA StartFacts ==
  ASSUME TypeOK, WellFormed
  PROVE  StartNode \in Nodes /\ type[StartNode] = "start" /\ In(StartNode) = {}
<1>1. PICK s \in Nodes : Of("start") = {s}
  BY DEF WellFormed
<1>2. type[s] = "start"
  BY <1>1 DEF Of
<1>3. StartNode \in Nodes /\ type[StartNode] = "start"
  BY <1>2 DEF StartNode
<1>4. In(StartNode) = {}
  BY <1>3 DEF WellFormed, In
<1> QED
  BY <1>3, <1>4

\* The first round of the loop starts from the invariant (graph.go:80-118).
LEMMA SortBegins ==
  ASSUME GraphInv, BeginSort
  PROVE  Sorted'
<1> USE DEF BeginSort
<1>1. TypeOK /\ WellFormed /\ Seen = {} /\ visited = 0
  BY DEF GraphInv
<1>2. /\ Seen' = {} /\ StartNode' = StartNode /\ visited' = 0
      /\ \A n : In(n)' = In(n) /\ Left(n)' = In(n)
  BY <1>1 DEF Seen, StartNode, In, Left
<1>3. \A n \in Nodes : indegree'[n] = Cardinality(Left(n)')
  BY <1>2
<1>4. \A n \in Nodes : Left(n)' = {} => n \in queue'
  BY <1>1, <1>2 DEF WellFormed
<1>5. \A n \in queue' : Left(n)' = {}
  BY <1>1, <1>2, StartFacts
<1>6. Cardinality(Seen') = visited'
  BY <1>2, FS_EmptySet
<1>7. \A n \in Nodes : rank'[n] <= visited'
  BY <1>1, <1>2 DEF Seen, TypeOK
<1>8. \A S \in SUBSET Nodes : Closed(S)' => queue' \subseteq S
  BY <1>2 DEF Closed
<1> QED
  BY <1>2, <1>3, <1>4, <1>5, <1>6, <1>7, <1>8 DEF Sorted

\* One round of the loop keeps the invariant (graph.go:120-130).
LEMMA SortContinues ==
  ASSUME TypeOK, WellFormed, Sorted, NEW id \in Nodes, Dequeue(id)
  PROVE  Sorted' /\ TypeOK' /\ WellFormed'
<1>0. /\ id \in queue /\ id \notin Seen /\ Left(id) = {}
      /\ UNCHANGED <<type, edges, phase, cur, steps>>
      /\ visited' = visited + 1 /\ rank' = [rank EXCEPT ![id] = visited + 1]
  BY DEF Dequeue, Sorted
<1>1. Seen' = Seen \cup {id}
  BY <1>0 DEF Seen, TypeOK
<1>2. \A n : In(n)' = In(n) /\ Out(n)' = Out(n) /\ Of(n)' = Of(n)
  BY <1>0 DEF In, Out, Of
<1>3. StartNode' = StartNode /\ WellFormed'
  BY <1>0, <1>2 DEF StartNode, WellFormed
<1>4. ASSUME NEW n \in Nodes
      PROVE  /\ Left(n)' = Left(n) \ (Out(id) \cap In(n))
             /\ Left(n) \cap (Out(id) \cap In(n)) = Out(id) \cap In(n)
  <2>1. Out(id) \cap In(n) \subseteq Left(n)
    BY <1>0 DEF Left, Out
  <2>2. Left(n)' = Left(n) \ (Out(id) \cap In(n))
    BY <1>1, <1>2 DEF Left, Out, In
  <2> QED
    BY <2>1, <2>2
<1>5. ASSUME NEW n \in Nodes
      PROVE  /\ indegree'[n] = Cardinality(Left(n)') /\ indegree'[n] \in Nat
             /\ indegree'[n] = 0 <=> Left(n)' = {}
  <2> DEFINE L == Left(n)
             X == Out(id) \cap In(n)
  <2>1. IsFiniteSet(L)
    BY EdgeFacts
  <2>2. Left(n)' = L \ X /\ L \cap X = X
    BY <1>4
  <2>3. indegree'[n] = Cardinality(L) - Cardinality(X)
    BY DEF Dequeue, Sorted
  <2> HIDE DEF L, X
  <2>4. IsFiniteSet(L \ X) /\ Cardinality(L \ X) = Cardinality(L) - Cardinality(L \cap X)
    BY <2>1, FS_Difference
  <2>5. indegree'[n] = Cardinality(L \ X) /\ Cardinality(L \ X) \in Nat
    BY <2>2, <2>3, <2>4, FS_CardinalityType
  <2>6. Cardinality(L \ X) = 0 <=> L \ X = {}
    BY <2>4, FS_EmptySet
  <2> QED
    BY <2>2, <2>5, <2>6
<1>6. \A n \in Nodes : indegree'[n] = 0 <=> Left(n)' = {}
  BY <1>5
<1>7. TypeOK'
  BY <1>0, <1>5 DEF TypeOK, Dequeue
<1>8. \A n \in Nodes : Left(n)' = {} => n \in queue' \cup Seen'
  BY <1>1, <1>4, <1>6 DEF Sorted, Dequeue
<1>9. \A n \in queue' : Left(n)' = {} /\ n \notin Seen'
  <2> SUFFICES ASSUME NEW n \in queue'
               PROVE  Left(n)' = {} /\ n \notin Seen'
    OBVIOUS
  <2>0. n \in Nodes
    BY <1>7 DEF TypeOK
  <2>1. CASE n \in queue \ {id}
    BY <1>1, <1>4, <2>0, <2>1 DEF Sorted
  <2>2. CASE Out(id) \cap In(n) # {} /\ indegree'[n] = 0
    <3>1. PICK e \in edges : e.from = id /\ e.to = n
      BY <2>2 DEF Out, In
    <3>2. n \notin Seen
      BY <1>0, <3>1 DEF Sorted
    <3>3. n # id
      BY <3>1 DEF WellFormed
    <3> QED
      BY <1>1, <1>6, <2>0, <2>2, <3>2, <3>3
  <2> QED
    BY <2>1, <2>2 DEF Dequeue
<1>10. \A n \in Nodes : rank'[n] <= visited'
  BY <1>0 DEF Sorted, TypeOK
<1>11. \A e \in edges' : e.to \in Seen' => e.from \in Seen' /\ rank'[e.from] < rank'[e.to]
  <2> SUFFICES ASSUME NEW e \in edges, e.to \in Seen'
               PROVE  e.from \in Seen' /\ rank'[e.from] < rank'[e.to]
    BY <1>0
  <2>0. e.from \in Nodes /\ e.to \in Nodes
    BY EdgeFacts
  <2>1. CASE e.to \in Seen
    <3>1. e.from \in Seen /\ rank[e.from] < rank[e.to]
      BY <2>1 DEF Sorted
    <3> QED
      BY <1>0, <1>1, <2>0, <2>1, <3>1 DEF TypeOK
  <2>2. CASE e.to = id
    <3>1. e.from \in Seen
      BY <1>0, <2>0, <2>2 DEF Left, In
    <3> QED
      BY <1>0, <1>1, <2>0, <2>2, <3>1 DEF Sorted, TypeOK
  <2> QED
    BY <1>1, <2>1, <2>2
<1>12. Cardinality(Seen') = visited'
  BY <1>0, <1>1, EdgeFacts, FS_AddElement DEF Sorted
<1>13. \A S \in SUBSET Nodes : Cycle(S)' => S \cap Seen' = {}
  <2> SUFFICES ASSUME NEW S \in SUBSET Nodes, Cycle(S)
               PROVE  S \cap Seen' = {}
    BY <1>0 DEF Cycle
  <2>1. S \cap Seen = {}
    BY DEF Sorted
  <2>2. ASSUME id \in S PROVE FALSE
    <3>1. PICK e \in edges : e.to = id /\ e.from \in S
      BY <2>2 DEF Cycle
    <3>2. e.from \in Seen
      BY <1>0, <3>1 DEF Left, In
    <3> QED
      BY <2>1, <3>1, <3>2
  <2> QED
    BY <1>1, <2>1, <2>2
<1>14. \A S \in SUBSET Nodes : Closed(S)' => Seen' \cup queue' \subseteq S
  <2> SUFFICES ASSUME NEW S \in SUBSET Nodes, Closed(S)
               PROVE  Seen' \cup queue' \subseteq S
    BY <1>0, <1>3 DEF Closed
  <2>1. Seen \cup queue \subseteq S
    BY DEF Sorted
  <2>2. \A n \in Nodes : Out(id) \cap In(n) # {} => n \in S
    BY <1>0, <2>1 DEF Closed, Out, In
  <2> QED
    BY <1>0, <1>1, <2>1, <2>2 DEF Dequeue
<1> QED
  BY <1>3, <1>5, <1>7, <1>8, <1>9, <1>10, <1>11, <1>12, <1>13, <1>14 DEF Sorted

\* The invariant depends on the graph and the counters only.
LEMMA SortKept ==
  ASSUME UNCHANGED <<type, edges, indegree, queue, visited, rank>>
  PROVE  (Sorted' <=> Sorted) /\ (WellFormed' <=> WellFormed)
         /\ Seen' = Seen /\ StartNode' = StartNode
BY DEF Sorted, WellFormed, Seen, StartNode, In, Out, Of, Left, Cycle, Closed

\* The loop that sorts keeps its invariant, and every step of the walk raises
\* the rank of the node Execute is on.
LEMMA GraphStep ==
  ASSUME GraphInv, [Next]_graphVars
  PROVE  GraphInv'
<1>0. TypeOK
  BY DEF GraphInv
<1>1. CASE RefuseShape
  <2>1. ~WellFormed' /\ TypeOK' /\ phase' = "rejected"
    BY <1>0, <1>1, SortKept DEF RefuseShape, TypeOK
  <2> QED
    BY <2>1 DEF GraphInv
<1>2. CASE BeginSort
  <2>1. Sorted'
    BY <1>2, SortBegins
  <2>2. WellFormed' /\ phase' = "sort" /\ steps' = 0
    BY <1>2 DEF BeginSort, GraphInv, WellFormed, StartNode, In, Out, Of
  <2>3. TypeOK'
    <3>1. \A n \in Nodes : Cardinality(In(n)) \in Nat
      BY <1>0, EdgeFacts, FS_CardinalityType
    <3>2. StartNode \in Nodes
      BY <1>0, <1>2, StartFacts DEF BeginSort
    <3> QED
      BY <1>0, <1>2, <3>1, <3>2 DEF BeginSort, TypeOK
  <2> QED
    BY <2>1, <2>2, <2>3 DEF GraphInv
<1>3. ASSUME NEW id \in Nodes, Dequeue(id)
      PROVE  GraphInv'
  <2>1. phase = "sort" /\ phase' = "sort" /\ steps' = steps
    BY <1>3 DEF Dequeue
  <2>2. Sorted' /\ TypeOK' /\ WellFormed'
    BY <1>3, <2>1, SortContinues DEF GraphInv
  <2> QED
    BY <2>1, <2>2 DEF GraphInv
<1>4. CASE EndSort
  <2>1. /\ WellFormed /\ Sorted /\ WellFormed' /\ Sorted' /\ Seen' = Seen
        /\ queue' = {} /\ visited' = visited /\ steps = 0 /\ steps' = 0 /\ rank' = rank
    BY <1>4, SortKept DEF EndSort, GraphInv
  <2>2. StartNode \in Nodes
    BY <1>0, <2>1, StartFacts
  <2>3. TypeOK'
    BY <1>0, <1>4, <2>2 DEF EndSort, TypeOK
  <2>4. CASE visited = Cardinality(Nodes)
    <3>1. Seen = Nodes
      <4>1. Seen \in SUBSET Nodes
        BY DEF Seen
      <4> QED
        BY <2>1, <2>4, <4>1, FS_Subset, GraphConstants DEF Sorted
    <3>2. phase' = "walk" /\ cur' = StartNode
      BY <1>4, <2>4 DEF EndSort
    <3>3. rank[StartNode] > 0
      BY <2>2, <3>1 DEF Seen
    <3> QED
      BY <2>1, <2>2, <2>3, <3>1, <3>2, <3>3 DEF GraphInv
  <2>5. CASE visited # Cardinality(Nodes)
    <3>1. phase' = "rejected"
      BY <1>4, <2>5 DEF EndSort
    <3> QED
      BY <2>1, <2>3, <2>5, <3>1 DEF GraphInv
  <2> QED
    BY <2>4, <2>5
<1>5. CASE Route
  <2>1. /\ WellFormed /\ Sorted /\ WellFormed' /\ Sorted' /\ Seen' = Seen /\ Seen = Nodes
        /\ cur \in Nodes /\ steps < rank[cur] /\ rank' = rank /\ visited' = visited
    BY <1>5, SortKept DEF Route, GraphInv
  <2>2. PICK e \in edges : e.from = cur /\ e.to = cur'
    BY <1>5 DEF Route, Out
  <2>3. cur' \in Nodes
    BY <1>0, <2>2, EdgeFacts
  <2>4. rank[cur] < rank[cur']
    BY <2>1, <2>2, <2>3 DEF Sorted
  <2>5. rank[cur] \in Nat /\ rank[cur'] \in Nat /\ steps \in Nat /\ visited \in Nat
    BY <1>0, <2>1, <2>3 DEF TypeOK
  <2>6. steps' = steps + 1 /\ steps' \in Nat /\ steps' < rank[cur']
    BY <1>5, <2>1, <2>4, <2>5 DEF Route
  <2>7. rank[cur'] <= visited /\ visited = Cardinality(Nodes)
    BY <2>1, <2>3 DEF Sorted
  <2>8. phase' = "walk"
    BY <1>5, <2>5, <2>6, <2>7 DEF Route, StepLimit
  <2>9. TypeOK'
    BY <1>0, <1>5, <2>3, <2>6, <2>8 DEF Route, TypeOK
  <2> QED
    BY <2>1, <2>3, <2>6, <2>8, <2>9 DEF GraphInv
<1>6. CASE Finish
  <2>1. /\ WellFormed' /\ Sorted' /\ Seen' = Seen /\ Seen = Nodes
        /\ cur \in Nodes /\ steps < rank[cur] /\ rank' = rank /\ cur' = cur /\ steps' = steps
        /\ phase' = "finished"
    BY <1>6, SortKept DEF Finish, GraphInv
  <2>2. TypeOK'
    BY <1>0, <1>6 DEF Finish, TypeOK
  <2> QED
    BY <2>1, <2>2 DEF GraphInv
<1>7. CASE UNCHANGED graphVars
  <2>1. /\ (Sorted' <=> Sorted) /\ (WellFormed' <=> WellFormed) /\ Seen' = Seen
        /\ UNCHANGED graphVars
    BY <1>7, SortKept DEF graphVars
  <2>2. TypeOK'
    BY <1>0, <1>7 DEF graphVars, TypeOK
  <2> QED
    BY <2>1, <2>2 DEF GraphInv, graphVars
<1> QED
  BY <1>1, <1>2, <1>3, <1>4, <1>5, <1>6, <1>7 DEF Next

\* The inductive invariant holds in every reachable state.
THEOREM GraphInvariant == Spec => []GraphInv
<1>1. Init => GraphInv
  BY DEF Init, GraphInv, TypeOK, Seen
<1>2. GraphInv /\ [Next]_graphVars => GraphInv'
  BY GraphStep
<1> QED
  BY <1>1, <1>2, PTL DEF Spec

\* For every finite set of nodes and edges, validateEdges refuses a well-formed
\* graph exactly when it has a cycle, and accepts only graphs in which the start
\* leads to every node (graph.go:78-135).
THEOREM ValidationExact == Spec => []SortDecidesAcyclicity
<1>1. GraphInv => SortDecidesAcyclicity
  <2> SUFFICES ASSUME GraphInv
               PROVE  SortDecidesAcyclicity
    OBVIOUS
  <2>0. TypeOK
    BY DEF GraphInv
  <2>1. ASSUME phase = "rejected", WellFormed
        PROVE  ~Acyclic
    <3> DEFINE S == Nodes \ Seen
    <3>1. Sorted /\ queue = {} /\ visited # Cardinality(Nodes)
      BY <2>1 DEF GraphInv
    <3>2. S # {}
      <4>1. Seen \subseteq Nodes
        BY DEF Seen
      <4> QED
        BY <3>1, <4>1 DEF Sorted
    <3>3. \A n \in S : \E e \in edges : e.to = n /\ e.from \in S
      <4> TAKE n \in S
      <4>1. Left(n) # {}
        BY <3>1 DEF Sorted
      <4>2. PICK e \in edges : e.to = n /\ e.from \notin Seen
        BY <4>1 DEF Left, In
      <4> QED
        BY <2>0, <4>2, EdgeFacts
    <3>4. S \in SUBSET Nodes
      OBVIOUS
    <3> HIDE DEF S
    <3> QED
      BY <3>2, <3>3, <3>4 DEF Acyclic
  <2>2. ASSUME phase \in {"walk", "exceeded", "finished"}
        PROVE  Acyclic /\ \A n \in Nodes : Reachable(n)
    <3>1. Sorted /\ Seen = Nodes
      BY <2>2 DEF GraphInv
    <3>2. Acyclic
      <4> SUFFICES ASSUME NEW S \in SUBSET Nodes, Cycle(S)
                   PROVE  S = {}
        BY DEF Acyclic, Cycle
      <4>1. S \cap Seen = {}
        BY <3>1 DEF Sorted
      <4> QED
        BY <3>1, <4>1
    <3>3. ASSUME NEW n \in Nodes, NEW S \in SUBSET Nodes, Closed(S)
          PROVE  n \in S
      <4>1. Seen \cup queue \subseteq S
        BY <3>1, <3>3 DEF Sorted
      <4> QED
        BY <3>1, <4>1
    <3> QED
      BY <3>2, <3>3 DEF Reachable, Closed
  <2> QED
    BY <2>1, <2>2 DEF SortDecidesAcyclicity
<1> QED
  BY <1>1, GraphInvariant, PTL

\* No graph that validation accepts, of any size and whatever its conditions
\* choose, runs into the step limit of Execute (workflow.go:107).
THEOREM StepLimitNeverReached == Spec => []StepLimitUnreached
<1>1. GraphInv => StepLimitUnreached
  BY DEF GraphInv, StepLimitUnreached
<1> QED
  BY <1>1, GraphInvariant, PTL
==============================================================================
