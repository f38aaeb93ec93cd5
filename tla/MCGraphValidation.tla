-------------------------- MODULE MCGraphValidation --------------------------
(* All graphs over a start, two inner nodes and one node that is an end or *)
(* an inner node, with two parallel edges between any two nodes.           *)
EXTENDS GraphValidation

CONSTANTS start, a, b, finish

Edge(from, to, condition) == [from |-> from, to |-> to, condition |-> condition]

\* Typings with and without an end, and with two of them.
MCTypings ==
  LET typing(tb, tf) == [n \in Nodes |-> CASE n = start  -> "start"
                                           [] n = a      -> "task"
                                           [] n = b      -> tb
                                           [] n = finish -> tf]
  IN {typing("task", "end"), typing("end", "end"), typing("task", "task")}

\* Every edge the shape check lets pass, twice over, and one of each kind it
\* refuses.
MCCandidates ==
  LET legal == {Edge(m, n, c) : m \in {start, a, b}, n \in {a, b, finish}, c \in {"none", "c"}}
  IN {e \in legal : e.from # e.to}
       \cup {Edge(a, a, "none"), Edge(finish, a, "none"), Edge(a, start, "none")}
==============================================================================
