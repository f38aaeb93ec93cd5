----------------------------- MODULE Definitions -----------------------------
(***************************************************************************)
(* One workflow definition from its first draft to its last instance:      *)
(* create, update, publish and disable of internal/workflow/service.go and *)
(* repository.go, and the start of instances, which reads the definition   *)
(* in two statements before it inserts the instance in a third.            *)
(*                                                                         *)
(* A graph is an opaque value; which graphs ValidateDefinition accepts is  *)
(* the subject of GraphValidation.  The key of the definition is fixed:    *)
(* its unique index admits one row.                                        *)
(***************************************************************************)
EXTENDS Integers, Sequences

CONSTANTS
  Graphs,        \* what an editor may send as nodes and edges
  ValidGraphs,   \* what ValidateDefinition accepts
  Publishers,    \* concurrent publish requests
  Starters,      \* concurrent start requests
  Keys,          \* idempotency keys
  BusinessKeys,
  MaxVersion     \* bound on the versions an update may produce

ASSUME DefinitionConstants ==
  /\ ValidGraphs \subseteq Graphs
  /\ MaxVersion \in Nat

VARIABLES
  def,        \* the row of workflow_definitions
  revisions,  \* the rows of workflow_definition_revisions, by revision
  contents,   \* auxiliary: the graph every version of the row held
  publishes,  \* the version every publish request names, 0 before it was checked
  starts,     \* what every start request has read
  instances   \* instances with the graph their start event carries

definitionVars == <<def, revisions, contents, publishes, starts, instances>>

Row == [status   : {"none", "draft", "published", "disabled"},
        graph    : Graphs \cup {"none"},
        revision : Nat,
        version  : Nat]

\* The version the publisher named is auxiliary, it is not a column.
Revision == [graph : Graphs, reviewed : Nat]

StartRequest == [phase    : {"idle", "selected", "loaded"},
                 revision : Nat,
                 graph    : Graphs \cup {"none"}]

IdleStart == [phase |-> "idle", revision |-> 0, graph |-> "none"]

StartedInstance == [key : Keys, business : BusinessKeys, revision : Nat, graph : Graphs]

TypeOK ==
  /\ def \in Row
  /\ def.status # "none" => def.graph \in Graphs
  /\ revisions \in Seq(Revision)
  /\ contents \in Seq(Graphs)
  /\ publishes \in [Publishers -> Nat]
  /\ starts \in [Starters -> StartRequest]
  /\ \A s \in Starters : starts[s].phase = "loaded" => starts[s].graph \in Graphs
  /\ instances \in Seq(StartedInstance)

Init ==
  /\ def = [status |-> "none", graph |-> "none", revision |-> 0, version |-> 0]
  /\ revisions = <<>>
  /\ contents = <<>>
  /\ publishes = [p \in Publishers |-> 0]
  /\ starts = [s \in Starters |-> IdleStart]
  /\ instances = <<>>

------------------------------------------------------------------------------
(* The life of the definition.  Every UPDATE names the version it expects  *)
(* and the status it starts from, and misses otherwise.                    *)

\* Mutant: what an editor sends is stored unchecked.
ValidateDefinitionNever(graph) == TRUE

ValidateDefinition(graph) == graph \in ValidGraphs

CreateDefinition(graph) ==
  /\ ValidateDefinition(graph)
  /\ def.status = "none"
  /\ def' = [status |-> "draft", graph |-> graph, revision |-> 0, version |-> 1]
  /\ contents' = <<graph>>
  /\ UNCHANGED <<revisions, publishes, starts, instances>>

\* Mutant: a published definition may still be edited.
UpdateDefinitionAnyStatus(graph, expectedVersion) ==
  /\ ValidateDefinition(graph)
  /\ def.version = expectedVersion
  /\ def.version < MaxVersion
  /\ def' = [def EXCEPT !.graph = graph, !.version = @ + 1]
  /\ contents' = Append(contents, graph)
  /\ UNCHANGED <<revisions, publishes, starts, instances>>

\* The row is read first, but only for its key, which never changes.
UpdateDefinition(graph, expectedVersion) ==
  /\ ValidateDefinition(graph)
  /\ def.version = expectedVersion
  /\ def.status = "draft"
  /\ def.version < MaxVersion
  /\ def' = [def EXCEPT !.graph = graph, !.version = @ + 1]
  /\ contents' = Append(contents, graph)
  /\ UNCHANGED <<revisions, publishes, starts, instances>>

\* publish validates the row it reads, before and outside the transaction, and
\* without comparing its version with the version the caller named.
CheckBeforePublish(p, expectedVersion) ==
  /\ publishes[p] = 0
  /\ def.status # "none"
  /\ ValidateDefinition(def.graph)
  /\ publishes' = [publishes EXCEPT ![p] = expectedVersion]
  /\ UNCHANGED <<def, revisions, contents, starts, instances>>

\* Mutant: the transaction does not compare the version.
PublishDefinitionAnyVersion(p) ==
  /\ publishes[p] # 0
  /\ def.status = "draft"
  /\ revisions' = Append(revisions, [graph |-> def.graph, reviewed |-> publishes[p]])
  /\ def' = [def EXCEPT !.status = "published", !.revision = @ + 1, !.version = @ + 1]
  /\ contents' = Append(contents, def.graph)
  /\ publishes' = [publishes EXCEPT ![p] = 0]
  /\ UNCHANGED <<starts, instances>>

\* The event DefinitionPublished of the same transaction is left out: the
\* command handler ignores it (commands.go:59).
PublishDefinition(p) ==
  /\ publishes[p] # 0
  /\ def.version = publishes[p]
  /\ def.status = "draft"
  /\ revisions' = Append(revisions, [graph |-> def.graph, reviewed |-> publishes[p]])
  /\ def' = [def EXCEPT !.status = "published", !.revision = @ + 1, !.version = @ + 1]
  /\ contents' = Append(contents, def.graph)
  /\ publishes' = [publishes EXCEPT ![p] = 0]
  /\ UNCHANGED <<starts, instances>>

\* ErrVersionConflict, a failed transaction or a caller that gave up.
PublishFails(p) ==
  /\ publishes[p] # 0
  /\ publishes' = [publishes EXCEPT ![p] = 0]
  /\ UNCHANGED <<def, revisions, contents, starts, instances>>

DisableDefinition(expectedVersion) ==
  /\ def.version = expectedVersion
  /\ def.status = "published"
  /\ def' = [def EXCEPT !.status = "disabled", !.version = @ + 1]
  /\ contents' = Append(contents, def.graph)
  /\ UNCHANGED <<revisions, publishes, starts, instances>>

------------------------------------------------------------------------------
(* Starting an instance.                                                   *)

\* Mutant: the status of the definition is not part of the query.
SelectPublishedAnyStatus(s) ==
  /\ starts[s] = IdleStart
  /\ def.status # "none"
  /\ starts' = [starts EXCEPT ![s] = [phase |-> "selected", revision |-> def.revision,
                                      graph |-> "none"]]
  /\ UNCHANGED <<def, revisions, contents, publishes, instances>>

\* The first statement of GetPublishedDefinitionByKey.
SelectPublished(s) ==
  /\ starts[s] = IdleStart
  /\ def.status = "published"
  /\ starts' = [starts EXCEPT ![s] = [phase |-> "selected", revision |-> def.revision,
                                      graph |-> "none"]]
  /\ UNCHANGED <<def, revisions, contents, publishes, instances>>

\* GetDefinition: revision 0 means the row itself.
GetDefinition(revision) == IF revision = 0 THEN def.graph ELSE revisions[revision].graph

LoadRevision(s) ==
  /\ starts[s].phase = "selected"
  /\ starts' = [starts EXCEPT ![s].phase = "loaded",
                              ![s].graph = GetDefinition(starts[s].revision)]
  /\ UNCHANGED <<def, revisions, contents, publishes, instances>>

\* The unique indexes on the idempotency key and on the business key.
Unique(key, business) ==
  \A i \in DOMAIN instances : instances[i].key # key /\ instances[i].business # business

\* The instance and its start event; the definition is not looked at again, so
\* it may have been disabled meanwhile.
CreateInstance(s, key, business) ==
  /\ starts[s].phase = "loaded"
  /\ Unique(key, business)
  /\ instances' = Append(instances, [key |-> key, business |-> business,
                                     revision |-> starts[s].revision,
                                     graph |-> starts[s].graph])
  /\ starts' = [starts EXCEPT ![s] = IdleStart]
  /\ UNCHANGED <<def, revisions, contents, publishes>>

\* A key that is taken, a failed transaction or a caller that gave up.
StartFails(s) ==
  /\ starts[s] # IdleStart
  /\ starts' = [starts EXCEPT ![s] = IdleStart]
  /\ UNCHANGED <<def, revisions, contents, publishes, instances>>

Next ==
  \/ \E g \in Graphs : CreateDefinition(g)
  \/ \E g \in Graphs, v \in 1 .. MaxVersion : UpdateDefinition(g, v)
  \/ \E p \in Publishers :
       \/ \E v \in 1 .. MaxVersion : CheckBeforePublish(p, v)
       \/ PublishDefinition(p)
       \/ PublishFails(p)
  \/ \E v \in 1 .. MaxVersion + 1 : DisableDefinition(v)
  \/ \E s \in Starters :
       \/ SelectPublished(s)
       \/ LoadRevision(s)
       \/ \E k \in Keys, b \in BusinessKeys : CreateInstance(s, k, b)
       \/ StartFails(s)

Spec == Init /\ [][Next]_definitionVars

------------------------------------------------------------------------------
(* Properties.                                                             *)

\* The revision that is published is the graph of the very version the
\* publisher named, and it is valid, although the validation of publish may
\* have looked at an earlier version (service.go:142-149 against
\* repository.go:95).
PublishedAsReviewed ==
  \A i \in DOMAIN revisions :
    /\ revisions[i].reviewed \in DOMAIN contents
    /\ revisions[i].graph = contents[revisions[i].reviewed]
    /\ revisions[i].graph \in ValidGraphs

\* From the moment it is published the row agrees with its latest revision, so
\* that a reader of the row and an instance of the definition see the same
\* graph; a draft has no revision (repository.go:76, 95 and 133).
RowShowsRevision ==
  /\ Len(revisions) = def.revision
  /\ IF def.status \in {"published", "disabled"}
       THEN def.revision > 0 /\ revisions[def.revision].graph = def.graph
       ELSE def.revision = 0

\* An instance runs the revision it is pinned to and that revision was
\* published, even if the definition was disabled between the two reads and the
\* insert (repository.go:162-166 and 251).
InstanceRunsPublished ==
  \A i \in DOMAIN instances :
    /\ instances[i].revision \in DOMAIN revisions
    /\ instances[i].graph = revisions[instances[i].revision].graph
==============================================================================
