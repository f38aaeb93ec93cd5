-------------------------- MODULE DefinitionsProofs --------------------------
(***************************************************************************)
(* The life of a definition for any number of graphs and requests, and     *)
(* for every number of versions and instances.                             *)
(***************************************************************************)
EXTENDS Definitions, TLAPS

\* The version of a row names its content, and every content was validated.
VersionNamesContent ==
  /\ Len(contents) = def.version
  /\ def.status = "none" => def.version = 0 /\ def.revision = 0
  /\ def.status # "none" => /\ def.version \in DOMAIN contents
                            /\ contents[def.version] = def.graph
                            /\ def.graph \in ValidGraphs

\* A start request only ever holds a published revision.
ReadsPublished ==
  \A s \in Starters : starts[s].phase # "idle" =>
    /\ starts[s].revision \in DOMAIN revisions
    /\ starts[s].phase = "loaded" => starts[s].graph = revisions[starts[s].revision].graph

DefinitionInv ==
  /\ TypeOK
  /\ VersionNamesContent
  /\ PublishedAsReviewed
  /\ RowShowsRevision
  /\ ReadsPublished
  /\ InstanceRunsPublished

\* Appending keeps what a sequence held and adds one element.
LEMMA AppendFacts ==
  ASSUME NEW S, NEW q \in Seq(S), NEW x \in S
  PROVE  /\ Append(q, x) \in Seq(S)
         /\ Len(Append(q, x)) = Len(q) + 1
         /\ DOMAIN q = 1 .. Len(q) /\ DOMAIN Append(q, x) = 1 .. Len(q) + 1
         /\ \A i \in 1 .. Len(q) : Append(q, x)[i] = q[i]
         /\ Append(q, x)[Len(q) + 1] = x
         /\ Len(q) \in Nat
OBVIOUS

\* An edit of the row that moves it to a new version with a valid graph.
LEMMA NewVersion ==
  ASSUME DefinitionInv, def.status # "none", NEW g \in ValidGraphs,
         def'.version = def.version + 1, def'.graph = g, def'.status # "none",
         contents' = Append(contents, g)
  PROVE  /\ VersionNamesContent' /\ contents' \in Seq(Graphs)
         /\ \A i \in DOMAIN contents : i \in DOMAIN contents' /\ contents'[i] = contents[i]
<1>1. contents \in Seq(Graphs) /\ g \in Graphs /\ def.version \in Nat
  BY DefinitionConstants DEF DefinitionInv, TypeOK, Row
<1>2. Len(contents) = def.version
  BY DEF DefinitionInv, VersionNamesContent
<1> QED
  BY <1>1, <1>2, AppendFacts DEF VersionNamesContent

\* What an edit of the row leaves alone stays right.
LEMMA ReadersKept ==
  ASSUME DefinitionInv, UNCHANGED <<revisions, starts, instances>>
  PROVE  ReadsPublished' /\ InstanceRunsPublished'
BY DEF DefinitionInv, ReadsPublished, InstanceRunsPublished

\* The definition, its revisions and its instances stay consistent in every step.
LEMMA DefinitionStep ==
  ASSUME DefinitionInv, [Next]_definitionVars
  PROVE  DefinitionInv'
<1> USE DEF DefinitionInv
<1>0. def.version \in Nat /\ def.revision \in Nat
  BY DEF TypeOK, Row
<1>1. ASSUME NEW g \in Graphs, CreateDefinition(g)
      PROVE  DefinitionInv'
  <2>1. revisions = <<>>
    <3>1. Len(revisions) = 0 /\ revisions \in Seq(Revision)
      BY <1>1 DEF CreateDefinition, RowShowsRevision, TypeOK
    <3> QED
      BY <3>1
  <2>2. TypeOK'
    BY <1>1 DEF CreateDefinition, TypeOK, Row
  <2>3. VersionNamesContent'
    BY <1>1 DEF CreateDefinition, VersionNamesContent, ValidateDefinition
  <2>4. PublishedAsReviewed' /\ RowShowsRevision'
    BY <1>1, <2>1 DEF CreateDefinition, PublishedAsReviewed, RowShowsRevision
  <2>5. ReadsPublished' /\ InstanceRunsPublished'
    BY <1>1, ReadersKept DEF CreateDefinition
  <2> QED
    BY <2>2, <2>3, <2>4, <2>5
<1>2. ASSUME NEW g \in Graphs, NEW v \in 1 .. MaxVersion, UpdateDefinition(g, v)
      PROVE  DefinitionInv'
  <2>1. /\ def.status = "draft" /\ g \in ValidGraphs
        /\ UNCHANGED <<revisions, publishes, starts, instances>>
        /\ contents' = Append(contents, g)
    BY <1>2 DEF UpdateDefinition, ValidateDefinition
  <2>2. def' \in Row /\ def'.version = def.version + 1 /\ def'.graph = g
        /\ def'.status = "draft" /\ def'.revision = def.revision
    <3>1. def.version + 1 \in Nat /\ g \in Graphs
      BY <1>0
    <3>2. def' = [def EXCEPT !.graph = g, !.version = def.version + 1]
      BY <1>2 DEF UpdateDefinition
    <3> QED
      BY <2>1, <3>1, <3>2 DEF TypeOK, Row
  <2>3. /\ VersionNamesContent' /\ contents' \in Seq(Graphs)
        /\ \A i \in DOMAIN contents : i \in DOMAIN contents' /\ contents'[i] = contents[i]
    BY <2>1, <2>2, NewVersion
  <2>4. TypeOK'
    BY <2>1, <2>2, <2>3 DEF TypeOK
  <2>5. PublishedAsReviewed'
    BY <2>1, <2>3 DEF PublishedAsReviewed
  <2>6. RowShowsRevision'
    BY <2>1, <2>2 DEF RowShowsRevision
  <2>7. ReadsPublished' /\ InstanceRunsPublished'
    BY <2>1, ReadersKept
  <2> QED
    BY <2>3, <2>4, <2>5, <2>6, <2>7
<1>3. ASSUME NEW p \in Publishers, PublishDefinition(p)
      PROVE  DefinitionInv'
  <2> DEFINE rev == [graph |-> def.graph, reviewed |-> publishes[p]]
  <2>1. /\ def.status = "draft" /\ def.version = publishes[p]
        /\ UNCHANGED <<starts, instances>>
        /\ contents' = Append(contents, def.graph) /\ revisions' = Append(revisions, rev)
        /\ publishes' = [publishes EXCEPT ![p] = 0]
    BY <1>3 DEF PublishDefinition
  <2>2. def.graph \in ValidGraphs /\ def.graph \in Graphs
    BY <2>1, DefinitionConstants DEF VersionNamesContent
  <2>3. /\ def' \in Row /\ def'.version = def.version + 1 /\ def'.graph = def.graph
        /\ def'.status = "published" /\ def'.revision = def.revision + 1
    <3>1. def.version + 1 \in Nat /\ def.revision + 1 \in Nat
      BY <1>0
    <3>2. def' = [def EXCEPT !.status = "published", !.revision = def.revision + 1,
                             !.version = def.version + 1]
      BY <1>3 DEF PublishDefinition
    <3> QED
      BY <3>1, <3>2 DEF TypeOK, Row
  <2>4. /\ VersionNamesContent' /\ contents' \in Seq(Graphs)
        /\ \A i \in DOMAIN contents : i \in DOMAIN contents' /\ contents'[i] = contents[i]
    BY <2>1, <2>2, <2>3, NewVersion
  <2>5. rev \in Revision /\ revisions \in Seq(Revision) /\ Len(revisions) = def.revision
        /\ rev.graph = def.graph /\ rev.reviewed = def.version
    BY <2>1, <2>2 DEF TypeOK, Revision, RowShowsRevision
  <2> HIDE DEF rev
  <2>6. /\ revisions' \in Seq(Revision) /\ Len(revisions') = def.revision + 1
        /\ DOMAIN revisions = 1 .. def.revision /\ DOMAIN revisions' = 1 .. def.revision + 1
        /\ \A i \in 1 .. def.revision : revisions'[i] = revisions[i]
        /\ revisions'[def.revision + 1] = rev
    BY <2>1, <2>5, AppendFacts
  <2>7. TypeOK'
    BY <2>1, <2>2, <2>3, <2>4, <2>6 DEF TypeOK
  <2>8. PublishedAsReviewed'
    <3> SUFFICES ASSUME NEW i \in 1 .. def.revision + 1
                 PROVE  /\ revisions'[i].reviewed \in DOMAIN contents'
                        /\ revisions'[i].graph = contents'[revisions'[i].reviewed]
                        /\ revisions'[i].graph \in ValidGraphs
      BY <2>6 DEF PublishedAsReviewed
    <3>1. CASE i \in 1 .. def.revision
      BY <2>4, <2>6, <3>1 DEF PublishedAsReviewed
    <3>2. CASE i = def.revision + 1
      BY <2>1, <2>2, <2>4, <2>5, <2>6, <3>2 DEF VersionNamesContent
    <3> QED
      BY <1>0, <3>1, <3>2
  <2>9. RowShowsRevision'
    BY <1>0, <2>3, <2>5, <2>6 DEF RowShowsRevision
  <2>10. ReadsPublished'
    BY <1>0, <2>1, <2>6 DEF ReadsPublished
  <2>11. InstanceRunsPublished'
    BY <1>0, <2>1, <2>6 DEF InstanceRunsPublished
  <2> QED
    BY <2>4, <2>7, <2>8, <2>9, <2>10, <2>11
<1>4. ASSUME NEW v \in 1 .. MaxVersion + 1, DisableDefinition(v)
      PROVE  DefinitionInv'
  <2>1. /\ def.status = "published"
        /\ UNCHANGED <<revisions, publishes, starts, instances>>
        /\ contents' = Append(contents, def.graph)
    BY <1>4 DEF DisableDefinition
  <2>2. def.graph \in ValidGraphs
    BY <2>1 DEF VersionNamesContent
  <2>3. def' \in Row /\ def'.version = def.version + 1 /\ def'.graph = def.graph
        /\ def'.status = "disabled" /\ def'.revision = def.revision
    <3>1. def.version + 1 \in Nat
      BY <1>0
    <3>2. def' = [def EXCEPT !.status = "disabled", !.version = def.version + 1]
      BY <1>4 DEF DisableDefinition
    <3> QED
      BY <3>1, <3>2 DEF TypeOK, Row
  <2>4. /\ VersionNamesContent' /\ contents' \in Seq(Graphs)
        /\ \A i \in DOMAIN contents : i \in DOMAIN contents' /\ contents'[i] = contents[i]
    BY <2>1, <2>2, <2>3, NewVersion
  <2>5. TypeOK'
    BY <2>1, <2>3, <2>4 DEF TypeOK
  <2>6. PublishedAsReviewed'
    BY <2>1, <2>4 DEF PublishedAsReviewed
  <2>7. RowShowsRevision'
    BY <2>1, <2>3 DEF RowShowsRevision
  <2>8. ReadsPublished' /\ InstanceRunsPublished'
    BY <2>1, ReadersKept
  <2> QED
    BY <2>4, <2>5, <2>6, <2>7, <2>8
<1>5. ASSUME \/ \E p \in Publishers, v \in 1 .. MaxVersion : CheckBeforePublish(p, v)
             \/ \E p \in Publishers : PublishFails(p)
             \/ UNCHANGED definitionVars
      PROVE  DefinitionInv'
  <2>1. UNCHANGED <<def, revisions, contents, starts, instances>>
    BY <1>5 DEF CheckBeforePublish, PublishFails, definitionVars
  <2>2. publishes' \in [Publishers -> Nat]
    BY <1>5, DefinitionConstants DEF CheckBeforePublish, PublishFails, definitionVars, TypeOK
  <2>3. TypeOK'
    BY <2>1, <2>2 DEF TypeOK
  <2> QED
    BY <2>1, <2>3, ReadersKept DEF VersionNamesContent, PublishedAsReviewed, RowShowsRevision
<1>6. ASSUME NEW s \in Starters, SelectPublished(s) \/ LoadRevision(s) \/ StartFails(s)
      PROVE  DefinitionInv'
  <2>1. UNCHANGED <<def, revisions, contents, publishes, instances>>
    BY <1>6 DEF SelectPublished, LoadRevision, StartFails
  <2>2. PICK x \in StartRequest :
           /\ starts' = [starts EXCEPT ![s] = x]
           /\ x.phase # "idle" =>
                /\ x.revision \in DOMAIN revisions
                /\ x.phase = "loaded" => /\ x.graph = revisions[x.revision].graph
                                         /\ x.graph \in Graphs
    <3>0. revisions \in Seq(Revision) /\ DOMAIN revisions = 1 .. Len(revisions)
      BY DEF TypeOK
    <3>1. CASE SelectPublished(s)
      <4> DEFINE x == [phase |-> "selected", revision |-> def.revision, graph |-> "none"]
      <4>1. x \in StartRequest /\ x.phase = "selected" /\ x.revision = def.revision
        BY <1>0 DEF StartRequest
      <4>2. def.revision \in DOMAIN revisions
        BY <1>0, <3>0, <3>1 DEF SelectPublished, RowShowsRevision
      <4>3. starts' = [starts EXCEPT ![s] = x]
        BY <3>1 DEF SelectPublished
      <4> HIDE DEF x
      <4> QED
        BY <4>1, <4>2, <4>3
    <3>2. CASE LoadRevision(s)
      <4> DEFINE r == starts[s].revision
                 x == [starts[s] EXCEPT !.phase = "loaded", !.graph = revisions[r].graph]
      <4>1. r \in DOMAIN revisions /\ r # 0 /\ starts[s] \in StartRequest
        BY <3>0, <3>2 DEF LoadRevision, ReadsPublished, TypeOK
      <4>2. revisions[r].graph \in Graphs
        <5>1. revisions[r] \in Revision
          BY <3>0, <4>1
        <5> QED
          BY <5>1 DEF Revision
      <4>3. /\ x \in StartRequest /\ x.phase = "loaded" /\ x.revision = r
            /\ x.graph = revisions[r].graph
        BY <4>1, <4>2 DEF StartRequest
      <4>4. starts' = [starts EXCEPT ![s] = x]
        BY <3>2, <4>1 DEF LoadRevision, GetDefinition, TypeOK
      <4> HIDE DEF x
      <4> QED
        BY <4>1, <4>2, <4>3, <4>4
    <3>3. CASE StartFails(s)
      <4>1. IdleStart \in StartRequest /\ IdleStart.phase = "idle"
        BY DEF IdleStart, StartRequest
      <4> QED
        BY <3>3, <4>1 DEF StartFails
    <3> QED
      BY <1>6, <3>1, <3>2, <3>3
  <2>3. TypeOK'
    BY <2>1, <2>2 DEF TypeOK
  <2>4. ReadsPublished'
    BY <2>1, <2>2 DEF ReadsPublished, TypeOK
  <2> QED
    BY <2>1, <2>3, <2>4
       DEF VersionNamesContent, PublishedAsReviewed, RowShowsRevision, InstanceRunsPublished
<1>7. ASSUME NEW s \in Starters, NEW k \in Keys, NEW b \in BusinessKeys, CreateInstance(s, k, b)
      PROVE  DefinitionInv'
  <2> DEFINE x == [key |-> k, business |-> b, revision |-> starts[s].revision,
                   graph |-> starts[s].graph]
  <2>1. /\ UNCHANGED <<def, revisions, contents, publishes>> /\ starts[s].phase = "loaded"
        /\ instances' = Append(instances, x) /\ starts' = [starts EXCEPT ![s] = IdleStart]
    BY <1>7 DEF CreateInstance
  <2>2. /\ x \in StartedInstance /\ x.revision \in DOMAIN revisions
        /\ x.graph = revisions[x.revision].graph
    BY <2>1 DEF TypeOK, StartRequest, StartedInstance, ReadsPublished
  <2>3. IdleStart \in StartRequest /\ IdleStart.phase = "idle"
    BY DEF IdleStart, StartRequest
  <2> HIDE DEF x
  <2>4. /\ instances' \in Seq(StartedInstance) /\ DOMAIN instances' = 1 .. Len(instances) + 1
        /\ DOMAIN instances = 1 .. Len(instances) /\ Len(instances) \in Nat
        /\ \A i \in 1 .. Len(instances) : instances'[i] = instances[i]
        /\ instances'[Len(instances) + 1] = x
    BY <2>1, <2>2, AppendFacts DEF TypeOK
  <2>5. TypeOK'
    BY <2>1, <2>3, <2>4 DEF TypeOK
  <2>6. ReadsPublished'
    BY <2>1, <2>3 DEF ReadsPublished, TypeOK
  <2>7. InstanceRunsPublished'
    BY <2>1, <2>2, <2>4 DEF InstanceRunsPublished
  <2> QED
    BY <2>1, <2>5, <2>6, <2>7 DEF VersionNamesContent, PublishedAsReviewed, RowShowsRevision
<1> QED
  BY <1>1, <1>2, <1>3, <1>4, <1>5, <1>6, <1>7 DEF Next

\* The inductive invariant holds in every reachable state.
THEOREM DefinitionInvariant == Spec => []DefinitionInv
<1>1. Init => DefinitionInv
  BY DEF Init, DefinitionInv, TypeOK, Row, StartRequest, IdleStart, VersionNamesContent,
         PublishedAsReviewed, RowShowsRevision, ReadsPublished, InstanceRunsPublished
<1>2. DefinitionInv /\ [Next]_definitionVars => DefinitionInv'
  BY DefinitionStep
<1> QED
  BY <1>1, <1>2, PTL DEF Spec

\* What is published is the valid graph of the version the publisher named,
\* for any number of racing editors and publishers (service.go:131-150).
THEOREM ReviewedIsPublished == Spec => []PublishedAsReviewed
<1>1. DefinitionInv => PublishedAsReviewed
  BY DEF DefinitionInv
<1> QED
  BY <1>1, DefinitionInvariant, PTL

\* A published row and its latest revision never drift apart.
THEOREM RowAgreesWithRevision == Spec => []RowShowsRevision
<1>1. DefinitionInv => RowShowsRevision
  BY DEF DefinitionInv
<1> QED
  BY <1>1, DefinitionInvariant, PTL

\* Every instance runs the published revision it is pinned to, however its
\* start interleaves with publish and disable (repository.go:157-167 and 251).
THEOREM InstancesRunPublished == Spec => []InstanceRunsPublished
<1>1. DefinitionInv => InstanceRunsPublished
  BY DEF DefinitionInv
<1> QED
  BY <1>1, DefinitionInvariant, PTL
==============================================================================
