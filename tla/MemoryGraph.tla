---------------------------- MODULE MemoryGraph ----------------------------
(***************************************************************************)
(* The graph of a project (server/src/brain/graph.ts): its latest analysis *)
(* with citations and reviews, or the memory registered now with the       *)
(* concepts Cognee extracted from it.  The concepts are asked for after    *)
(* the registrations were read, and the memory changes meanwhile.          *)
(*                                                                         *)
(* A list of nodes or edges is the set of its members; each keeps its      *)
(* place in it: the loop that added it, the item, the position there.      *)
(*                                                                         *)
(* Abstractions: a capture stands for the dataset it is indexed as; texts  *)
(* are left out, and the line of a citation is part of its quote.  Cognee  *)
(* is external: it answers with the nodes of the datasets, or with         *)
(* something else, which the code refuses.                                 *)
(***************************************************************************)
EXTENDS Integers, Sequences, FiniteSets, Absence

CONSTANTS
  Captures,
  Concepts,        \* Concepts[c]: the concepts of a capture, in order
  Relations,       \* Relations[c]: pairs of positions in Concepts[c], in order
  Memories,        \* initial memories: registrations in order
  Snapshots,       \* analyses: [sources, requirements, findings]
  MaxGraphNodes, MaxGraphEdges, MaxChanges

VARIABLES
  memory,    \* registrations: [approved, withdrawn, ready, shared, capture, parent]
  run,       \* the latest analysis of the project, or None
  request,   \* None or [graph, indexed]: it waits for the concepts
  answer,    \* the graph that was answered last, or None
  changes

graphVars == <<memory, run, request, answer, changes>>

Registrations ==
  [approved : BOOLEAN, withdrawn : BOOLEAN, ready : BOOLEAN, shared : BOOLEAN,
   capture : Captures \cup {None}, parent : Nat \cup {None}]
Requirements == [id : Nat, source : Captures, quote : Nat]
Findings ==
  [id : Nat, requirement : Nat \cup {None}, source : Captures, quote : Nat,
   evidence : Seq(Captures), reviewed : BOOLEAN]

Distinct(s) == \A i, j \in DOMAIN s : s[i] = s[j] => i = j
\* A capture is of one source, and so of one registration.
OwnCaptures(registered) ==
  \A i, j \in DOMAIN registered :
    registered[i].capture = registered[j].capture /\ registered[i].capture # None => i = j
Identified(snapshot) ==
  /\ snapshot.sources \in Seq(Captures) /\ Distinct(snapshot.sources)
  /\ snapshot.requirements \in Seq(Requirements) /\ Distinct([i \in DOMAIN snapshot.requirements |-> snapshot.requirements[i].id])
  /\ snapshot.findings \in Seq(Findings) /\ Distinct([i \in DOMAIN snapshot.findings |-> snapshot.findings[i].id])

\* What the store promises: ids are of one record each, and a dataset names a concept once.
ASSUME GraphAssumption ==
  /\ MaxGraphNodes \in Nat /\ MaxGraphEdges \in Nat /\ MaxChanges \in Nat
  /\ None \notin Captures
  /\ \A c \in Captures :
       /\ Concepts[c] \in Seq(STRING) /\ Distinct(Concepts[c])
       /\ Relations[c] \in Seq((DOMAIN Concepts[c]) \X (DOMAIN Concepts[c]))
  /\ \A registered \in Memories : registered \in Seq(Registrations) /\ OwnCaptures(registered)
  /\ \A snapshot \in Snapshots : snapshot = None \/ Identified(snapshot)

-----------------------------------------------------------------------------
(* Graphs.                                                                 *)

Project == <<"project">>
SourceOf(c) == <<"source", c>>
Node(id, capture, at) == [id |-> id, capture |-> capture, dataset |-> None, at |-> at]
Edge(from, to, label, at) == [from |-> from, to |-> to, label |-> label, at |-> at]
Ids(graph) == {x.id : x \in graph.nodes}

Before(p, q) ==
  \/ p[1] < q[1]
  \/ p[1] = q[1] /\ p[2] < q[2]
  \/ p[1] = q[1] /\ p[2] = q[2] /\ p[3] < q[3]
Leading(set, n) == {x \in set : Cardinality({y \in set : Before(y.at, x.at)}) < n}

EmptyGraph == [nodes |-> {Node(Project, None, <<0, 0, 0>>)}, edges |-> {}, truncated |-> FALSE, warned |-> FALSE]
AddNodes(graph, nodes) == [graph EXCEPT !.nodes = @ \cup nodes]

\* addEdge, one after the other: both ends are shown, and every edge is there once.
Joined(graph, e) == {e.from, e.to} \subseteq Ids(graph)
SameEdge(d, e) == d.from = e.from /\ d.to = e.to /\ d.label = e.label
AddEdges(graph, edges) ==
  LET tried == {e \in edges : Joined(graph, e)}
      repeated == {e \in tried : \E d \in graph.edges \cup tried : SameEdge(d, e) /\ Before(d.at, e.at)}
  IN [graph EXCEPT !.edges = @ \cup (tried \ repeated)]

\* Mutant: the edges of nodes that are cut off are left.
LimitedApart(graph) ==
  [graph EXCEPT !.nodes = Leading(@, MaxGraphNodes), !.edges = Leading(@, MaxGraphEdges),
                !.truncated = @ \/ Cardinality(graph.nodes) > MaxGraphNodes \/ Cardinality(graph.edges) > MaxGraphEdges]

Limited(graph) ==
  LET shown == [graph EXCEPT !.nodes = Leading(@, MaxGraphNodes)]
      closed == {e \in graph.edges : Joined(shown, e)}
  IN [shown EXCEPT !.edges = Leading(closed, MaxGraphEdges),
                   !.truncated = @ \/ Cardinality(graph.nodes) > MaxGraphNodes \/ Cardinality(closed) > MaxGraphEdges]

-----------------------------------------------------------------------------
(* The analysis: buildProjectGraph.                                        *)

RequirementId(q) == <<"requirement", q.id>>
FindingId(f) == <<"finding", f.id>>
ReviewId(f) == <<"review", f.id>>

\* Older findings name no requirement: the same citation, if only one has it.
Checked(f) ==
  {i \in DOMAIN run.requirements :
     LET q == run.requirements[i]
     IN IF f.requirement # None THEN q.id = f.requirement ELSE q.source = f.source /\ q.quote = f.quote}

FindingNodes(i) ==
  LET f == run.findings[i]
  IN {Node(FindingId(f), f.source, <<3, i, 1>>)} \cup IF f.reviewed THEN {Node(ReviewId(f), None, <<3, i, 2>>)} ELSE {}
FindingEdges(i) ==
  LET f == run.findings[i]
  IN {Edge(FindingId(f), RequirementId(run.requirements[j]), "checks", <<3, i, 1>>) : j \in {k \in Checked(f) : Checked(f) = {k}}}
     \cup {Edge(FindingId(f), SourceOf(f.source), "cites", <<3, i, 2>>)}
     \cup {Edge(FindingId(f), SourceOf(f.evidence[j]), "observes", <<3, i, 2 + j>>) : j \in DOMAIN f.evidence}
     \cup {Edge(ReviewId(f), FindingId(f), "reviews", <<3, i, 3 + Len(f.evidence)>>)}

AnalysisNodes ==
  {Node(SourceOf(run.sources[i]), run.sources[i], <<1, i, 1>>) : i \in DOMAIN run.sources}
  \cup {Node(RequirementId(run.requirements[i]), run.requirements[i].source, <<2, i, 1>>) : i \in DOMAIN run.requirements}
  \cup UNION {FindingNodes(i) : i \in DOMAIN run.findings}
AnalysisEdges ==
  {Edge(Project, SourceOf(run.sources[i]), "captures", <<1, i, 1>>) : i \in DOMAIN run.sources}
  \cup {Edge(RequirementId(run.requirements[i]), SourceOf(run.requirements[i].source), "cites", <<2, i, 1>>) : i \in DOMAIN run.requirements}
  \cup UNION {FindingEdges(i) : i \in DOMAIN run.findings}
AnalysisGraph == IF run = None THEN EmptyGraph ELSE AddEdges(AddNodes(EmptyGraph, AnalysisNodes), AnalysisEdges)

ShowAnalysis ==
  /\ request = None /\ answer' = Limited(AnalysisGraph)
  /\ UNCHANGED <<memory, run, request, changes>>

-----------------------------------------------------------------------------
(* The memory of now: addCurrentMemory.                                    *)

RegistrationId(i) == IF memory[i].capture = None THEN <<"registration", i>> ELSE SourceOf(memory[i].capture)
Included(scope) == {i \in DOMAIN memory : ~memory[i].withdrawn /\ (scope = "project" \/ memory[i].shared)}

MemoryNodes(scope) == {Node(RegistrationId(i), memory[i].capture, <<1, i, 1>>) : i \in Included(scope)}
MemoryEdges(scope) ==
  {Edge(Project, RegistrationId(i), IF memory[i].shared THEN "includes" ELSE "registers", <<1, i, 1>>) : i \in Included(scope)}
  \cup {Edge(RegistrationId(memory[i].parent), RegistrationId(i), "contains", <<2, i, 1>>) :
           i \in {k \in Included(scope) : memory[k].parent \in Included(scope)}}
CurrentMemory(scope) == AddEdges(AddNodes(EmptyGraph, MemoryNodes(scope)), MemoryEdges(scope))

\* The approved and synchronized registrations, by the capture they are indexed as.
IndexedNow(scope) ==
  {[registration |-> i, dataset |-> memory[i].capture] :
     i \in {k \in Included(scope) : memory[k].approved /\ memory[k].ready /\ memory[k].capture # None}}

AskGraph(scope, concepts) ==
  /\ request = None
  /\ IF concepts /\ IndexedNow(scope) # {}
     THEN request' = [graph |-> CurrentMemory(scope), indexed |-> IndexedNow(scope)] /\ UNCHANGED answer
     ELSE answer' = Limited(CurrentMemory(scope)) /\ UNCHANGED request
  /\ UNCHANGED <<memory, run, changes>>

\* The capture that the concepts of a dataset are shown at.
\* Mutant: the one that is current when they arrive.
CaptureByThen(entry) == memory[entry.registration].capture

CaptureOf(entry) == entry.dataset

EntityId(dataset, k) == <<"entity", dataset, Concepts[dataset][k]>>

\* addExtractedGraph; Cognee answers with no more nodes than its own limit.
ExtractedOf(entry) ==
  {[id |-> EntityId(entry.dataset, k), capture |-> CaptureOf(entry), dataset |-> entry.dataset, at |-> <<3, entry.registration, k>>] :
     k \in DOMAIN Concepts[entry.dataset]}
Extracted(indexed) == UNION {ExtractedOf(entry) : entry \in indexed}

Links(entities) == {Edge(SourceOf(x.capture), x.id, "extracted", x.at) : x \in entities}
RelationsOf(entry) ==
  LET related == Relations[entry.dataset]
  IN {Edge(EntityId(entry.dataset, related[k][1]), EntityId(entry.dataset, related[k][2]), "relates", <<4, entry.registration, k>>) :
        k \in DOMAIN related}

Enriched(graph, indexed) ==
  LET entities == Leading(Extracted(indexed), MaxGraphNodes)
  IN [AddEdges(AddNodes(graph, entities), Links(entities) \cup UNION {RelationsOf(entry) : entry \in indexed})
      EXCEPT !.truncated = Cardinality(Extracted(indexed)) > MaxGraphNodes]

ExtractGraph ==
  /\ request # None
  /\ answer' = Limited(Enriched(request.graph, request.indexed))
  /\ request' = None /\ UNCHANGED <<memory, run, changes>>

\* Cognee does not answer, or with nodes of other datasets: the recorded links are shown alone.
ExtractFails ==
  /\ request # None
  /\ answer' = Limited([request.graph EXCEPT !.warned = TRUE])
  /\ request' = None /\ UNCHANGED <<memory, run, changes>>

-----------------------------------------------------------------------------
(* The memory changes (MemorySync).                                        *)

Alter(i, registration) ==
  /\ changes > 0 /\ changes' = changes - 1
  /\ memory' = [memory EXCEPT ![i] = registration]
  /\ UNCHANGED <<run, request, answer>>

Publish(i, c) ==
  /\ ~memory[i].withdrawn /\ \A j \in DOMAIN memory : memory[j].capture # c
  /\ Alter(i, [memory[i] EXCEPT !.capture = c, !.ready = TRUE])
Withdraw(i) == ~memory[i].withdrawn /\ Alter(i, [memory[i] EXCEPT !.withdrawn = TRUE, !.ready = FALSE])

GraphInit == memory \in Memories /\ run \in Snapshots /\ request = None /\ answer = None /\ changes = MaxChanges

GraphNext ==
  \/ ShowAnalysis \/ ExtractGraph \/ ExtractFails
  \/ \E scope \in {"project", "shared"}, concepts \in BOOLEAN : AskGraph(scope, concepts)
  \/ \E i \in DOMAIN memory : Withdraw(i) \/ \E c \in Captures : Publish(i, c)

GraphSpec == GraphInit /\ [][GraphNext]_graphVars

-----------------------------------------------------------------------------
GraphTypeOK == changes \in 0..MaxChanges /\ (answer # None => answer.truncated \in BOOLEAN /\ answer.warned \in BOOLEAN)

\* A graph is closed however much of it is cut off: its edges join nodes it shows, no node or
\* edge is there twice, and it keeps to the limits (addEdge, limitGraph).
GraphIsClosed ==
  answer # None =>
    /\ \A e \in answer.edges : Joined(answer, e)
    /\ \A d, e \in answer.edges : SameEdge(d, e) => d = e
    /\ \A x, y \in answer.nodes : x.id = y.id => x = y
    /\ Cardinality(answer.nodes) <= MaxGraphNodes /\ Cardinality(answer.edges) <= MaxGraphEdges

Entities(graph) == {x \in graph.nodes : x.id[1] = "entity"}

\* Concepts are shown at the capture they were extracted from, linked to it unless edges were
\* cut off, also when the source got a new capture or was withdrawn before they arrived; none
\* is shown beside the warning that they are missing (addExtractedGraph).
ConceptsOfTheirCapture ==
  answer # None =>
    /\ answer.warned => Entities(answer) = {}
    /\ \A x \in Entities(answer) :
         /\ x.capture = x.dataset
         /\ ~answer.truncated => \E e \in answer.edges : e.from = SourceOf(x.dataset) /\ e.to = x.id

GraphHolds == GraphIsClosed /\ ConceptsOfTheirCapture
=============================================================================
