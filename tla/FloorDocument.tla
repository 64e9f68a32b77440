----------------------------- MODULE FloorDocument -----------------------------
(***************************************************************************)
(* The floor document: one section per seam, read through one LiveReader    *)
(* (pane/floor_document.py, pane/readers.py), and for each running epic the  *)
(* join of its live answer with its workgraph, made twice from the same two  *)
(* reads: as the row's cards here and as the stage in pane/stage.py.         *)
(*                                                                         *)
(* Several documents are assembled at once: they interleave at every await,  *)
(* and share the reader's one Temporal client.  The factory moves, and the   *)
(* operator derives or archives a graph, between any two steps.              *)
(*                                                                         *)
(* What is inside the attention section is module Attention's; here it is    *)
(* one read that needs the client.                                           *)
(***************************************************************************)
EXTENDS Integers, FiniteSets

CONSTANTS Requests,     \* the documents asked for
          Epics,        \* the epics of the factory
          Fold,         \* Fold[n]: the name n casefolded; its domain is the names
          Graphs,       \* the node sets a workgraph can hold
          Answers,      \* what epic_status can name: node ids, each with its state
          NULL,         \* nothing: no id, no field, no epic, no client
          MaxMoves,     \* bound: changes of the world
          MaxFailures   \* bound: reads that fail

Names == DOMAIN Fold

ASSUME FloorDocumentAssumption ==
    /\ \A g \in Graphs : g \subseteq [id : {NULL} \cup Names, key : {NULL} \cup Names,
                                      deps : SUBSET Names, merged : SUBSET Names]
    /\ \A a \in Answers : DOMAIN a \subseteq Names
    /\ NULL \notin Names \cup Requests \cup Epics \cup {"seam", "archive"}
    /\ MaxMoves \in Nat /\ MaxFailures \in Nat

\* A compiled graph names each of its nodes apart.
ASSUME IdsAssumption ==
    \A g \in Graphs : \A m, n \in g : m.id = n.id /\ m.id # NULL => m = n

VARIABLES
    seam,       \* seam[e]: <specs root>/<e>/workgraph.json
    archive,    \* archive[e]: docs/dags/<e>.json
    live,       \* live[e]: what the epic's workflow would answer, NULL: not running
    client,     \* reader._client: the request whose connection is kept
    opened,     \* the connections open, each named by the request that made it
    req,        \* req[r]: the document being assembled, and the assembly's locals
    told,       \* history: told[r][e]: what the reads of e found for r
    moves, failures

world == <<seam, archive, live>>
vars == <<seam, archive, live, client, opened, req, told, moves, failures>>

Absent == [is |-> "absent", nodes |-> {}]
Broken == [is |-> "broken", nodes |-> {}]       \* as bytes or as JSON
Files == {Absent, Broken} \cup [is : {"graph"}, nodes : Graphs]

Unanswered(mode) == [is |-> mode, nodes |-> [i \in {} |-> NULL]]
Nowhere == [e \in Epics |-> NULL]

Init ==
    /\ seam \in [Epics -> Files] /\ archive \in [Epics -> Files]
    /\ live \in [Epics -> {NULL} \cup Answers]
    /\ client = NULL /\ opened = {}
    /\ req = [r \in Requests |-> [at |-> "idle", conn |-> NULL, todo |-> {},
                                  status |-> Unanswered("transport"), lost |-> NULL,
                                  epics |-> Nowhere, degraded |-> {}]]
    /\ told = [r \in Requests |-> Nowhere]
    /\ moves = 0 /\ failures = 0

---------------------------------------------------------------------------------
(* The join *)

\* Every failure of the archive told as the seam's.
ReadWorkgraphCollapsed(s, a) ==
    CASE s.is = "graph"  -> [is |-> "graph", source |-> "seam", nodes |-> s.nodes]
      [] s.is # "graph" /\ a.is = "graph"
                         -> [is |-> "graph", source |-> "archive", nodes |-> a.nodes]
      [] OTHER           -> [is |-> "transport", source |-> NULL, nodes |-> {}]

\* The seam's graph, else the archived one.  A seam that fails to open or to parse
\* is a transport failure, raised again when there is no archive either; an archive
\* that is there and does not parse travels up as itself.
ReadWorkgraph(s, a) ==
    CASE s.is = "graph"  -> [is |-> "graph", source |-> "seam", nodes |-> s.nodes]
      [] s.is # "graph" /\ a.is = "graph"
                         -> [is |-> "graph", source |-> "archive", nodes |-> a.nodes]
      [] s.is # "graph" /\ a.is = "broken"
                         -> [is |-> "unparseable", source |-> NULL, nodes |-> {}]
      [] OTHER           -> [is |-> "transport", source |-> NULL, nodes |-> {}]

StoryNames(node) == {Fold[n] : n \in {node.id, node.key} \ {NULL}}

Ids(nodes) == {n.id : n \in nodes}

\* The two spellings of a story taken for two stories.
GraphMismatchUnfolded(graph, status) ==
    LET declared == Ids(graph.nodes) \ {NULL}
    IN /\ graph.is = "graph" /\ declared # {} /\ DOMAIN status.nodes # {}
       /\ declared \cap DOMAIN status.nodes = {}

\* No story of the graph is one the floor names, and both name some.
GraphMismatch(graph, status) ==
    LET declared == UNION {StoryNames(n) : n \in graph.nodes}
        floor == {Fold[i] : i \in DOMAIN status.nodes}
    IN graph.is = "graph" /\ declared # {} /\ floor # {} /\ declared \cap floor = {}

\* The live state of a node; a node or a field the answer lacks is unknown.
StateOf(i, status) ==
    IF i \in DOMAIN status.nodes /\ status.nodes[i] # NULL THEN status.nodes[i]
    ELSE "unknown"

NodeCard(i, declared, status) ==
    [id |-> i, declared |-> declared # {}, state |-> StateOf(i, status),
     deps |-> UNION {n.deps : n \in declared},
     merged |-> UNION {n.merged : n \in declared}]

\* A stray sought by the story it spells, where its state is joined by its id.
CardsFolded(graph, status) ==
    LET joined == IF GraphMismatch(graph, status) THEN {} ELSE graph.nodes
        drawn == UNION {StoryNames(n) : n \in joined}
    IN {NodeCard(n.id, {n}, status) : n \in {m \in joined : m.id # NULL}}
       \cup {NodeCard(i, {}, status) : i \in {j \in DOMAIN status.nodes : Fold[j] \notin drawn}}

\* A row drawn whatever the names say.
CardsUnmatched(graph, status) ==
    {NodeCard(n.id, {n}, status) : n \in {m \in graph.nodes : m.id # NULL}}
    \cup {NodeCard(i, {}, status) : i \in DOMAIN status.nodes \ Ids(graph.nodes)}

\* The row: the nodes of the graph joined, then the nodes only the floor names.
Cards(graph, status) ==
    LET joined == IF GraphMismatch(graph, status) THEN {} ELSE graph.nodes
    IN {NodeCard(n.id, {n}, status) : n \in {m \in joined : m.id # NULL}}
       \cup {NodeCard(i, {}, status) : i \in DOMAIN status.nodes \ Ids(joined)}

Edges(nodes, kind) == UNION {{<<d, n.id, kind>> : d \in IF kind = "pass" THEN n.deps ELSE n.merged} : n \in nodes}

\* A stage whose merge edges are left out.
StageOfPasses(graph, status) ==
    LET drawn == {n \in graph.nodes : n.id # NULL} IN
    [nodes |-> {[id |-> n.id, state |-> StateOf(n.id, status)] : n \in drawn},
     edges |-> Edges(drawn, "pass"),
     strays |-> IF graph.is = "graph" THEN DOMAIN status.nodes \ Ids(graph.nodes) ELSE {},
     degraded |-> graph.is # "graph" \/ status.is # "answer"]

\* The stage: every node of the graph it is given, its edges, and the strays named
\* in the notes; nothing at all without a graph.
Stage(graph, status) ==
    LET drawn == {n \in graph.nodes : n.id # NULL} IN
    [nodes |-> {[id |-> n.id, state |-> StateOf(n.id, status)] : n \in drawn},
     edges |-> Edges(drawn, "pass") \cup Edges(drawn, "merge"),
     strays |-> IF graph.is = "graph" THEN DOMAIN status.nodes \ Ids(graph.nodes) ELSE {},
     degraded |-> graph.is # "graph" \/ status.is # "answer"]

Degraded(section, mode, e) == [section |-> section, mode |-> mode, epic |-> e]

EpicEntry(graph, status) ==
    [cards |-> Cards(graph, status), stage |-> Stage(graph, status),
     source |-> graph.source]

\* The entries of degraded one epic adds: its answer, its graph, their mismatch.
EpicFailures(e, graph, status) ==
    {Degraded("epics", m, e) : m \in
        (({status.is} \cup {graph.is}) \ {"answer", "graph"})
        \cup (IF GraphMismatch(graph, status) THEN {"mismatch"} ELSE {})}

---------------------------------------------------------------------------------
(* The assembly *)

Fail == failures < MaxFailures /\ failures' = failures + 1

Succeed == UNCHANGED failures

\* collect_floor, over a connection of its own: the epics running, or a named failure.
ReadFloor(r) ==
    /\ req[r].at = "idle"
    /\ \/ /\ Succeed
          /\ req' = [req EXCEPT ![r].at = "attention",
                                ![r].todo = {e \in Epics : live[e] # NULL}]
       \/ \E m \in {"transport", "refusal"} :
          /\ Fail
          /\ req' = [req EXCEPT ![r].at = "attention",
                                ![r].degraded = @ \cup {Degraded("floor", m, NULL)}]
    /\ UNCHANGED <<world, client, opened, told, moves>>

NeedsClient(r) ==
    /\ \/ req[r].at = "attention"
       \/ req[r].at = "epics" /\ req[r].todo # {}
    /\ req[r].conn = NULL

\* _open_client: the client kept, or one's own once it is connected.  Whoever finds
\* none connects, and the last to be connected is the one kept.
OpenClient(r) ==
    /\ NeedsClient(r)
    /\ IF client # NULL
       THEN req' = [req EXCEPT ![r].conn = client]
       ELSE req' = [req EXCEPT ![r].at = IF @ = "attention" THEN "connecting" ELSE "reconnecting"]
    /\ UNCHANGED <<world, client, opened, told, moves, failures>>

\* A client that is opened and never kept.
ConnectedUnkept(r) ==
    /\ req[r].at \in {"connecting", "reconnecting"}
    /\ client' = client /\ opened' = opened \cup {r}
    /\ req' = [req EXCEPT ![r].at = IF @ = "connecting" THEN "attention" ELSE "epics",
                          ![r].conn = r]
    /\ UNCHANGED <<world, told, moves, failures>>

Connected(r) ==
    /\ req[r].at \in {"connecting", "reconnecting"}
    /\ client' = r /\ opened' = opened \cup {r}
    /\ req' = [req EXCEPT ![r].at = IF @ = "connecting" THEN "attention" ELSE "epics",
                          ![r].conn = r]
    /\ UNCHANGED <<world, told, moves, failures>>

\* The connection is refused: the exception is not the reader's to translate, since
\* its `try` begins after it, and the document is lost.
ConnectRefused(r) ==
    /\ req[r].at \in {"connecting", "reconnecting"}
    /\ Fail
    /\ req' = [req EXCEPT ![r].at = "raised", ![r].lost = "connection"]
    /\ UNCHANGED <<world, client, opened, told, moves>>

\* The attention section's read of the factory.
ReadAttention(r) ==
    /\ req[r].at = "attention" /\ req[r].conn # NULL
    /\ \E failed \in {{}} \cup {{Degraded("attention", m, NULL)} : m \in {"transport", "refusal"}} :
        /\ IF failed = {} THEN Succeed ELSE Fail
        /\ req' = [req EXCEPT ![r].at = "stores", ![r].conn = NULL,
                              ![r].degraded = @ \cup failed]
    /\ UNCHANGED <<world, client, opened, told, moves>>

\* Health and spend, read without an await between them.  A store that does not open
\* degrades its section; one that opens and fails to answer is not translated.
ReadStores(r) ==
    /\ req[r].at = "stores"
    /\ \/ /\ Succeed /\ req' = [req EXCEPT ![r].at = "epics"]
       \/ \E section \in {"health", "spend_to_date"} :
          /\ Fail
          /\ req' = [req EXCEPT ![r].at = "epics",
                                ![r].degraded = @ \cup {Degraded(section, "transport", NULL)}]
       \/ Fail /\ req' = [req EXCEPT ![r].at = "raised", ![r].lost = "store"]
    /\ UNCHANGED <<world, client, opened, told, moves>>

\* epic_status of the next epic; an epic that has ended since the floor was read
\* refuses the query.
EpicStatus(r) == \E e \in req[r].todo :
    /\ req[r].at = "epics" /\ req[r].conn # NULL
    /\ \E status \in [is : {"answer"}, nodes : Answers] \cup {Unanswered("transport"), Unanswered("refusal")} :
        /\ \/ status.is = "answer" /\ status.nodes = live[e] /\ Succeed
           \/ status.is = "refusal" /\ live[e] = NULL /\ Succeed
           \/ status.is # "answer" /\ Fail
        /\ req' = [req EXCEPT ![r].at = "graph", ![r].conn = NULL,
                              ![r].status = status]
        /\ told' = [told EXCEPT ![r][e] = [status |-> status, seam |-> NULL, archive |-> NULL]]
    /\ UNCHANGED <<world, client, opened, moves>>

\* The same epic's graph, without an await, and the two joins.  The two files may
\* be any pair here, as they may when one is read just before the other.
JoinEpic(r) == \E e \in req[r].todo :
    /\ req[r].at = "graph"
    /\ told[r][e] # NULL /\ req[r].epics[e] = NULL
    /\ LET graph == ReadWorkgraph(seam[e], archive[e])
           status == req[r].status
       IN req' = [req EXCEPT ![r].at = "epics", ![r].todo = @ \ {e},
                             ![r].epics[e] = EpicEntry(graph, status),
                             ![r].degraded = @ \cup EpicFailures(e, graph, status)]
    /\ told' = [told EXCEPT ![r][e] = [status |-> req[r].status, seam |-> seam[e],
                                        archive |-> archive[e]]]
    /\ UNCHANGED <<world, client, opened, moves, failures>>

Serve(r) ==
    /\ req[r].at = "epics" /\ req[r].todo = {}
    /\ req' = [req EXCEPT ![r].at = "served"]
    /\ UNCHANGED <<world, client, opened, told, moves, failures>>

---------------------------------------------------------------------------------
(* Meanwhile *)

Move ==
    /\ moves < MaxMoves /\ moves' = moves + 1
    /\ \E e \in Epics :
        \/ \E f \in Files \ {seam[e]} : seam' = [seam EXCEPT ![e] = f] /\ UNCHANGED <<archive, live>>
        \/ \E f \in Files \ {archive[e]} : archive' = [archive EXCEPT ![e] = f] /\ UNCHANGED <<seam, live>>
        \/ \E a \in ({NULL} \cup Answers) \ {live[e]} : live' = [live EXCEPT ![e] = a] /\ UNCHANGED <<seam, archive>>
    /\ UNCHANGED <<client, opened, req, told, failures>>

\* A client closed and still kept.
ShutdownKeeping ==
    /\ \A r \in Requests : req[r].at \in {"served", "raised"}
    /\ client \in opened
    /\ opened' = opened \ {client} /\ client' = client
    /\ UNCHANGED <<world, req, told, moves, failures>>

\* The app's lifespan ends: the client kept is closed.
Shutdown ==
    /\ \A r \in Requests : req[r].at \in {"served", "raised"}
    /\ client # NULL
    /\ opened' = opened \ {client} /\ client' = NULL
    /\ UNCHANGED <<world, req, told, moves, failures>>

Next ==
    \/ \E r \in Requests :
        \/ ReadFloor(r) \/ OpenClient(r) \/ Connected(r) \/ ConnectRefused(r)
        \/ ReadAttention(r) \/ ReadStores(r) \/ EpicStatus(r) \/ JoinEpic(r) \/ Serve(r)
    \/ Move
    \/ Shutdown

Spec == Init /\ [][Next]_vars

---------------------------------------------------------------------------------
(* Properties *)

Connecting == {r \in Requests : req[r].at \in {"connecting", "reconnecting"}}

Joined(r, e) == req[r].epics[e] # NULL

Says(r, e, mode) == Degraded("epics", mode, e) \in req[r].degraded

\* The shape of the state; the client kept is one that is open.
TypeOK ==
    /\ seam \in [Epics -> Files] /\ archive \in [Epics -> Files]
    /\ live \in [Epics -> {NULL} \cup Answers]
    /\ opened \subseteq Requests /\ client \in {NULL} \cup opened
    /\ \A r \in Requests :
        /\ req[r].at \in {"idle", "attention", "connecting", "stores", "epics",
                          "reconnecting", "graph", "served", "raised"}
        /\ req[r].conn \in {NULL} \cup opened
        /\ req[r].todo \subseteq Epics
    /\ moves \in 0..MaxMoves /\ failures \in 0..MaxFailures

\* Every node an epic's answer names is on its row exactly once, with the state the
\* answer gave it: whichever graph was read, refused or not found, and however the
\* graph spells the story (_assemble_epic, _node_card).
EveryNodeOnce ==
    \A r \in Requests, e \in Epics : Joined(r, e) =>
        LET status == told[r][e].status IN
        \A i \in DOMAIN status.nodes :
            /\ [id |-> i, state |-> StateOf(i, status)] \in
                    {[id |-> c.id, state |-> c.state] : c \in req[r].epics[e].cards}
            /\ \A c, d \in req[r].epics[e].cards : c.id = i /\ d.id = i => c = d

\* A row draws the nodes and dependencies of a graph exactly when that graph is about
\* one of the stories the epic's answer names, in either spelling, or there is no
\* name to compare (_graph_mismatch).
OnlyItsOwnEdges ==
    \A r \in Requests, e \in Epics : Joined(r, e) =>
        LET t == told[r][e]
            graph == IF t.seam.is = "graph" THEN t.seam.nodes ELSE t.archive.nodes
            stories == UNION {StoryNames(n) : n \in graph}
            shared == \E i \in DOMAIN t.status.nodes : Fold[i] \in stories
            drawn == \E c \in req[r].epics[e].cards : c.declared
        IN /\ drawn /\ DOMAIN t.status.nodes # {} => shared
           /\ shared /\ Ids(graph) # {NULL} => drawn
           /\ ~drawn => \A c \in req[r].epics[e].cards : c.deps \cup c.merged = {}

\* The row and the stage of one epic are joined apart from the same two reads, and
\* where the graph is accepted they agree: the same nodes in the same states, the
\* same edges, the strays of the one undeclared on the other (pane/stage.py).
RowAndStageAgree ==
    \A r \in Requests, e \in Epics : Joined(r, e) /\ ~Says(r, e, "mismatch") =>
        LET cards == req[r].epics[e].cards
            stage == req[r].epics[e].stage
            declared == {c \in cards : c.declared}
        IN /\ stage.nodes = {[id |-> c.id, state |-> c.state] : c \in declared}
           /\ stage.edges = Edges(declared, "pass") \cup Edges(declared, "merge")
           /\ req[r].epics[e].source # NULL => stage.strays = Ids(cards \ declared)

\* A graph that was not read is told apart from one that was: an archive found broken
\* is `unparseable`, never the `transport` of a missing one, and a graph that was
\* read names the door it came through (_read_workgraph).
GraphFailureIsTold ==
    \A r \in Requests, e \in Epics : Joined(r, e) =>
        LET t == told[r][e]
            d == req[r].epics[e]
            found == t.seam.is = "graph" \/ t.archive.is = "graph"
        IN /\ Says(r, e, "unparseable") <=> ~found /\ t.archive.is = "broken"
           /\ (d.source = NULL) <=> ~found
           /\ ~found /\ t.archive.is = "absent" => Says(r, e, "transport")

\* A client once opened is shared from then on: nobody connects again unless they had
\* found none before it was kept, so no more clients are left open than documents were
\* in flight at the first connection (LiveReader._open_client).
ClientIsShared ==
    [][opened # {} /\ Connecting = {} => Connecting' = {}]_vars

\* What is said of it: a connection refused is a failed read, named in `degraded`,
\* and the document is served.
RefusedConnectionIsDegraded == \A r \in Requests : req[r].at = "raised" => req[r].lost # "connection"
=================================================================================
