----------------------------- MODULE Ingestion -----------------------------
(***************************************************************************)
(* The ingestion jobs (pipelines/ingestion/main.py) and the two stores     *)
(* they write: entities and relationships in Neo4j, vectors in Qdrant.     *)
(*                                                                         *)
(* A job parses the documents under its prefix into chunk rows, keeps the  *)
(* rows in the cluster's memory, writes the graph of every row and then    *)
(* the vector of every row.  Rows are worked on by tasks of many workers,  *)
(* in any order and at the same time, and jobs overlap: storage raises an  *)
(* event for every upload, and may raise one twice.                        *)
(*                                                                         *)
(* Abstractions.  A batch is one row.  An entity is its label and name.  A *)
(* row's text fixes the graph its extraction yields (the temperature is 0) *)
(* unless the extraction fails.  The merges of one transaction read the    *)
(* graph once, where Neo4j reads it at every statement.                    *)
(***************************************************************************)
EXTENDS Integers, FiniteSets

CONSTANTS Job,      \* the submitted jobs
          Doc,      \* the documents: each content a name in storage may have
          Scopes,   \* the sets of documents a prefix may cover
          Row,      \* the chunk rows of all documents
          RowsOf,   \* RowsOf[d]: the rows of d, none if d cannot be parsed
          Text,     \* the texts of chunks, one per content hash
          TextOf,   \* TextOf[r]: the text of row r
          Entity,   \* the entities
          NodesOf,  \* NodesOf[t]: the entities the model finds in t
          EdgesOf,  \* EdgesOf[t]: the relationships it finds, as pairs
          MaxLost   \* bound: the workers a job loses in mid-write

ASSUME TablesAssumption ==
    /\ Scopes \subseteq SUBSET Doc
    /\ RowsOf \in [Doc -> SUBSET Row] /\ TextOf \in [Row -> Text]
    /\ NodesOf \in [Text -> SUBSET Entity]
    /\ EdgesOf \in [Text -> SUBSET (Entity \X Entity)]
ASSUME BoundAssumption == MaxLost \in Nat

VARIABLES stage,    \* stage[j]: the statement of main() job j is at
          rows,     \* rows[j]: the materialized rows
          graph,    \* graph[j][r]: the state of r's task in the graph branch
          found,    \* found[j][r]: what the extraction of r gave
          created,  \* created[j][r]: the nodes r's open transaction creates
          vector,   \* vector[j][r]: the state of r's task in the other branch
          lost,     \* lost[j]: workers lost so far
          copies,   \* copies[e]: the nodes of entity e in the graph
          edges,    \* the relationships in the graph
          points,   \* the points of the collection
          contested \* (history) the entities that two open transactions had
                    \* in hand at the same time

control == <<stage, rows, lost>>
graphBranch == <<graph, found, created, copies, edges, contested>>
vectorBranch == <<vector, points>>
vars == <<control, graphBranch, vectorBranch>>

Init ==
    /\ stage   = [j \in Job |-> "idle"]
    /\ rows    = [j \in Job |-> {}]
    /\ graph   = [j \in Job |-> [r \in Row |-> "wait"]]
    /\ found   = [j \in Job |-> [r \in Row |-> "nothing"]]
    /\ created = [j \in Job |-> [r \in Row |-> {}]]
    /\ vector  = [j \in Job |-> [r \in Row |-> "wait"]]
    /\ lost    = [j \in Job |-> 0]
    /\ copies  = [e \in Entity |-> 0]
    /\ edges   = {}
    /\ points  = {}
    /\ contested = {}

\* The first execution: process_batch parses what the job's prefix covers by
\* now; a document that cannot be parsed contributes no rows.
ReadDocuments(j, scope) ==
    /\ stage[j] = "idle"
    /\ rows'  = [rows EXCEPT ![j] = UNION { RowsOf[d] : d \in scope }]
    /\ stage' = [stage EXCEPT ![j] = "graph"]
    /\ UNCHANGED <<lost, graphBranch, vectorBranch>>

\* GraphExtractor on one row: the model's graph, or an empty one when the
\* call or the JSON fails, or JSON with a node that has no label or no name.
Extract(j, r, outcome) ==
    /\ stage[j] = "graph" /\ r \in rows[j]
    /\ graph[j][r] = "wait"
    /\ graph' = [graph EXCEPT ![j][r] = "extracted"]
    /\ found' = [found EXCEPT ![j][r] = outcome]
    /\ UNCHANGED <<control, created, copies, edges, contested, vectorBranch>>

\* Neo4jIndexer.write returns at once for a batch with nothing in it.
WriteNothing(j, r) ==
    /\ stage[j] = "graph"
    /\ graph[j][r] = "extracted" /\ found[j][r] = "nothing"
    /\ graph' = [graph EXCEPT ![j][r] = "written"]
    /\ UNCHANGED <<control, found, created, copies, edges, contested, vectorBranch>>

\* node["label"] or node["name"] raises: the transaction is rolled back, the
\* task fails, the first write_datasink raises and main() with it.
MergeMalformed(j, r) ==
    /\ stage[j] = "graph"
    /\ graph[j][r] = "extracted" /\ found[j][r] = "malformed"
    /\ stage' = [stage EXCEPT ![j] = "failed"]
    /\ UNCHANGED <<rows, lost, graphBranch, vectorBranch>>

Open == { p \in Job \X Row : graph[p[1]][p[2]] = "merged" }

Graph(r) == NodesOf[TextOf[r]]

\* The entities of r that a transaction which is open has in hand as well.
Shared(r) == { e \in Graph(r) : \E p \in Open : e \in Graph(p[2]) }

\* Slip: the nodes are created, whether they are there or not.
CreateNodes(j, r) ==
    /\ stage[j] = "graph"
    /\ graph[j][r] = "extracted" /\ found[j][r] = "graph"
    /\ graph'   = [graph EXCEPT ![j][r] = "merged"]
    /\ created' = [created EXCEPT ![j][r] = Graph(r)]
    /\ contested' = contested \cup Shared(r)
    /\ UNCHANGED <<control, found, copies, edges, vectorBranch>>

\* A transaction opens and merges the nodes: it creates those it does not find.
MergeNodes(j, r) ==
    /\ stage[j] = "graph"
    /\ graph[j][r] = "extracted" /\ found[j][r] = "graph"
    /\ graph'   = [graph EXCEPT ![j][r] = "merged"]
    /\ created' = [created EXCEPT ![j][r] = { e \in Graph(r) : copies[e] = 0 }]
    /\ contested' = contested \cup Shared(r)
    /\ UNCHANGED <<control, found, copies, edges, vectorBranch>>

\* Slip: the relationships are merged before the nodes.
MatchedBefore(j, r) ==
    { x \in EdgesOf[TextOf[r]] : copies[x[1]] > 0 /\ copies[x[2]] > 0 }

\* The relationships whose two ends the transaction finds or has created: a
\* MATCH that finds no node merges nothing.
Matched(j, r) ==
    { x \in EdgesOf[TextOf[r]] :
        \A e \in {x[1], x[2]} : copies[e] > 0 \/ e \in created[j][r] }

\* What a commit leaves in the graph.  A task that was running when its job
\* failed may still commit.
Committed(j, r) ==
    /\ stage[j] \in {"graph", "failed"}
    /\ graph[j][r] = "merged"
    /\ copies'  = [e \in Entity |->
                      IF e \in created[j][r] THEN copies[e] + 1 ELSE copies[e]]
    /\ edges'   = edges \cup Matched(j, r)
    /\ created' = [created EXCEPT ![j][r] = {}]

CommitGraph(j, r) ==
    /\ Committed(j, r)
    /\ graph' = [graph EXCEPT ![j][r] = "written"]
    /\ UNCHANGED <<control, found, contested, vectorBranch>>

\* The worker is lost before it reports, with the transaction committed or
\* rolled back, and the task is run again; or the driver itself retries a
\* transaction whose fate it does not know.
LoseGraphWorker(j, r) ==
    /\ lost[j] < MaxLost
    /\ \/ Committed(j, r)
       \/ /\ stage[j] \in {"graph", "failed"}
          /\ graph[j][r] = "merged"
          /\ created' = [created EXCEPT ![j][r] = {}]
          /\ UNCHANGED <<copies, edges>>
    /\ graph' = [graph EXCEPT ![j][r] = "extracted"]
    /\ lost'  = [lost EXCEPT ![j] = @ + 1]
    /\ UNCHANGED <<stage, rows, found, contested, vectorBranch>>

\* Slip: the second write starts on the first row whose graph is written.
SomeGraphWritten(j) == rows[j] = {} \/ \E r \in rows[j] : graph[j][r] = "written"

AllGraphsWritten(j) == \A r \in rows[j] : graph[j][r] = "written"

\* graphs.write_datasink returns, and vectors.write_datasink is called.
GraphBranchEnds(j) ==
    /\ stage[j] = "graph"
    /\ AllGraphsWritten(j)
    /\ stage' = [stage EXCEPT ![j] = "vectors"]
    /\ UNCHANGED <<rows, lost, graphBranch, vectorBranch>>

\* BatchEmbedder on one row.
Embed(j, r) ==
    /\ stage[j] = "vectors" /\ r \in rows[j]
    /\ vector[j][r] = "wait"
    /\ vector' = [vector EXCEPT ![j][r] = "embedded"]
    /\ UNCHANGED <<control, graphBranch, points>>

\* Slip: a point is identified by where its text was found.
IdOfRow(r) == r

\* uuid5 of the chunk's content hash.  (Every chunk of the pipeline has one: the
\* random id of a row without a hash is never given.)
PointId(r) == TextOf[r]

\* QdrantIndexer.write: an upsert replaces the point of the same id.  (Every row
\* that was embedded has a vector: none is passed over.)
Upserted(j, r) ==
    /\ stage[j] \in {"vectors", "failed"}
    /\ vector[j][r] = "embedded"
    /\ points' = { p \in points : p.id # PointId(r) }
                     \cup {[id |-> PointId(r), row |-> r]}

Upsert(j, r) ==
    /\ Upserted(j, r)
    /\ vector' = [vector EXCEPT ![j][r] = "written"]
    /\ UNCHANGED <<control, graphBranch>>

\* The worker is lost after the upsert, and the task is run again.
LoseVectorWorker(j, r) ==
    /\ lost[j] < MaxLost
    /\ Upserted(j, r)
    /\ lost' = [lost EXCEPT ![j] = @ + 1]
    /\ UNCHANGED <<stage, rows, graphBranch, vector>>

\* vectors.write_datasink returns: "ingestion complete".
VectorBranchEnds(j) ==
    /\ stage[j] = "vectors"
    /\ \A r \in rows[j] : vector[j][r] = "written"
    /\ stage' = [stage EXCEPT ![j] = "complete"]
    /\ UNCHANGED <<rows, lost, graphBranch, vectorBranch>>

\* Storage, a store or the embedding service raises, and main() with it.
Fail(j) ==
    /\ stage[j] \in {"idle", "graph", "vectors"}
    /\ stage' = [stage EXCEPT ![j] = "failed"]
    /\ UNCHANGED <<rows, lost, graphBranch, vectorBranch>>

Outcomes == {"graph", "nothing", "malformed"}

Extraction(j) == \E r \in Row, o \in Outcomes : Extract(j, r, o)

\* Every step of a running job but the model calls of the extraction.
Work(j) ==
    \/ \E r \in Row :
          \/ WriteNothing(j, r) \/ MergeMalformed(j, r)
          \/ MergeNodes(j, r) \/ CommitGraph(j, r)
          \/ Embed(j, r) \/ Upsert(j, r)
    \/ GraphBranchEnds(j) \/ VectorBranchEnds(j)

Loss(j) == \E r \in Row : LoseGraphWorker(j, r) \/ LoseVectorWorker(j, r)

Next ==
    \/ \E j \in Job, scope \in Scopes : ReadDocuments(j, scope)
    \/ \E j \in Job : Extraction(j) \/ Work(j) \/ Loss(j) \/ Fail(j)

Spec == Init /\ [][Next]_vars
-----------------------------------------------------------------------------
\* Every variable has its type.
TypeOK ==
    /\ stage   \in [Job -> {"idle", "graph", "vectors", "complete", "failed"}]
    /\ rows    \in [Job -> SUBSET Row]
    /\ graph   \in [Job -> [Row -> {"wait", "extracted", "merged", "written"}]]
    /\ found   \in [Job -> [Row -> Outcomes]]
    /\ created \in [Job -> [Row -> SUBSET Entity]]
    /\ vector  \in [Job -> [Row -> {"wait", "embedded", "written"}]]
    /\ lost    \in [Job -> 0 .. MaxLost]
    /\ copies  \in [Entity -> Nat]
    /\ edges   \subseteq Entity \X Entity
    /\ points  \subseteq [id : Text, row : Row]
    /\ contested \subseteq Entity

\* neo4j.py: "Ingestion can therefore run twice over the same documents
\* without producing a second copy of the graph": whatever is run twice, lost
\* or retried, a second node of an entity takes two transactions that had it
\* in hand at the same time.
CopiesNeedOverlap == \A e \in Entity : copies[e] > 1 => e \in contested

\* qdrant.py: re-running ingestion overwrites a chunk in place: however many
\* documents, jobs and retries a text comes through, it has one point.
OnePointPerText ==
    \A p, q \in points : TextOf[p.row] = TextOf[q.row] => p = q

\* The entities and the relationships among them that text t yields are there.
GraphStored(t) ==
    /\ \A e \in NodesOf[t] : copies[e] > 0
    /\ EdgesOf[t] \cap (NodesOf[t] \X NodesOf[t]) \subseteq edges

\* "ingestion complete" means what it says, whatever was lost and retried and
\* whatever other jobs did: every chunk is searchable, and every graph that was
\* extracted is stored, down to its relationships.
CompleteMeansIndexed ==
    \A j \in Job : stage[j] = "complete" =>
        \A r \in rows[j] :
            /\ \E p \in points : p.id = TextOf[r]
            /\ found[j][r] = "graph" => GraphStored(TextOf[r])

\* A text becomes searchable only through a job that has written its whole
\* graph branch: a job that fails there leaves no vector behind.
VectorsFollowGraphs ==
    \A p \in points : \E j \in Job :
        p.row \in rows[j] /\ \A r \in rows[j] : graph[j][r] = "written"
=============================================================================
