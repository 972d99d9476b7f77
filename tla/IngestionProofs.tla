-------------------------- MODULE IngestionProofs --------------------------
(***************************************************************************)
(* Theorems about Ingestion, for any corpus, any number of jobs and any    *)
(* graph the model may find in a text, and about Uploads, for any writes   *)
(* of any contents and any deliveries of their events.                     *)
(***************************************************************************)
EXTENDS Uploads, TLAPS

\* The module's type invariant.
THEOREM IngestionTypes == Spec => []TypeOK
<1> USE TablesAssumption, BoundAssumption
<1>1. Init => TypeOK
    BY DEF Init, TypeOK, Outcomes
<1>2. TypeOK /\ [Next]_vars => TypeOK'
    <2> SUFFICES ASSUME TypeOK, [Next]_vars PROVE TypeOK'
        OBVIOUS
    <2> USE DEF TypeOK, control, graphBranch, vectorBranch
    <2>1. ASSUME NEW j \in Job, NEW scope \in Scopes, ReadDocuments(j, scope)
          PROVE  TypeOK'
        BY <2>1 DEF ReadDocuments
    <2>2. ASSUME NEW j \in Job, NEW r \in Row, NEW o \in Outcomes, Extract(j, r, o)
          PROVE  TypeOK'
        BY <2>2 DEF Extract
    <2>3. ASSUME NEW j \in Job, NEW r \in Row,
                 WriteNothing(j, r) \/ MergeMalformed(j, r) \/ Embed(j, r)
          PROVE  TypeOK'
        <3>1. CASE WriteNothing(j, r)
            BY <3>1 DEF WriteNothing
        <3>2. CASE MergeMalformed(j, r)
            BY <3>2 DEF MergeMalformed
        <3>3. CASE Embed(j, r)
            BY <3>3 DEF Embed
        <3> QED BY <2>3, <3>1, <3>2, <3>3
    <2>4. ASSUME NEW j \in Job, NEW r \in Row, MergeNodes(j, r) PROVE TypeOK'
        BY <2>4 DEF MergeNodes, Graph, Shared
    <2>5. ASSUME NEW j \in Job, NEW r \in Row, Committed(j, r)
          PROVE  /\ copies' \in [Entity -> Nat]
                 /\ edges' \subseteq Entity \X Entity
                 /\ created' \in [Job -> [Row -> SUBSET Entity]]
        BY <2>5 DEF Committed, Matched
    <2>6. ASSUME NEW j \in Job, NEW r \in Row, CommitGraph(j, r) PROVE TypeOK'
        BY <2>5, <2>6 DEF CommitGraph
    <2>7. ASSUME NEW j \in Job, NEW r \in Row, LoseGraphWorker(j, r) PROVE TypeOK'
        <3>1. lost' \in [Job -> 0 .. MaxLost]
            BY <2>7 DEF LoseGraphWorker
        <3>2. /\ graph' \in [Job -> [Row -> {"wait", "extracted", "merged", "written"}]]
              /\ UNCHANGED <<stage, rows, found, vector, points, contested>>
            BY <2>7 DEF LoseGraphWorker
        <3>3. CASE Committed(j, r)
            BY <2>5, <3>1, <3>2, <3>3
        <3>4. CASE ~Committed(j, r)
            <4>1. /\ created' = [created EXCEPT ![j][r] = {}]
                  /\ UNCHANGED <<copies, edges>>
                BY <2>7, <3>4 DEF LoseGraphWorker
            <4> QED BY <3>1, <3>2, <4>1
        <3> QED BY <3>3, <3>4
    <2>8. ASSUME NEW j \in Job, NEW r \in Row,
                 Upsert(j, r) \/ LoseVectorWorker(j, r)
          PROVE  TypeOK'
        <3>1. points' \subseteq [id : Text, row : Row]
            BY <2>8 DEF Upsert, LoseVectorWorker, Upserted, PointId
        <3>2. CASE Upsert(j, r)
            BY <3>1, <3>2 DEF Upsert
        <3>3. CASE LoseVectorWorker(j, r)
            BY <3>1, <3>3 DEF LoseVectorWorker
        <3> QED BY <2>8, <3>2, <3>3
    <2>9. ASSUME NEW j \in Job,
                 GraphBranchEnds(j) \/ VectorBranchEnds(j) \/ Fail(j)
          PROVE  TypeOK'
        BY <2>9 DEF GraphBranchEnds, VectorBranchEnds, Fail
    <2>10. CASE UNCHANGED vars
        BY <2>10 DEF vars
    <2> QED
        BY <2>1, <2>2, <2>3, <2>4, <2>6, <2>7, <2>8, <2>9, <2>10
        DEF Next, Extraction, Work, Loss
<1>3. QED
    BY <1>1, <1>2, PTL DEF Spec

-----------------------------------------------------------------------------
\* Points keep the id of their text, and ids are unique.
UniqueIds ==
    /\ \A p \in points : p.id = TextOf[p.row]
    /\ \A p, q \in points : p.id = q.id => p = q

\* However often a text is ingested, it has one point.
THEOREM TextsHaveOnePoint == Spec => []OnePointPerText
<1>1. Init => UniqueIds
    BY DEF Init, UniqueIds
<1>2. TypeOK /\ UniqueIds /\ [Next]_vars => UniqueIds'
    <2> SUFFICES ASSUME TypeOK, UniqueIds, [Next]_vars PROVE UniqueIds'
        OBVIOUS
    <2>1. ASSUME NEW j \in Job, NEW r \in Row, Upserted(j, r) PROVE UniqueIds'
        BY <2>1 DEF Upserted, PointId, UniqueIds
    <2>2. CASE UNCHANGED points
        BY <2>2 DEF UniqueIds
    <2>3. UNCHANGED points \/ \E j \in Job, r \in Row : Upserted(j, r)
        BY DEF Next, Extraction, Work, Loss, ReadDocuments, Extract, WriteNothing,
               MergeMalformed, MergeNodes, CommitGraph, LoseGraphWorker,
               GraphBranchEnds, Embed, Upsert, LoseVectorWorker,
               VectorBranchEnds, Fail, vars, vectorBranch
    <2> QED BY <2>1, <2>2, <2>3
<1>3. UniqueIds => OnePointPerText
    BY DEF UniqueIds, OnePointPerText
<1>4. QED
    BY <1>1, <1>2, <1>3, IngestionTypes, PTL DEF Spec

-----------------------------------------------------------------------------
\* What open transactions have in hand: an entity that two of them have is
\* contested, and one that is not contested is not there yet where it is
\* about to be created.
Hands ==
    /\ \A j \in Job : \A r \in Row : \A e \in created[j][r] :
          /\ graph[j][r] = "merged" /\ e \in Graph(r)
          /\ e \notin contested => copies[e] = 0
    /\ \A i, j \in Job : \A r, s \in Row : \A e \in Graph(r) \cap Graph(s) :
          (i # j \/ r # s) /\ graph[i][r] = "merged" /\ graph[j][s] = "merged"
              => e \in contested
    /\ CopiesNeedOverlap

\* Any number of jobs over the same documents, and any retries of their tasks,
\* leave one node per entity, but where two transactions overlapped on it.
THEOREM CopiesComeFromOverlap == Spec => []CopiesNeedOverlap
<1>1. Init => Hands
    BY DEF Init, Hands, CopiesNeedOverlap
<1>2. TypeOK /\ Hands /\ [Next]_vars => Hands'
    <2> SUFFICES ASSUME TypeOK, Hands, [Next]_vars PROVE Hands'
        OBVIOUS
    <2>0. \A r \in Row : Graph(r) \subseteq Entity
        BY TablesAssumption DEF Graph
    <2>1. ASSUME NEW j \in Job, NEW r \in Row, MergeNodes(j, r) PROVE Hands'
        <3>1. /\ graph[j][r] = "extracted" /\ graph'[j][r] = "merged"
              /\ created'[j][r] = { e \in Graph(r) : copies[e] = 0 }
              /\ contested' = contested \cup Shared(r) /\ copies' = copies
              /\ \A i \in Job, s \in Row : i # j \/ s # r =>
                    graph'[i][s] = graph[i][s] /\ created'[i][s] = created[i][s]
            BY <2>1 DEF MergeNodes, TypeOK
        <3>2. ASSUME NEW i \in Job, NEW s \in Row, NEW e \in Graph(r) \cap Graph(s),
                     graph[i][s] = "merged"
              PROVE  e \in contested'
            <4>1. <<i, s>> \in Job \X Row /\ <<i, s>>[1] = i /\ <<i, s>>[2] = s
                OBVIOUS
            <4>2. <<i, s>> \in Open
                BY <3>2, <4>1 DEF Open
            <4>3. \E p \in Open : e \in Graph(p[2])
                BY <4>1, <4>2
            <4> QED BY <3>1, <4>3 DEF Shared
        <3>3. \A i \in Job : \A s \in Row : \A e \in created'[i][s] :
                  /\ graph'[i][s] = "merged" /\ e \in Graph(s)
                  /\ e \notin contested' => copies'[e] = 0
            <4> SUFFICES ASSUME NEW i \in Job, NEW s \in Row, NEW e \in created'[i][s]
                         PROVE  /\ graph'[i][s] = "merged" /\ e \in Graph(s)
                                /\ e \notin contested' => copies'[e] = 0
                OBVIOUS
            <4>1. CASE i = j /\ s = r
                BY <3>1, <4>1
            <4>2. CASE i # j \/ s # r
                BY <3>1, <4>2 DEF Hands
            <4> QED BY <4>1, <4>2
        <3>4. ASSUME NEW i \in Job, NEW k \in Job, NEW q \in Row, NEW s \in Row,
                     NEW e \in Graph(q) \cap Graph(s), i # k \/ q # s,
                     graph'[i][q] = "merged", graph'[k][s] = "merged"
              PROVE  e \in contested'
            <4>1. CASE i = j /\ q = r
                BY <3>1, <3>2, <3>4, <4>1
            <4>2. CASE k = j /\ s = r
                BY <3>1, <3>2, <3>4, <4>2
            <4>3. CASE (i # j \/ q # r) /\ (k # j \/ s # r)
                BY <3>1, <3>4, <4>3 DEF Hands
            <4> QED BY <4>1, <4>2, <4>3
        <3>5. \A e \in Entity : copies'[e] > 1 => e \in contested'
            BY <3>1 DEF Hands, CopiesNeedOverlap
        <3> QED BY <3>3, <3>4, <3>5 DEF Hands, CopiesNeedOverlap, Graph
    <2>2. ASSUME NEW j \in Job, NEW r \in Row, NEW next \in {"written", "extracted"},
                 graph[j][r] = "merged",
                 graph' = [graph EXCEPT ![j][r] = next],
                 created' = [created EXCEPT ![j][r] = {}],
                 UNCHANGED contested,
                 \/ UNCHANGED copies
                 \/ copies' = [e \in Entity |-> IF e \in created[j][r]
                                                THEN copies[e] + 1 ELSE copies[e]]
          PROVE  Hands'
        <3>1. /\ graph'[j][r] # "merged" /\ created'[j][r] = {}
              /\ \A i \in Job, s \in Row : i # j \/ s # r =>
                    graph'[i][s] = graph[i][s] /\ created'[i][s] = created[i][s]
            BY <2>2 DEF TypeOK
        <3>2. ASSUME NEW i \in Job, NEW s \in Row, i # j \/ s # r,
                     NEW e \in created[i][s], e \notin contested
              PROVE  copies'[e] = 0
            <4>1. /\ graph[i][s] = "merged" /\ e \in Graph(s) /\ e \in Entity
                  /\ copies[e] = 0
                BY <2>0, <3>2 DEF Hands
            <4>2. e \notin created[j][r]
                BY <2>2, <3>2, <4>1 DEF Hands
            <4> QED BY <2>2, <4>1, <4>2
        <3>3. \A i \in Job : \A s \in Row : \A e \in created'[i][s] :
                  /\ graph'[i][s] = "merged" /\ e \in Graph(s)
                  /\ e \notin contested' => copies'[e] = 0
            <4> SUFFICES ASSUME NEW i \in Job, NEW s \in Row, NEW e \in created'[i][s]
                         PROVE  /\ graph'[i][s] = "merged" /\ e \in Graph(s)
                                /\ e \notin contested' => copies'[e] = 0
                OBVIOUS
            <4>1. i # j \/ s # r
                BY <3>1
            <4> QED BY <2>2, <3>1, <3>2, <4>1 DEF Hands
        <3>4. \A i, k \in Job : \A q, s \in Row : \A e \in Graph(q) \cap Graph(s) :
                  (i # k \/ q # s) /\ graph'[i][q] = "merged" /\ graph'[k][s] = "merged"
                      => e \in contested'
            BY <2>2, <3>1 DEF Hands
        <3>5. ASSUME NEW e \in Entity, copies'[e] > 1 PROVE e \in contested'
            <4>1. CASE e \in created[j][r] /\ e \notin contested
                <5>1. copies[e] = 0
                    BY <4>1 DEF Hands
                <5> QED BY <2>2, <3>5, <5>1
            <4>2. CASE e \notin created[j][r]
                BY <2>2, <3>5, <4>2 DEF Hands, CopiesNeedOverlap
            <4> QED BY <2>2, <4>1, <4>2
        <3> QED BY <3>3, <3>4, <3>5 DEF Hands, CopiesNeedOverlap, Graph
    <2>3. ASSUME NEW j \in Job, NEW r \in Row,
                 CommitGraph(j, r) \/ LoseGraphWorker(j, r)
          PROVE  Hands'
        BY <2>2, <2>3 DEF CommitGraph, LoseGraphWorker, Committed
    <2>4. ASSUME NEW j \in Job, NEW r \in Row, NEW next \in {"extracted", "written"},
                 graph[j][r] # "merged",
                 graph' = [graph EXCEPT ![j][r] = next],
                 UNCHANGED <<created, copies, contested>>
          PROVE  Hands'
        <3>1. \A i \in Job, s \in Row :
                  (graph'[i][s] = "merged") = (graph[i][s] = "merged")
            BY <2>4 DEF TypeOK
        <3> QED BY <3>1, <2>4 DEF Hands, CopiesNeedOverlap, Graph
    <2>5. ASSUME NEW j \in Job, NEW r \in Row, NEW o \in Outcomes,
                 Extract(j, r, o) \/ WriteNothing(j, r)
          PROVE  Hands'
        BY <2>4, <2>5 DEF Extract, WriteNothing
    <2>6. CASE UNCHANGED <<graph, created, copies, contested>>
        BY <2>6 DEF Hands, CopiesNeedOverlap, Graph
    <2>7. \/ UNCHANGED <<graph, created, copies, contested>>
          \/ \E j \in Job, r \in Row :
                \/ MergeNodes(j, r) \/ CommitGraph(j, r) \/ LoseGraphWorker(j, r)
                \/ \E o \in Outcomes : Extract(j, r, o) \/ WriteNothing(j, r)
        BY DEF Next, Extraction, Work, Loss, ReadDocuments, MergeMalformed, Embed,
               GraphBranchEnds, Upsert, LoseVectorWorker, VectorBranchEnds,
               Fail, vars, graphBranch, Outcomes
    <2> QED BY <2>1, <2>3, <2>5, <2>6, <2>7
<1>3. Hands => CopiesNeedOverlap
    BY DEF Hands
<1>4. QED
    BY <1>1, <1>2, <1>3, IngestionTypes, PTL DEF Spec

-----------------------------------------------------------------------------
\* What the two stores hold for row r of job j, at every point of its tasks.
GraphSoFar(j, r) ==
    /\ graph[j][r] = "merged" =>
          \A e \in Graph(r) : copies[e] > 0 \/ e \in created[j][r]
    /\ graph[j][r] = "written" /\ found[j][r] = "graph" => GraphStored(TextOf[r])
VectorSoFar(j, r) ==
    vector[j][r] = "written" => \E p \in points : p.id = TextOf[r]

\* The inductive form of CompleteMeansIndexed.
Indexed ==
    /\ \A j \in Job : \A r \in Row : GraphSoFar(j, r) /\ VectorSoFar(j, r)
    /\ \A j \in Job : stage[j] \in {"vectors", "complete"} => AllGraphsWritten(j)
    /\ \A j \in Job : stage[j] = "complete" =>
          \A r \in rows[j] : vector[j][r] = "written"

\* Nothing is ever taken out of the stores.
LEMMA StoresGrow ==
    ASSUME TypeOK, [Next]_vars
    PROVE  /\ \A e \in Entity : copies[e] > 0 => copies'[e] > 0
           /\ edges \subseteq edges'
           /\ \A t \in Text : (\E p \in points : p.id = t)
                                  => \E p \in points' : p.id = t
<1>1. ASSUME NEW j \in Job, NEW r \in Row, Committed(j, r)
      PROVE  /\ \A e \in Entity : copies[e] > 0 => copies'[e] > 0
             /\ edges \subseteq edges'
    BY <1>1 DEF Committed, TypeOK
<1>2. ASSUME NEW j \in Job, NEW r \in Row, Upserted(j, r), NEW t \in Text,
             \E p \in points : p.id = t
      PROVE  \E p \in points' : p.id = t
    <2>1. CASE t = PointId(r)
        <3>1. [id |-> PointId(r), row |-> r] \in points'
            BY <1>2 DEF Upserted
        <3> QED BY <2>1, <3>1
    <2>2. CASE t # PointId(r)
        BY <1>2, <2>2 DEF Upserted
    <2> QED BY <2>1, <2>2
<1>3. \/ UNCHANGED <<copies, edges>>
      \/ \E j \in Job, r \in Row : Committed(j, r)
    BY DEF Next, Extraction, Work, Loss, ReadDocuments, Extract, WriteNothing,
           MergeMalformed, MergeNodes, CommitGraph, LoseGraphWorker,
           GraphBranchEnds, Embed, Upsert, LoseVectorWorker,
           VectorBranchEnds, Fail, vars, graphBranch
<1>4. UNCHANGED points \/ \E j \in Job, r \in Row : Upserted(j, r)
    BY DEF Next, Extraction, Work, Loss, ReadDocuments, Extract, WriteNothing,
           MergeMalformed, MergeNodes, CommitGraph, LoseGraphWorker,
           GraphBranchEnds, Embed, Upsert, LoseVectorWorker,
           VectorBranchEnds, Fail, vars, vectorBranch
<1> QED BY <1>1, <1>2, <1>3, <1>4

\* A stored graph stays stored.
LEMMA GraphsStay ==
    ASSUME TypeOK, [Next]_vars, NEW t \in Text, GraphStored(t)
    PROVE  GraphStored(t)'
BY StoresGrow, TablesAssumption DEF GraphStored

\* Indexed holds throughout.
LEMMA IndexedAlways == Spec => []Indexed
<1> USE TablesAssumption
<1>1. Init => Indexed
    BY DEF Init, Indexed, GraphSoFar, VectorSoFar
<1>2. TypeOK /\ Indexed /\ [Next]_vars => Indexed'
    <2> SUFFICES ASSUME TypeOK, Indexed, [Next]_vars PROVE Indexed'
        OBVIOUS
    <2> DEFINE T(r) == TextOf[r]
    <2>0. \A r \in Row : T(r) \in Text /\ Graph(r) \subseteq Entity
        BY DEF Graph
    \* A task whose row is not touched keeps what it had.
    <2>1. ASSUME NEW j \in Job, NEW r \in Row,
                 graph'[j][r] = graph[j][r], found'[j][r] = found[j][r],
                 created'[j][r] = created[j][r]
          PROVE  GraphSoFar(j, r)'
        <3>1. GraphSoFar(j, r)
            BY DEF Indexed
        <3>2. GraphStored(T(r)) => GraphStored(T(r))'
            BY <2>0, GraphsStay
        <3> QED BY <2>0, <2>1, <3>1, <3>2, StoresGrow DEF GraphSoFar, Graph
    <2>2. ASSUME NEW j \in Job, NEW r \in Row, vector'[j][r] = vector[j][r]
          PROVE  VectorSoFar(j, r)'
        BY <2>0, <2>2, StoresGrow DEF Indexed, VectorSoFar
    <2>3. ASSUME NEW j \in Job, NEW r \in Row,
                 \/ Committed(j, r)
                 \/ graph'[j][r] # "written" /\ graph'[j][r] # "merged"
                 \/ graph'[j][r] = "written" /\ found'[j][r] # "graph"
                 \/ MergeNodes(j, r),
                 graph'[j][r] \in {"written", "extracted"} \/ MergeNodes(j, r)
          PROVE  GraphSoFar(j, r)'
        <3>1. CASE Committed(j, r) /\ graph'[j][r] \in {"written", "extracted"}
            <4>1. \A e \in Graph(r) : copies[e] > 0 \/ e \in created[j][r]
                BY <3>1 DEF Indexed, GraphSoFar, Committed
            <4>2. \A e \in Graph(r) : copies'[e] > 0
                BY <2>0, <3>1, <4>1 DEF Committed, TypeOK
            <4>3. EdgesOf[T(r)] \cap (NodesOf[T(r)] \X NodesOf[T(r)])
                      \subseteq Matched(j, r)
                BY <4>1 DEF Matched, Graph
            <4>4. GraphStored(T(r))'
                BY <3>1, <4>2, <4>3 DEF GraphStored, Committed, Graph
            <4> QED BY <3>1, <4>4 DEF GraphSoFar
        <3>2. CASE MergeNodes(j, r)
            BY <2>0, <3>2 DEF MergeNodes, GraphSoFar, Graph, TypeOK
        <3> QED BY <2>3, <3>1, <3>2 DEF GraphSoFar
    <2>4. ASSUME NEW j \in Job, NEW r \in Row,
                 graph' = [graph EXCEPT ![j][r] = graph'[j][r]],
                 \A i \in Job, s \in Row : i # j \/ s # r =>
                     found'[i][s] = found[i][s] /\ created'[i][s] = created[i][s],
                 GraphSoFar(j, r)', UNCHANGED <<stage, rows, vector>>,
                 graph[j][r] # "written"
          PROVE  Indexed'
        <3>1. \A i \in Job, s \in Row : i # j \/ s # r => graph'[i][s] = graph[i][s]
            BY <2>4 DEF TypeOK
        <3>2. \A i \in Job, s \in Row : GraphSoFar(i, s)'
            BY <2>1, <2>4, <3>1
        <3>3. \A i \in Job, s \in Row : VectorSoFar(i, s)'
            BY <2>2, <2>4
        <3>4. \A i \in Job : stage[i] \in {"vectors", "complete"}
                  => AllGraphsWritten(i)'
            <4> SUFFICES ASSUME NEW i \in Job, stage[i] \in {"vectors", "complete"},
                                NEW s \in rows[i]
                         PROVE  graph'[i][s] = "written"
                BY <2>4 DEF AllGraphsWritten
            <4>1. s \in Row /\ graph[i][s] = "written"
                BY DEF Indexed, AllGraphsWritten, TypeOK
            <4> QED BY <2>4, <3>1, <4>1
        <3> QED BY <2>4, <3>2, <3>3, <3>4 DEF Indexed
    <2>5. ASSUME NEW j \in Job, NEW r \in Row, NEW o \in Outcomes, Extract(j, r, o)
          PROVE  Indexed'
        <3>1. graph[j][r] = "wait" /\ graph'[j][r] = "extracted"
            BY <2>5 DEF Extract, TypeOK
        <3> QED BY <2>3, <2>4, <2>5, <3>1 DEF Extract, TypeOK, control, vectorBranch
    <2>6. ASSUME NEW j \in Job, NEW r \in Row, WriteNothing(j, r) PROVE Indexed'
        <3>1. /\ graph[j][r] = "extracted" /\ graph'[j][r] = "written"
              /\ found'[j][r] # "graph"
            BY <2>6 DEF WriteNothing, TypeOK
        <3> QED
            BY <2>3, <2>4, <2>6, <3>1 DEF WriteNothing, TypeOK, control, vectorBranch
    <2>7. ASSUME NEW j \in Job, NEW r \in Row, MergeNodes(j, r) PROVE Indexed'
        <3>1. graph[j][r] = "extracted" /\ graph'[j][r] = "merged"
            BY <2>7 DEF MergeNodes, TypeOK
        <3> QED
            BY <2>3, <2>4, <2>7, <3>1 DEF MergeNodes, TypeOK, control, vectorBranch
    <2>8. ASSUME NEW j \in Job, NEW r \in Row, CommitGraph(j, r) PROVE Indexed'
        <3>1. /\ graph[j][r] = "merged" /\ graph'[j][r] = "written"
              /\ Committed(j, r)
            BY <2>8 DEF CommitGraph, Committed, TypeOK
        <3>2. GraphSoFar(j, r)'
            BY <2>3, <3>1
        <3>3. /\ graph' = [graph EXCEPT ![j][r] = graph'[j][r]]
              /\ UNCHANGED <<stage, rows, vector, found>>
            BY <2>8, <3>1 DEF CommitGraph, control, vectorBranch
        <3>4. \A i \in Job, s \in Row : i # j \/ s # r =>
                  created'[i][s] = created[i][s]
            BY <3>1 DEF Committed, TypeOK
        <3> QED BY <2>4, <3>1, <3>2, <3>3, <3>4
    <2>9. ASSUME NEW j \in Job, NEW r \in Row, LoseGraphWorker(j, r)
          PROVE  Indexed'
        <3>1. graph[j][r] = "merged" /\ graph'[j][r] = "extracted"
            BY <2>9 DEF LoseGraphWorker, Committed, TypeOK
        <3>2. GraphSoFar(j, r)'
            BY <3>1 DEF GraphSoFar
        <3>3. /\ graph' = [graph EXCEPT ![j][r] = graph'[j][r]]
              /\ UNCHANGED <<stage, rows, vector, found>>
            BY <2>9, <3>1 DEF LoseGraphWorker, vectorBranch
        <3>4. \A i \in Job, s \in Row : i # j \/ s # r =>
                  created'[i][s] = created[i][s]
            BY <2>9 DEF LoseGraphWorker, Committed, TypeOK
        <3> QED BY <2>4, <3>1, <3>2, <3>3, <3>4
    <2>10. ASSUME NEW j \in Job, NEW r \in Row,
                  Embed(j, r) \/ Upsert(j, r) \/ LoseVectorWorker(j, r)
           PROVE  Indexed'
        <3>1. /\ UNCHANGED <<stage, rows, graph, found, created>>
              /\ vector[j][r] \in {"wait", "embedded"}
              /\ vector' = [vector EXCEPT ![j][r] = vector'[j][r]]
              /\ vector'[j][r] = "written" => Upserted(j, r)
            BY <2>10
            DEF Embed, Upsert, LoseVectorWorker, Upserted, TypeOK,
                control, graphBranch
        <3>2. \A i \in Job, s \in Row : GraphSoFar(i, s)'
            BY <2>1, <3>1
        <3>3. VectorSoFar(j, r)'
            <4> SUFFICES ASSUME Upserted(j, r)
                         PROVE  \E p \in points' : p.id = TextOf[r]
                BY <3>1 DEF VectorSoFar
            <4>1. [id |-> PointId(r), row |-> r] \in points'
                BY DEF Upserted
            <4> QED BY <4>1 DEF PointId
        <3>4. \A i \in Job, s \in Row : i # j \/ s # r => vector'[i][s] = vector[i][s]
            BY <3>1 DEF TypeOK
        <3>5. \A i \in Job, s \in Row : VectorSoFar(i, s)'
            BY <2>2, <3>3, <3>4
        <3>6. \A i \in Job : stage[i] = "complete" =>
                  \A s \in rows[i] : vector'[i][s] = "written"
            <4> SUFFICES ASSUME NEW i \in Job, stage[i] = "complete",
                                NEW s \in rows[i]
                         PROVE  vector'[i][s] = "written"
                OBVIOUS
            <4>1. s \in Row /\ vector[i][s] = "written"
                BY DEF Indexed, TypeOK
            <4> QED BY <3>1, <3>4, <4>1
        <3> QED BY <3>1, <3>2, <3>5, <3>6 DEF Indexed, AllGraphsWritten
    <2>11. ASSUME NEW j \in Job,
                  stage' = [stage EXCEPT ![j] = stage'[j]],
                  \/ stage'[j] \in {"graph", "failed"}
                  \/ stage'[j] = "vectors" /\ AllGraphsWritten(j)
                  \/ /\ stage'[j] = "complete" /\ AllGraphsWritten(j)
                     /\ \A r \in rows[j] : vector[j][r] = "written",
                  \A i \in Job : i = j \/ rows'[i] = rows[i],
                  rows'[j] = rows[j] \/ stage'[j] = "graph",
                  UNCHANGED <<graphBranch, vectorBranch>>
           PROVE  Indexed'
        <3>1. \A i \in Job, s \in Row : GraphSoFar(i, s)' /\ VectorSoFar(i, s)'
            BY <2>1, <2>2, <2>11 DEF graphBranch, vectorBranch
        <3>2. \A i \in Job : i # j => stage'[i] = stage[i]
            BY <2>11 DEF TypeOK
        <3> QED
            BY <2>11, <3>1, <3>2
            DEF Indexed, AllGraphsWritten, graphBranch, vectorBranch
    <2>12. ASSUME NEW j \in Job,
                  \/ \E scope \in Scopes : ReadDocuments(j, scope)
                  \/ \E r \in Row : MergeMalformed(j, r)
                  \/ GraphBranchEnds(j) \/ VectorBranchEnds(j) \/ Fail(j)
           PROVE  Indexed'
        <3>1. CASE \E scope \in Scopes : ReadDocuments(j, scope)
            BY <2>11, <3>1 DEF ReadDocuments, TypeOK
        <3>2. CASE \E r \in Row : MergeMalformed(j, r)
            BY <2>11, <3>2 DEF MergeMalformed, TypeOK
        <3>3. CASE GraphBranchEnds(j)
            BY <2>11, <3>3 DEF GraphBranchEnds, TypeOK
        <3>4. CASE VectorBranchEnds(j)
            BY <2>11, <3>4 DEF VectorBranchEnds, Indexed, TypeOK
        <3>5. CASE Fail(j)
            BY <2>11, <3>5 DEF Fail, TypeOK
        <3> QED BY <2>12, <3>1, <3>2, <3>3, <3>4, <3>5
    <2>13. CASE UNCHANGED vars
        BY <2>13
        DEF Indexed, GraphSoFar, VectorSoFar, GraphStored, AllGraphsWritten, Graph,
            vars, control, graphBranch, vectorBranch
    <2> QED
        BY <2>5, <2>6, <2>7, <2>8, <2>9, <2>10, <2>12, <2>13
        DEF Next, Extraction, Work, Loss
<1>3. QED
    BY <1>1, <1>2, IngestionTypes, PTL DEF Spec

\* "ingestion complete": every chunk is searchable and every extracted graph is
\* stored, through any losses, retries and overlaps of jobs.
THEOREM CompleteIsIndexed == Spec => []CompleteMeansIndexed
<1>1. Indexed /\ TypeOK => CompleteMeansIndexed
    BY DEF Indexed, CompleteMeansIndexed, AllGraphsWritten, GraphSoFar,
           VectorSoFar, TypeOK
<1>2. QED
    BY <1>1, IndexedAlways, IngestionTypes, PTL

-----------------------------------------------------------------------------
\* The inductive form of VectorsFollowGraphs: a row is embedded after all graphs
\* of its job were written, and a job reads its rows once.
Followed ==
    /\ \A j \in Job : stage[j] = "idle" => rows[j] = {}
    /\ \A j \in Job, r \in Row : vector[j][r] # "wait" =>
          r \in rows[j] /\ AllGraphsWritten(j)
    /\ VectorsFollowGraphs

\* What was read and written of the graph branch stays.
LEMMA GraphBranchStays ==
    ASSUME TypeOK, Followed, [Next]_vars, NEW j \in Job
    PROVE  /\ rows[j] # {} => rows'[j] = rows[j]
           /\ stage'[j] = "idle" => rows'[j] = rows[j] /\ stage[j] = "idle"
           /\ \A r \in Row : graph[j][r] = "written" => graph'[j][r] = "written"
<1>1. ASSUME NEW i \in Job, NEW scope \in Scopes, ReadDocuments(i, scope)
      PROVE  /\ rows[j] # {} => rows'[j] = rows[j]
             /\ stage'[j] = "idle" => rows'[j] = rows[j] /\ stage[j] = "idle"
    BY <1>1 DEF ReadDocuments, Followed, TypeOK
<1>2. \/ UNCHANGED rows
      \/ \E i \in Job, scope \in Scopes : ReadDocuments(i, scope)
    BY DEF Next, Extraction, Work, Loss, Extract, WriteNothing, MergeMalformed,
           MergeNodes, CommitGraph, LoseGraphWorker, GraphBranchEnds, Embed,
           Upsert, LoseVectorWorker, VectorBranchEnds, Fail, vars, control
<1>3. \/ UNCHANGED stage
      \/ \E i \in Job, scope \in Scopes : ReadDocuments(i, scope)
      \/ \E i \in Job, next \in {"vectors", "complete", "failed"} :
            stage' = [stage EXCEPT ![i] = next]
    BY DEF Next, Extraction, Work, Loss, Extract, WriteNothing, MergeMalformed,
           MergeNodes, CommitGraph, LoseGraphWorker, GraphBranchEnds, Embed,
           Upsert, LoseVectorWorker, VectorBranchEnds, Fail, vars, control
<1>4. \/ UNCHANGED graph
      \/ \E i \in Job, r \in Row, next \in {"extracted", "merged", "written"} :
            /\ graph[i][r] # "written" \/ next = "written"
            /\ graph' = [graph EXCEPT ![i][r] = next]
    BY DEF Next, Extraction, Work, Loss, ReadDocuments, Extract, WriteNothing,
           MergeMalformed, MergeNodes, CommitGraph, Committed, LoseGraphWorker,
           GraphBranchEnds, Embed, Upsert, LoseVectorWorker, VectorBranchEnds,
           Fail, vars, graphBranch
<1>5. \A r \in Row : graph[j][r] = "written" => graph'[j][r] = "written"
    <2>1. ASSUME NEW i \in Job, NEW q \in Row, NEW next,
                 graph[i][q] # "written" \/ next = "written",
                 graph' = [graph EXCEPT ![i][q] = next],
                 NEW r \in Row, graph[j][r] = "written"
          PROVE  graph'[j][r] = "written"
        BY <2>1 DEF TypeOK
    <2> QED BY <1>4, <2>1
<1>6. stage'[j] = "idle" => stage[j] = "idle"
    BY <1>1, <1>3 DEF TypeOK
<1>7. stage'[j] = "idle" => rows'[j] = rows[j]
    BY <1>1, <1>2
<1> QED BY <1>1, <1>2, <1>5, <1>6, <1>7

\* No vector is written by a job before all its graphs are.
THEOREM VectorsComeAfterGraphs == Spec => []VectorsFollowGraphs
<1>1. Init => Followed
    BY DEF Init, Followed, VectorsFollowGraphs
<1>2. TypeOK /\ Indexed /\ Followed /\ [Next]_vars => Followed'
    <2> SUFFICES ASSUME TypeOK, Indexed, Followed, [Next]_vars PROVE Followed'
        OBVIOUS
    <2>1. \A j \in Job : stage'[j] = "idle" => rows'[j] = {}
        BY GraphBranchStays DEF Followed
    \* A job that has written all graphs of its rows keeps them all.
    <2>2. ASSUME NEW j \in Job, NEW r \in rows[j], AllGraphsWritten(j)
          PROVE  r \in rows'[j] /\ AllGraphsWritten(j)'
        <3>1. rows'[j] = rows[j] /\ rows[j] \subseteq Row
            BY GraphBranchStays DEF TypeOK
        <3> QED BY <2>2, <3>1, GraphBranchStays DEF AllGraphsWritten
    <2>3. ASSUME NEW j \in Job, NEW r \in Row, vector[j][r] # "wait"
          PROVE  r \in rows'[j] /\ AllGraphsWritten(j)'
        BY <2>2, <2>3 DEF Followed
    <2>4. ASSUME NEW j \in Job, NEW r \in Row, Embed(j, r)
          PROVE  r \in rows'[j] /\ AllGraphsWritten(j)'
        BY <2>2, <2>4 DEF Embed, Indexed
    <2>5. ASSUME NEW j \in Job, NEW r \in Row, vector'[j][r] # "wait"
          PROVE  r \in rows'[j] /\ AllGraphsWritten(j)'
        <3>1. \/ UNCHANGED vector
              \/ \E i \in Job, q \in Row :
                    /\ Embed(i, q) \/ vector[i][q] # "wait"
                    /\ \E next \in {"embedded", "written"} :
                          vector' = [vector EXCEPT ![i][q] = next]
            BY DEF Next, Extraction, Work, Loss, ReadDocuments, Extract,
                   WriteNothing, MergeMalformed, MergeNodes, CommitGraph,
                   LoseGraphWorker, GraphBranchEnds, Embed, Upsert, Upserted,
                   LoseVectorWorker, VectorBranchEnds, Fail, vars, vectorBranch
        <3>2. vector[j][r] # "wait" \/ Embed(j, r)
            <4>1. ASSUME NEW i \in Job, NEW q \in Row, NEW next,
                         Embed(i, q) \/ vector[i][q] # "wait",
                         vector' = [vector EXCEPT ![i][q] = next]
                  PROVE  vector[j][r] # "wait" \/ Embed(j, r)
                <5>1. CASE i = j /\ q = r
                    BY <4>1, <5>1
                <5>2. CASE ~(i = j /\ q = r)
                    <6>1. vector'[j][r] = vector[j][r]
                        BY <4>1, <5>2 DEF TypeOK
                    <6> QED BY <2>5, <6>1
                <5> QED BY <5>1, <5>2
            <4> QED BY <2>5, <3>1, <4>1
        <3> QED BY <2>3, <2>4, <3>2
    <2>6. VectorsFollowGraphs'
        <3> SUFFICES ASSUME NEW p \in points'
                     PROVE  \E j \in Job : p.row \in rows'[j]
                                         /\ AllGraphsWritten(j)'
            BY DEF VectorsFollowGraphs, AllGraphsWritten
        <3>1. \/ p \in points
              \/ \E j \in Job, r \in Row : Upserted(j, r) /\ p.row = r
            BY DEF Next, Extraction, Work, Loss, ReadDocuments, Extract,
                   WriteNothing, MergeMalformed, MergeNodes, CommitGraph,
                   LoseGraphWorker, GraphBranchEnds, Embed, Upsert, Upserted,
                   LoseVectorWorker, VectorBranchEnds, Fail, vars, vectorBranch
        <3>2. CASE p \in points
            <4>1. PICK j \in Job : p.row \in rows[j] /\ AllGraphsWritten(j)
                BY <3>2 DEF Followed, VectorsFollowGraphs, AllGraphsWritten
            <4> QED BY <2>2, <4>1
        <3>3. ASSUME NEW j \in Job, NEW r \in Row, Upserted(j, r), p.row = r
              PROVE  p.row \in rows'[j] /\ AllGraphsWritten(j)'
            BY <2>3, <3>3 DEF Upserted
        <3> QED BY <3>1, <3>2, <3>3
    <2> QED BY <2>1, <2>5, <2>6 DEF Followed
<1>3. Followed => VectorsFollowGraphs
    BY DEF Followed
<1>4. QED
    BY <1>1, <1>2, <1>3, IngestionTypes, IndexedAlways, PTL DEF Spec

-----------------------------------------------------------------------------
\* The types of what Uploads adds.
StorageOK ==
    /\ content \in [Name -> Doc \cup {Nothing}]
    /\ events  \in [Name -> Nat]
    /\ prefix  \in [Job -> Name \cup {Unsent}]

\* StorageOK holds throughout.
LEMMA StorageTypes == UploadsSpec => []StorageOK
<1> USE StorageAssumption DEF StorageOK
<1>1. UploadsInit => StorageOK
    BY DEF UploadsInit
<1>2. StorageOK /\ [UploadsNext]_<<vars, storage>> => StorageOK'
    <2> SUFFICES ASSUME StorageOK, [UploadsNext]_<<vars, storage>> PROVE StorageOK'
        OBVIOUS
    <2>1. ASSUME NEW n \in Name, NEW d \in ContentsOf[n], Upload(n, d)
          PROVE  StorageOK'
        BY <2>1 DEF Upload
    <2>2. ASSUME NEW n \in Name, NEW j \in Job, HandleBlobEvent(n, j)
          PROVE  StorageOK'
        <3>1. events' \in [Name -> Nat]
            BY <2>2 DEF HandleBlobEvent, Delivered
        <3> QED BY <2>2, <3>1 DEF HandleBlobEvent, SubmitJob
    <2>3. CASE UNCHANGED storage
        BY <2>3 DEF storage
    <2> QED BY <2>1, <2>2, <2>3 DEF UploadsNext, Run
<1>3. QED
    BY <1>1, <1>2, PTL DEF UploadsSpec

\* The jobs that events start are jobs of Ingestion, so every theorem above
\* holds of them: whatever is written while they wait or work, each reads one
\* set of documents.
THEOREM UploadsRunIngestion == UploadsSpec => Spec
<1>1. UploadsInit => Init
    BY DEF UploadsInit
<1>2. StorageOK /\ [UploadsNext]_<<vars, storage>> => [Next]_vars
    <2> SUFFICES ASSUME StorageOK, [UploadsNext]_<<vars, storage>>
                 PROVE  Next \/ UNCHANGED vars
        OBVIOUS
    <2>1. ASSUME NEW j \in Job, Run(j) PROVE Next
        <3>1. Covered(j) \in Scopes
            BY <2>1, StorageAssumption DEF Run, Covered, StorageOK
        <3> QED BY <2>1, <3>1 DEF Run, Next
    <2>2. ASSUME NEW n \in Name, NEW d \in ContentsOf[n], Upload(n, d)
          PROVE  UNCHANGED vars
        BY <2>2 DEF Upload
    <2>3. ASSUME NEW n \in Name, NEW j \in Job, HandleBlobEvent(n, j)
          PROVE  UNCHANGED vars
        BY <2>3 DEF HandleBlobEvent
    <2> QED BY <2>1, <2>2, <2>3 DEF UploadsNext
<1>3. QED
    BY <1>1, <1>2, StorageTypes, PTL DEF UploadsSpec, Spec

\* A job that is not submitted has not started, and one that has not started
\* has read nothing.
Unstarted ==
    \A j \in Job : /\ prefix[j] = Unsent => stage[j] = "idle"
                   /\ stage[j] = "idle" => rows[j] = {}

\* What the steps that follow the reading do to stages and rows.
LEMMA WorkSteps ==
    ASSUME TypeOK, NEW i \in Job, Extraction(i) \/ Work(i) \/ Loss(i) \/ Fail(i),
           NEW j \in Job
    PROVE  \/ UNCHANGED <<stage[j], rows[j]>>
           \/ /\ stage[j] # "failed" /\ stage'[j] \in {"vectors", "failed"}
              /\ stage[j] = "idle" => stage'[j] = "failed"
              /\ UNCHANGED rows[j]
              /\ j = i
           \/ VectorBranchEnds(j) /\ j = i
<1>1. CASE GraphBranchEnds(i)
    BY <1>1 DEF GraphBranchEnds, TypeOK
<1>2. CASE Fail(i)
    BY <1>2 DEF Fail, TypeOK
<1>3. CASE \E r \in Row : MergeMalformed(i, r)
    BY <1>3 DEF MergeMalformed, TypeOK
<1>4. CASE VectorBranchEnds(i)
    BY <1>4 DEF VectorBranchEnds, TypeOK
<1>5. \/ UNCHANGED <<stage, rows>>
      \/ VectorBranchEnds(i) \/ GraphBranchEnds(i) \/ Fail(i)
      \/ \E r \in Row : MergeMalformed(i, r)
    BY DEF Extraction, Work, Loss, Extract, WriteNothing, MergeNodes,
           CommitGraph, LoseGraphWorker, Embed, Upsert, LoseVectorWorker, control
<1> QED BY <1>1, <1>2, <1>3, <1>4, <1>5

\* What is in storage is searchable unless an event or a job may still make it
\* so: the order in which events come and jobs finish does not matter, since a
\* job that read an earlier content takes nothing out of the collection.
THEOREM UploadsAreSearchable == UploadsSpec => []CurrentIsSearchable
<1> USE StorageAssumption, TablesAssumption
<1> DEFINE Searching == Unstarted /\ CurrentIsSearchable
           Typed == TypeOK /\ StorageOK /\ Indexed /\ [Next]_vars
<1>1. UploadsInit => Searching
    BY DEF UploadsInit, Init, Unstarted, CurrentIsSearchable
<1>2. Searching /\ Typed /\ [UploadsNext]_<<vars, storage>> => Searching'
    <2> SUFFICES ASSUME Searching, Typed, [UploadsNext]_<<vars, storage>>
                 PROVE  Searching'
        OBVIOUS
    <2>1. ASSUME NEW d \in Doc, Searchable(d) PROVE Searchable(d)'
        BY <2>1, StoresGrow DEF Searchable
    \* A step of job i: what a content has going for it is not lost.
    <2>2. ASSUME NEW i \in Job, Run(i) PROVE Searching'
        <3>1. UNCHANGED <<content, events, prefix>>
            BY <2>2 DEF Run, storage
        <3>2. CASE ReadDocuments(i, Covered(i))
            <4>1. /\ stage[i] = "idle" /\ stage'[i] = "graph" /\ rows[i] = {}
                  /\ rows'[i] = UNION { RowsOf[d] : d \in Covered(i) }
                  /\ \A j \in Job : j # i => UNCHANGED <<stage[j], rows[j]>>
                BY <3>2 DEF ReadDocuments, TypeOK, Unstarted
            <4>2. Unstarted'
                BY <2>2, <3>1, <4>1 DEF Unstarted, Run
            <4>3. ASSUME NEW j \in Job, NEW d \in Doc, HasRead(j, d)
                  PROVE  HasRead(j, d)'
                BY <4>1, <4>3 DEF HasRead
            <4>4. ASSUME NEW j \in Job, NEW n \in Name, content[n] # Nothing,
                         ToRead(j, n)
                  PROVE  ToRead(j, n)' \/ HasRead(j, content[n])'
                <5>1. CASE j = i
                    <6>1. content[n] \in Covered(i)
                        BY <4>4, <5>1 DEF ToRead, Covered
                    <6>2. RowsOf[content[n]] \subseteq rows'[i]
                        BY <4>1, <6>1
                    <6> QED BY <3>1, <4>1, <5>1, <6>2 DEF HasRead
                <5> QED BY <3>1, <4>1, <4>4, <5>1 DEF ToRead
            <4>5. \A n \in Name : content[n] # Nothing => content[n] \in Doc
                BY DEF StorageOK
            <4> QED BY <2>1, <3>1, <4>2, <4>3, <4>4, <4>5 DEF CurrentIsSearchable
        <3>3. CASE Extraction(i) \/ Work(i) \/ Loss(i) \/ Fail(i)
            <4>1. ASSUME NEW j \in Job, VectorBranchEnds(j)
                  PROVE  /\ stage[j] = "vectors" /\ stage'[j] = "complete"
                         /\ UNCHANGED rows[j]
                         /\ \A r \in rows[j] : \E p \in points : p.id = TextOf[r]
                BY <4>1 DEF VectorBranchEnds, Indexed, VectorSoFar, TypeOK
            <4>2. Unstarted'
                <5> SUFFICES ASSUME NEW j \in Job
                             PROVE  /\ prefix'[j] = Unsent => stage'[j] = "idle"
                                    /\ stage'[j] = "idle" => rows'[j] = {}
                    BY DEF Unstarted
                <5> QED
                    BY <2>2, <3>1, <3>3, <4>1, WorkSteps DEF Unstarted, Run
            <4>3. ASSUME NEW j \in Job, NEW d \in Doc, HasRead(j, d)
                  PROVE  HasRead(j, d)' \/ Searchable(d)'
                <5>1. CASE VectorBranchEnds(j)
                    <6>1. Searchable(d)
                        BY <4>1, <4>3, <5>1 DEF Searchable, HasRead
                    <6> QED BY <2>1, <6>1
                <5> QED BY <3>3, <4>3, <5>1, WorkSteps DEF HasRead
            <4>4. ASSUME NEW j \in Job, NEW n \in Name, ToRead(j, n)
                  PROVE  ToRead(j, n)'
                <5>1. ~VectorBranchEnds(j)
                    BY <4>1, <4>4 DEF ToRead
                <5> QED BY <3>1, <3>3, <4>4, <5>1, WorkSteps DEF ToRead
            <4>5. \A n \in Name : content[n] # Nothing => content[n] \in Doc
                BY DEF StorageOK
            <4> QED BY <2>1, <3>1, <4>2, <4>3, <4>4, <4>5 DEF CurrentIsSearchable
        <3> QED BY <2>2, <3>2, <3>3 DEF Run
    <2>3. ASSUME UNCHANGED vars, NEW n \in Name,
                 \/ Searchable(content[n])
                 \/ \E j \in Job : ToRead(j, n) \/ HasRead(j, content[n]),
                 content'[n] = content[n], \A j \in Job : prefix[j] # Unsent =>
                                               prefix'[j] = prefix[j]
          PROVE  \/ Searchable(content[n])'
                 \/ \E j \in Job : ToRead(j, n)' \/ HasRead(j, content[n])'
        BY <2>3 DEF Searchable, ToRead, HasRead, vars, control, vectorBranch
    <2>4. ASSUME UNCHANGED vars, \A j \in Job : prefix'[j] = Unsent => prefix[j] = Unsent
          PROVE  Unstarted'
        BY <2>4 DEF Unstarted, vars, control
    <2>5. ASSUME NEW m \in Name, NEW d \in ContentsOf[m], Upload(m, d)
          PROVE  Searching'
        <3> SUFFICES ASSUME NEW n \in Name, content'[n] # Nothing, n # m
                     PROVE  \/ Searchable(content[n])'
                            \/ events'[n] > 0
                            \/ \E j \in Job : \/ ToRead(j, n)'
                                            \/ HasRead(j, content[n])'
            BY <2>4, <2>5 DEF Upload, CurrentIsSearchable, StorageOK
        <3>1. content'[n] = content[n] /\ events'[n] = events[n] /\ UNCHANGED prefix
            BY <2>5 DEF Upload, StorageOK
        <3> QED BY <2>3, <2>5, <3>1 DEF Upload, CurrentIsSearchable
    <2>6. ASSUME NEW m \in Name, NEW i \in Job, HandleBlobEvent(m, i)
          PROVE  Searching'
        <3>0. Unstarted'
            BY <2>4, <2>6 DEF HandleBlobEvent, SubmitJob, StorageOK
        <3> SUFFICES ASSUME NEW n \in Name, content'[n] # Nothing
                     PROVE  \/ Searchable(content[n])'
                            \/ events'[n] > 0
                            \/ \E j \in Job : \/ ToRead(j, n)'
                                            \/ HasRead(j, content[n])'
            BY <3>0 DEF CurrentIsSearchable
        <3>1. /\ UNCHANGED <<content, vars>>
              /\ prefix[i] = Unsent /\ prefix'[i] = m
              /\ \A j \in Job : j # i => prefix'[j] = prefix[j]
              /\ n # m => events'[n] = events[n]
            BY <2>6 DEF HandleBlobEvent, Delivered, SubmitJob, StorageOK
        <3>2. CASE n = m
            <4>1. ToRead(i, n)'
                BY <2>6, <3>1, <3>2
                DEF ToRead, Unstarted, StorageOK, vars, control
            <4> QED BY <4>1
        <3> QED BY <2>3, <3>1, <3>2 DEF CurrentIsSearchable
    <2>7. CASE UNCHANGED <<vars, storage>>
        BY <2>3, <2>4, <2>7 DEF storage, CurrentIsSearchable
    <2> QED BY <2>2, <2>5, <2>6, <2>7 DEF UploadsNext
<1>3. QED
    BY <1>1, <1>2, StorageTypes, UploadsRunIngestion, IngestionTypes,
       IndexedAlways, PTL DEF UploadsSpec, Spec
=============================================================================
