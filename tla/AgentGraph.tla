----------------------------- MODULE AgentGraph -----------------------------
(***************************************************************************)
(* One run of the agent (services/api/app/agents/): planner, then the      *)
(* retriever, a tool or nothing, then the responder.  Every call to a      *)
(* model, a store or a tool is a step that may fail; the two searches of   *)
(* the retriever run at the same time.                                     *)
(*                                                                         *)
(* Abstractions.  The wording of questions and queries is left out: a      *)
(* planner's reply is its action, with the tool it names, and the entities *)
(* a question mentions are counted.  A tool's output is one piece of       *)
(* evidence.                                                               *)
(***************************************************************************)
EXTENDS Integers, Sequences

CONSTANTS Evidence,    \* the chunks and facts the stores may return
          MaxDocs,     \* bound: the pieces one search returns (top_k)
          MaxEntities, \* bound: the entities one question mentions
          Tool,        \* the tools of the registry
          Raising,     \* those of them that raise: they call a store bare
          GraphTool,   \* the one that asks the model for entities
          UnknownTool  \* a name that is none of them

ASSUME BoundsAssumption == MaxDocs \in Nat /\ MaxEntities \in Nat
ASSUME ToolsAssumption ==
    /\ Raising \cup {GraphTool} \subseteq Tool
    /\ GraphTool \notin Raising /\ UnknownTool \notin Tool

NoTool == "no tool"
Pending == <<"pending">>

VARIABLES node,       \* the call the run is suspended at
          history,    \* are there earlier turns in `messages`?
          route,      \* the planner's decision
          tool,       \* its tool_choice
          vectorDocs, \* what the vector search returned
          graphDocs,  \* what the graph lookup returned
          entities,   \* the entities the graph tool has still to look up
          documents,  \* the evidence of the responder
          raised,     \* (history) the calls that raised
          asked       \* (history) the calls that were made

vars == <<node, history, route, tool, vectorDocs, graphDocs, entities,
          documents, raised, asked>>

Found == UNION { [1 .. n -> Evidence] : n \in 0 .. MaxDocs }

Init ==
    /\ node = "planner" /\ history \in BOOLEAN
    /\ route = "none" /\ tool = NoTool
    /\ vectorDocs = <<>> /\ graphDocs = <<>> /\ documents = <<>>
    /\ entities = 0
    /\ raised = {} /\ asked = {}

\* The conditional edges out of the planner.
Places == [retrieve |-> "rewriter", tool |-> "tool", respond |-> "responder"]

\* The route an action becomes, and the place the graph goes to: what is not
\* one of the three, and a tool call that names no tool, is a retrieval.
RouteOf(action, choice) ==
    IF action \notin DOMAIN Places \/ (action = "tool" /\ choice = NoTool)
    THEN "retrieve" ELSE action

\* tool_choice is only written on the tool route.
ToolOf(action, choice) ==
    IF RouteOf(action, choice) = "tool" THEN choice ELSE NoTool

\* Where the retriever starts: with no history no model is asked to rewrite.
Entry(r) == IF r = "retrieve" /\ ~history THEN "hyde" ELSE Places[r]

\* The planner's model replies with an action.
Plan(action, choice) ==
    /\ node = "planner"
    /\ route' = RouteOf(action, choice)
    /\ tool'  = ToolOf(action, choice)
    /\ node'  = Entry(RouteOf(action, choice))
    /\ asked' = asked \cup {"planner"}
    /\ UNCHANGED <<history, vectorDocs, graphDocs, documents, raised,
                   entities>>

\* Slip: a dead planner goes straight to the responder.
FallBackToRespond == "respond"

\* A dead or unparseable planner defaults to searching.
FallBack == "retrieve"

PlannerFails ==
    /\ node = "planner"
    /\ route' = FallBack
    /\ node' = Entry(FallBack)
    /\ asked' = asked \cup {"planner"}
    /\ raised' = raised \cup {"planner"}
    /\ UNCHANGED <<history, tool, vectorDocs, graphDocs, documents, entities>>

\* The rewriter and HyDE: each falls back to the question it was given.
Enhance(place, next) ==
    /\ node = place
    /\ node' = next
    /\ asked' = asked \cup {place}
    /\ raised' \in {raised, raised \cup {place}}
    /\ UNCHANGED <<history, route, tool, vectorDocs, graphDocs, documents,
                   entities>>

\* embedder.embed: a failure ends the run, and a vector starts both searches.
Embed ==
    /\ node = "embed"
    /\ \/ /\ node' = "search"
          /\ vectorDocs' = Pending /\ graphDocs' = Pending
          /\ raised' = raised
       \/ /\ node' = "raised"
          /\ raised' = raised \cup {"embed"}
          /\ UNCHANGED <<vectorDocs, graphDocs>>
    /\ asked' = asked \cup {"embed"}
    /\ UNCHANGED <<history, route, tool, documents, entities>>

\* The vector search returns, or raises out of gather() and ends the run.
VectorReturns(docs) ==
    /\ node = "search" /\ vectorDocs = Pending
    /\ vectorDocs' = docs
    /\ asked' = asked \cup {"vector"}
    /\ UNCHANGED <<node, history, route, tool, graphDocs, documents, raised,
                   entities>>

VectorRaises ==
    /\ node = "search" /\ vectorDocs = Pending
    /\ node' = "raised"
    /\ vectorDocs' = <<>>
    /\ asked' = asked \cup {"vector"}
    /\ raised' = raised \cup {"vector"}
    /\ UNCHANGED <<history, route, tool, graphDocs, documents, entities>>

\* Slip: the guard around the graph lookup is dropped.
LookupRaises == node' = IF node \in {"search", "lookup"} THEN "raised" ELSE node

\* An exception of the graph store is caught, and costs its results only.
LookupCaught == node' = node

\* The lookup ends.  gather() does not cancel it when the vector search raises,
\* so it may still be running then.
GraphReturns(docs) ==
    /\ graphDocs = Pending
    /\ graphDocs' = docs
    /\ asked' = asked \cup {"graph"}
    /\ UNCHANGED <<node, history, route, tool, vectorDocs, documents, raised,
                   entities>>

GraphRaises ==
    /\ graphDocs = Pending
    /\ LookupCaught
    /\ graphDocs' = <<>>
    /\ asked' = asked \cup {"graph"}
    /\ raised' = raised \cup {"graph"}
    /\ UNCHANGED <<history, route, tool, vectorDocs, documents, entities>>

\* Slip: what the two searches both found is dropped.
OnceOnly(s) ==
    SelectSeq(s, LAMBDA d : \E i \in DOMAIN s :
                                s[i] = d /\ \A j \in DOMAIN s : s[j] = d => i = j)

\* dict.fromkeys: the first occurrence of each, in order.
Distinct(s) ==
    LET first[i \in 0 .. Len(s)] ==
            IF i = 0 THEN <<>>
            ELSE IF \E j \in 1 .. i - 1 : s[j] = s[i] THEN first[i - 1]
            ELSE Append(first[i - 1], s[i])
    IN  first[Len(s)]

\* gather() returns with both, and the evidence is merged.
Merge ==
    /\ node = "search"
    /\ vectorDocs # Pending /\ graphDocs # Pending
    /\ documents' = Distinct(vectorDocs \o graphDocs)
    /\ node' = "responder"
    /\ UNCHANGED <<history, route, tool, vectorDocs, graphDocs, raised, asked,
                   entities>>

\* The tool node: a tool hands over its output, or a message in its place, as
\* one piece of evidence.  No tool, the calculator, the sandbox and the web
\* search never raise.
HandOver ==
    /\ documents' = <<tool>>
    /\ node' = "responder"

RunTool ==
    /\ node = "tool" /\ tool # GraphTool
    /\ HandOver
    /\ asked' = asked \cup {"tool"}
    /\ UNCHANGED <<history, route, tool, vectorDocs, graphDocs, entities,
                   raised>>

\* A tool that calls its store bare passes the store's error on.
ToolRaises ==
    /\ node = "tool" /\ tool \in Raising
    /\ node' = "raised"
    /\ asked' = asked \cup {"tool"}
    /\ raised' = raised \cup {"store"}
    /\ UNCHANGED <<history, route, tool, vectorDocs, graphDocs, entities,
                   documents>>

\* graph_lookup asks the model to name the question's entities: no answer, or
\* one that is no JSON object, counts as no results; n names are looked up; and
\* an object whose "entities" is null raises at the loop over it, outside the
\* `try`.
Extract ==
    /\ node = "tool" /\ tool = GraphTool
    /\ asked' = asked \cup {"tool"}
    /\ \/ /\ HandOver
          /\ raised' = raised \cup {"extraction"}
          /\ UNCHANGED entities
       \/ /\ entities' \in 0 .. MaxEntities
          /\ node' = "lookup"
          /\ UNCHANGED <<documents, raised>>
       \/ /\ node' = "raised"
          /\ raised' = raised \cup {"null entities"}
          /\ UNCHANGED <<documents, entities>>
    /\ UNCHANGED <<history, route, tool, vectorDocs, graphDocs>>

\* One entity is looked up: a lookup that fails costs its own facts only.
LookUpEntity ==
    /\ node = "lookup" /\ entities > 0
    /\ entities' = entities - 1
    /\ \/ node' = node /\ raised' = raised
       \/ LookupCaught /\ raised' = raised \cup {"graph"}
    /\ UNCHANGED <<history, route, tool, vectorDocs, graphDocs, documents,
                   asked>>

\* The loop is over.
LookupsEnd ==
    /\ node = "lookup" /\ entities = 0
    /\ HandOver
    /\ UNCHANGED <<history, route, tool, vectorDocs, graphDocs, entities, raised,
                   asked>>

\* The responder's model answers or raises.
Respond ==
    /\ node = "responder"
    /\ \/ node' = "answered" /\ raised' = raised
       \/ node' = "raised"   /\ raised' = raised \cup {"responder"}
    /\ asked' = asked \cup {"responder"}
    /\ UNCHANGED <<history, route, tool, vectorDocs, graphDocs, documents,
                   entities>>

Actions == {"retrieve", "tool", "respond", "other"}
Choices == Tool \cup {UnknownTool, NoTool}

Next ==
    \/ \E action \in Actions, choice \in Choices : Plan(action, choice)
    \/ PlannerFails
    \/ Enhance("rewriter", "hyde") \/ Enhance("hyde", "embed")
    \/ Embed
    \/ (\E docs \in Found : VectorReturns(docs)) \/ VectorRaises
    \/ (\E docs \in Found : GraphReturns(docs)) \/ GraphRaises
    \/ Merge
    \/ RunTool \/ ToolRaises
    \/ Extract \/ LookUpEntity \/ LookupsEnd
    \/ Respond

Spec == Init /\ [][Next]_vars
-----------------------------------------------------------------------------
\* Every variable has its type.
TypeOK ==
    /\ node \in {"planner", "rewriter", "hyde", "embed", "search", "tool",
                 "lookup", "responder", "answered", "raised"}
    /\ history \in BOOLEAN
    /\ route \in DOMAIN Places \cup {"none"}
    /\ tool \in Choices
    /\ vectorDocs \in Found \cup {Pending}
    /\ graphDocs \in Found \cup {Pending}
    /\ entities \in 0 .. MaxEntities
    /\ documents \in Seq(Evidence \cup Choices)

\* A run is lost only with the embedder, the vector store, the responder's model
\* or a null where a list of entities belongs: not with the planner, the
\* enhancers, the entity extraction or any number of failed graph lookups, and
\* what the graph store costs the retriever or the tool is the facts alone.
Primaries == {"embed", "vector", "store", "responder", "null entities"}
OnlyPrimariesEndTheRun == node = "raised" => raised \cap Primaries # {}

\* The planner "degrades into retrieve, because searching too much is
\* recoverable and answering without evidence is not": the responder's model is
\* asked without a search or a tool before it only when the planner's model was
\* alive and chose to respond.
NoEvidenceOnlyByChoice ==
    "responder" \in asked /\ asked \cap {"vector", "tool"} = {} =>
        route = "respond" /\ "planner" \notin raised

Occurs(d, s) == \E i \in DOMAIN s : s[i] = d
Place(d, s) == CHOOSE i \in DOMAIN s : s[i] = d /\ \A j \in 1 .. i - 1 : s[j] # d

\* After a retrieval the evidence is everything either search found, once, in
\* the order found: a chunk of the vector store before any fact that only the
\* graph knows.
EvidenceIsWhole ==
    route = "retrieve" /\ node = "responder" =>
        LET all == vectorDocs \o graphDocs
        IN  /\ \A d \in Evidence : Occurs(d, documents) <=> Occurs(d, all)
            /\ \A i, j \in DOMAIN documents : i < j =>
                   Place(documents[i], all) < Place(documents[j], all)
=============================================================================
