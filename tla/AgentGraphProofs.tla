-------------------------- MODULE AgentGraphProofs --------------------------
(***************************************************************************)
(* What ends a run of the agent, when it answers without evidence and how  *)
(* evidence is merged, for any tools, evidence and bounds; and, in two     *)
(* sections at the end, of two of its tools: the types of the code sandbox *)
(* and what a call that finds it unavailable says of the crowd at its      *)
(* gate, and how long the numbers of the calculator get.                   *)
(***************************************************************************)
EXTENDS AgentTools, Sandbox, FiniteSetTheorems, SequenceTheorems,
        WellFoundedInduction, TLAPS

\* The responder is next, or was asked, with evidence looked for before it, or
\* by the choice of a planner that was alive.
Justified ==
    \/ asked \cap {"vector", "tool"} # {}
    \/ route = "respond" /\ "planner" \notin raised

\* The invariant that carries both properties: what the place of the run says of
\* the calls before it.
IInv ==
    /\ OnlyPrimariesEndTheRun
    /\ node = "planner" => asked = {} /\ raised = {} /\ graphDocs # Pending
    /\ node = "search" /\ vectorDocs # Pending => "vector" \in asked
    /\ node = "lookup" => "tool" \in asked
    /\ node = "responder" => Justified
    /\ "responder" \in asked => Justified
    /\ node \in {"rewriter", "hyde", "embed", "search", "tool", "lookup"} =>
           "responder" \notin asked

\* A route of the planner leads to one of its places.
LEMMA RoutesArePlaces ==
    ASSUME NEW action, NEW choice
    PROVE  /\ RouteOf(action, choice) \in {"retrieve", "tool", "respond"}
           /\ Entry(RouteOf(action, choice)) \in
                  {"rewriter", "hyde", "tool", "responder"}
           /\ Entry(RouteOf(action, choice)) = "responder" =>
                  RouteOf(action, choice) = "respond"
<1>1. RouteOf(action, choice) \in {"retrieve", "tool", "respond"}
    BY DEF RouteOf, Places
<1>2. CASE RouteOf(action, choice) = "retrieve"
    BY <1>2 DEF Entry, Places
<1>3. CASE RouteOf(action, choice) = "tool"
    BY <1>3 DEF Entry, Places
<1>4. CASE RouteOf(action, choice) = "respond"
    BY <1>4 DEF Entry, Places
<1> QED BY <1>1, <1>2, <1>3, <1>4

LEMMA InitIInv == Init => IInv
BY DEF Init, IInv, OnlyPrimariesEndTheRun, Pending

LEMMA NextIInv == IInv /\ [Next]_vars => IInv'
<1> SUFFICES ASSUME IInv, [Next]_vars PROVE IInv'
    OBVIOUS
<1> USE DEF IInv, OnlyPrimariesEndTheRun, Justified, Primaries
<1>1. ASSUME NEW action \in Actions, NEW choice \in Choices, Plan(action, choice)
      PROVE  IInv'
    <2>1. Entry(RouteOf(action, choice)) \in {"rewriter", "hyde", "tool", "responder"}
        BY RoutesArePlaces
    <2>2. Entry(RouteOf(action, choice)) = "responder" =>
              RouteOf(action, choice) = "respond"
        BY RoutesArePlaces
    <2> QED BY <1>1, <2>1, <2>2 DEF Plan
<1>2. CASE PlannerFails
    <2>1. Entry(FallBack) \in {"rewriter", "hyde"}
        BY DEF Entry, FallBack, Places
    <2> QED BY <1>2, <2>1 DEF PlannerFails
<1>3. CASE Enhance("rewriter", "hyde") \/ Enhance("hyde", "embed")
    BY <1>3 DEF Enhance
<1>4. CASE Embed
    BY <1>4 DEF Embed
<1>5. CASE \E docs \in Found : VectorReturns(docs)
    BY <1>5 DEF VectorReturns
<1>6. CASE VectorRaises
    BY <1>6 DEF VectorRaises
<1>7. CASE (\E docs \in Found : GraphReturns(docs)) \/ GraphRaises
    BY <1>7 DEF GraphReturns, GraphRaises, LookupCaught
<1>8. CASE Merge
    BY <1>8 DEF Merge
<1>9. CASE RunTool \/ LookupsEnd
    BY <1>9 DEF RunTool, LookupsEnd, HandOver
<1>10. CASE ToolRaises
    BY <1>10 DEF ToolRaises
<1>11. CASE Extract
    BY <1>11 DEF Extract, HandOver
<1>12. CASE LookUpEntity
    BY <1>12 DEF LookUpEntity, LookupCaught
<1>13. CASE Respond
    BY <1>13 DEF Respond
<1>14. CASE UNCHANGED vars
    BY <1>14 DEF vars
<1> QED
    BY <1>1, <1>2, <1>3, <1>4, <1>5, <1>6, <1>7, <1>8, <1>9, <1>10, <1>11, <1>12,
       <1>13, <1>14 DEF Next

LEMMA Invariant == Spec => []IInv
BY InitIInv, NextIInv, PTL DEF Spec

\* planner.py, retriever.py, graph_search.py: whatever the planner, the
\* enhancers, the extraction and the graph store do, and however often, a run is
\* lost only by its primaries.
THEOREM PrimariesAlone == Spec => []OnlyPrimariesEndTheRun
<1>1. IInv => OnlyPrimariesEndTheRun
    BY DEF IInv
<1> QED BY Invariant, <1>1, PTL

\* planner.py, "answering without evidence is not [recoverable]": the responder
\* is asked without a search or a tool only by a living planner's choice.
THEOREM EvidenceByDefault == Spec => []NoEvidenceOnlyByChoice
<1>1. IInv => NoEvidenceOnlyByChoice
    BY DEF IInv, Justified, NoEvidenceOnlyByChoice
<1> QED BY Invariant, <1>1, PTL
-----------------------------------------------------------------------------
\* Induction over the naturals, for a set.
LEMMA SetInduction ==
    ASSUME NEW S \in SUBSET Nat, 0 \in S, \A n \in S : n + 1 \in S
    PROVE  S = Nat
<1>1. SUFFICES ASSUME Nat \ S # {} PROVE FALSE
    OBVIOUS
<1>2. \E x \in Nat \ S : \A y \in Nat \ S : ~ (<<y, x>> \in OpToRel(<, Nat))
    BY <1>1, WFMin, NatLessThanWellFounded
<1>3. PICK x \in Nat \ S : \A y \in Nat \ S : ~ (y < x)
    BY <1>2 DEF OpToRel
<1>4. x - 1 \in Nat /\ x - 1 < x /\ (x - 1) + 1 = x
    BY <1>3
<1> QED BY <1>3, <1>4

\* The equation of Distinct's recursive function, up to the n-th element of s.
Repeats(s, i) == \E j \in 1 .. i - 1 : s[j] = s[i]
DistinctUpTo(s, n, f) ==
    f = [i \in 0 .. n |-> IF i = 0 THEN <<>>
                          ELSE IF Repeats(s, i) THEN f[i - 1]
                          ELSE Append(f[i - 1], s[i])]

\* Distinct is the value of a function that satisfies it.
LEMMA DistinctExists ==
    ASSUME NEW S, NEW s \in Seq(S)
    PROVE  \E f : DistinctUpTo(s, Len(s), f) /\ Distinct(s) = f[Len(s)]
<1> DEFINE T == { n \in Nat : \E f : DistinctUpTo(s, n, f) }
<1>1. 0 \in T
    <2>1. DistinctUpTo(s, 0, [i \in 0 .. 0 |-> <<>>])
        BY DEF DistinctUpTo
    <2> QED BY <2>1
<1>2. ASSUME NEW n \in T PROVE n + 1 \in T
    <2>1. PICK f : DistinctUpTo(s, n, f)
        OBVIOUS
    <2> DEFINE last == IF Repeats(s, n + 1) THEN f[n] ELSE Append(f[n], s[n + 1])
               h == [i \in 0 .. n + 1 |-> IF i = n + 1 THEN last ELSE f[i]]
    <2>2. \A i \in 0 .. n : f[i] = IF i = 0 THEN <<>>
                                   ELSE IF Repeats(s, i) THEN f[i - 1]
                                   ELSE Append(f[i - 1], s[i])
        BY <2>1 DEF DistinctUpTo
    <2>3. ASSUME NEW i \in 0 .. n + 1
          PROVE  h[i] = IF i = 0 THEN <<>> ELSE IF Repeats(s, i) THEN h[i - 1]
                        ELSE Append(h[i - 1], s[i])
        <3>1. CASE i = n + 1
            BY <3>1
        <3>2. CASE i \in 0 .. n
            <4>1. i # 0 => i - 1 \in 0 .. n /\ i - 1 # n + 1
                BY <3>2
            <4> QED BY <2>2, <3>2, <4>1
        <3> QED BY <3>1, <3>2
    <2>4. h = [i \in 0 .. n + 1 |-> h[i]]
        OBVIOUS
    <2> HIDE DEF h
    <2>5. DistinctUpTo(s, n + 1, h)
        BY <2>3, <2>4 DEF DistinctUpTo
    <2> QED BY <2>5
<1>3. T = Nat
    <2> HIDE DEF T
    <2> QED BY <1>1, <1>2, SetInduction DEF T
<1>4. Len(s) \in T
    <2>1. Len(s) \in Nat
        OBVIOUS
    <2> HIDE DEF T
    <2> QED BY <1>3, <2>1
<1> QED
    BY <1>4 DEF Distinct, DistinctUpTo, Repeats

\* d is what the first n elements of s are without their repetitions: e says where
\* each element of d comes from, which is its first place, in the order of s.
FirstPlaces(S, s, n, d, e) ==
    /\ d \in Seq(S) /\ e \in [1 .. Len(d) -> 1 .. n]
    /\ \A k \in 1 .. Len(d) : d[k] = s[e[k]] /\ ~Repeats(s, e[k])
    /\ \A k, l \in 1 .. Len(d) : k < l => e[k] < e[l]
    /\ \A i \in 1 .. n : \E k \in 1 .. Len(d) : d[k] = s[i]

\* One more element, which either was met before or becomes the last.
LEMMA FirstPlacesAdvance ==
    ASSUME NEW S, NEW s \in Seq(S), NEW n \in Nat, n + 1 <= Len(s),
           NEW d, NEW e, FirstPlaces(S, s, n, d, e)
    PROVE  /\ Repeats(s, n + 1) => \E x : FirstPlaces(S, s, n + 1, d, x)
           /\ ~Repeats(s, n + 1) =>
                  \E x : FirstPlaces(S, s, n + 1, Append(d, s[n + 1]), x)
<1> USE DEF FirstPlaces
<1>1. CASE Repeats(s, n + 1)
    <2>1. PICK j \in 1 .. n : s[j] = s[n + 1]
        BY <1>1 DEF Repeats
    <2>2. FirstPlaces(S, s, n + 1, d, e)
        <3>1. e \in [1 .. Len(d) -> 1 .. n + 1]
            OBVIOUS
        <3>2. \A i \in 1 .. n + 1 : \E k \in 1 .. Len(d) : d[k] = s[i]
            BY <2>1
        <3> QED BY <3>1, <3>2
    <2> QED BY <1>1, <2>2
<1>2. CASE ~Repeats(s, n + 1)
    <2> DEFINE c == Append(d, s[n + 1])
               x == [k \in 1 .. Len(c) |-> IF k = Len(c) THEN n + 1 ELSE e[k]]
    <2>1. /\ s[n + 1] \in S /\ c \in Seq(S) /\ Len(c) = Len(d) + 1
          /\ c[Len(c)] = s[n + 1]
          /\ \A k \in 1 .. Len(d) : c[k] = d[k]
          /\ Len(d) \in Nat
        OBVIOUS
    <2> HIDE DEF c
    <2>2. /\ x \in [1 .. Len(c) -> 1 .. n + 1] /\ x[Len(c)] = n + 1
          /\ \A k \in 1 .. Len(d) : x[k] = e[k] /\ x[k] \in 1 .. n
        <3>1. e \in [1 .. Len(d) -> 1 .. n] /\ Len(c) \in 1 .. Len(c)
            BY <2>1
        <3>2. \A k \in 1 .. Len(d) : e[k] \in 1 .. n /\ k \in 1 .. Len(c) /\ k # Len(c)
            BY <2>1, <3>1
        <3>3. \A k \in 1 .. Len(c) : k = Len(c) \/ k \in 1 .. Len(d)
            BY <2>1
        <3>4. \A k \in 1 .. Len(c) : x[k] \in 1 .. n + 1
            BY <3>2, <3>3
        <3> QED BY <3>1, <3>2, <3>4
    <2> HIDE DEF x
    <2>3. \A k \in 1 .. Len(c) : k = Len(c) \/ k \in 1 .. Len(d)
        BY <2>1
    <2>4. \A k \in 1 .. Len(c) : c[k] = s[x[k]] /\ ~Repeats(s, x[k])
        BY <1>2, <2>1, <2>2, <2>3
    <2>5. \A k, l \in 1 .. Len(c) : k < l => x[k] < x[l]
        <3> SUFFICES ASSUME NEW k \in 1 .. Len(c), NEW l \in 1 .. Len(c), k < l
                     PROVE  x[k] < x[l]
            OBVIOUS
        <3>1. k \in 1 .. Len(d)
            BY <2>1
        <3>2. CASE l = Len(c)
            BY <2>2, <3>1, <3>2
        <3>3. CASE l \in 1 .. Len(d)
            BY <2>2, <3>1, <3>3
        <3> QED BY <2>3, <3>2, <3>3
    <2>6. \A i \in 1 .. n + 1 : \E k \in 1 .. Len(c) : c[k] = s[i]
        <3> SUFFICES ASSUME NEW i \in 1 .. n + 1 PROVE \E k \in 1 .. Len(c) : c[k] = s[i]
            OBVIOUS
        <3>1. CASE i = n + 1
            BY <2>1, <3>1
        <3>2. CASE i \in 1 .. n
            <4>1. PICK k \in 1 .. Len(d) : d[k] = s[i]
                BY <3>2
            <4>2. k \in 1 .. Len(c) /\ c[k] = s[i]
                BY <2>1, <4>1
            <4> QED BY <4>2
        <3> QED BY <3>1, <3>2
    <2>7. FirstPlaces(S, s, n + 1, c, x)
        BY <2>1, <2>2, <2>4, <2>5, <2>6
    <2> QED BY <1>2, <2>7 DEF c
<1> QED BY <1>1, <1>2

\* dict.fromkeys: every element of s, at its first place.
LEMMA DistinctKeepsFirsts ==
    ASSUME NEW S, NEW s \in Seq(S)
    PROVE  \E e : FirstPlaces(S, s, Len(s), Distinct(s), e)
<1>1. PICK f : DistinctUpTo(s, Len(s), f) /\ Distinct(s) = f[Len(s)]
    BY DistinctExists
<1>2. \A i \in 0 .. Len(s) : f[i] = IF i = 0 THEN <<>>
                                    ELSE IF Repeats(s, i) THEN f[i - 1]
                                    ELSE Append(f[i - 1], s[i])
    BY <1>1 DEF DistinctUpTo
<1> DEFINE T == { n \in Nat : n <= Len(s) => \E e : FirstPlaces(S, s, n, f[n], e) }
<1>3. 0 \in T
    <2>1. f[0] = <<>>
        BY <1>2
    <2>2. FirstPlaces(S, s, 0, <<>>, <<>>)
        BY DEF FirstPlaces
    <2> QED BY <2>1, <2>2
<1>4. ASSUME NEW n \in T PROVE n + 1 \in T
    <2>1. CASE n + 1 <= Len(s)
        <3>1. PICK e : FirstPlaces(S, s, n, f[n], e)
            BY <2>1
        <3>2. f[n + 1] = IF Repeats(s, n + 1) THEN f[n] ELSE Append(f[n], s[n + 1])
            <4>1. n + 1 \in 0 .. Len(s) /\ n + 1 # 0 /\ (n + 1) - 1 = n
                BY <2>1
            <4> QED BY <1>2, <4>1
        <3>3. n \in Nat
            OBVIOUS
        <3> HIDE DEF T
        <3>4. \E x : FirstPlaces(S, s, n + 1, f[n + 1], x)
            BY <2>1, <3>1, <3>2, <3>3, FirstPlacesAdvance
        <3> QED BY <3>3, <3>4 DEF T
    <2> QED BY <2>1
<1>5. T = Nat
    <2> HIDE DEF T
    <2> QED BY <1>3, <1>4, SetInduction DEF T
<1> QED BY <1>1, <1>5

\* A first place is the place.
LEMMA PlaceIsFirst ==
    ASSUME NEW S, NEW s \in Seq(S), NEW i \in 1 .. Len(s), ~Repeats(s, i)
    PROVE  Place(s[i], s) = i
<1> DEFINE First(j) == s[j] = s[i] /\ \A m \in 1 .. j - 1 : s[m] # s[i]
<1>1. First(i) /\ i \in DOMAIN s
    BY DEF Repeats
<1>2. ASSUME NEW j \in DOMAIN s, First(j) PROVE j = i
    <2>1. j \in 1 .. Len(s) /\ i \in Nat /\ j \in Nat
        OBVIOUS
    <2>2. CASE j < i
        <3>1. j \in 1 .. i - 1
            BY <2>1, <2>2
        <3> QED BY <1>1, <1>2, <3>1
    <2>3. CASE i < j
        <3>1. i \in 1 .. j - 1
            BY <2>1, <2>3
        <3> QED BY <1>2, <3>1
    <2> QED BY <2>1, <2>2, <2>3
<1>3. Place(s[i], s) = CHOOSE j \in DOMAIN s : First(j)
    BY DEF Place
<1> HIDE DEF First
<1> QED BY <1>1, <1>2, <1>3

\* What merging two results makes of the evidence.
LEMMA MergedIsWhole ==
    ASSUME NEW S, NEW all \in Seq(S), NEW docs, docs = Distinct(all)
    PROVE  /\ \A d \in S : Occurs(d, docs) <=> Occurs(d, all)
           /\ \A i, j \in DOMAIN docs : i < j => Place(docs[i], all) < Place(docs[j], all)
<1>1. PICK e : FirstPlaces(S, all, Len(all), docs, e)
    BY DistinctKeepsFirsts
<1>2. /\ docs \in Seq(S) /\ DOMAIN docs = 1 .. Len(docs) /\ DOMAIN all = 1 .. Len(all)
      /\ \A k \in DOMAIN docs :
             /\ e[k] \in 1 .. Len(all) /\ docs[k] = all[e[k]] /\ ~Repeats(all, e[k])
      /\ \A k, l \in DOMAIN docs : k < l => e[k] < e[l]
      /\ \A i \in 1 .. Len(all) : \E k \in DOMAIN docs : docs[k] = all[i]
    BY <1>1 DEF FirstPlaces
<1>3. \A d \in S : Occurs(d, docs) <=> Occurs(d, all)
    BY <1>2 DEF Occurs
<1>4. ASSUME NEW k \in DOMAIN docs PROVE Place(docs[k], all) = e[k]
    <2>1. e[k] \in 1 .. Len(all) /\ docs[k] = all[e[k]] /\ ~Repeats(all, e[k])
        BY <1>2
    <2>2. Place(all[e[k]], all) = e[k]
        BY <2>1, PlaceIsFirst
    <2> QED BY <2>1, <2>2
<1> QED BY <1>2, <1>3, <1>4

\* The results are pieces of evidence, and what reaches the responder after a
\* retrieval is what the merge made of them.
Results == Seq(Evidence) \cup {Pending}
MergeInv ==
    /\ vectorDocs \in Results /\ graphDocs \in Results
    /\ node \in {"tool", "lookup"} => route = "tool"
    /\ node = "responder" /\ route = "retrieve" =>
           /\ vectorDocs # Pending /\ graphDocs # Pending
           /\ documents = Distinct(vectorDocs \o graphDocs)

LEMMA FoundIsResults == Found \subseteq Results
<1>1. ASSUME NEW n \in 0 .. MaxDocs PROVE [1 .. n -> Evidence] \subseteq Seq(Evidence)
    BY BoundsAssumption
<1> QED BY <1>1 DEF Found, Results

\* retriever.py: whatever the two searches find, and whichever fails, the
\* responder gets everything that was found, once, in the order found.
THEOREM EvidenceReachesTheResponder == Spec => []EvidenceIsWhole
<1>1. Init => MergeInv
    BY DEF Init, MergeInv, Results
<1>2. MergeInv /\ [Next]_vars => MergeInv'
    <2> SUFFICES ASSUME MergeInv, [Next]_vars PROVE MergeInv'
        OBVIOUS
    <2> USE DEF MergeInv
    <2>1. ASSUME NEW action \in Actions, NEW choice \in Choices, Plan(action, choice)
          PROVE  MergeInv'
        <3> DEFINE r == RouteOf(action, choice)
        <3>1. /\ Entry(r) \in {"rewriter", "hyde", "tool", "responder"}
              /\ Entry(r) = "responder" => r = "respond"
            BY RoutesArePlaces
        <3>2. Entry(r) = "tool" => r = "tool"
            <4>1. r \in {"retrieve", "tool", "respond"}
                BY RoutesArePlaces
            <4> QED BY <4>1 DEF Entry, Places
        <3>3. route' = r /\ node' = Entry(r) /\ UNCHANGED <<vectorDocs, graphDocs>>
            BY <2>1 DEF Plan
        <3> HIDE DEF r
        <3> QED BY <3>1, <3>2, <3>3
    <2>2. CASE PlannerFails
        <3>1. Entry(FallBack) \in {"rewriter", "hyde"}
            BY DEF Entry, FallBack, Places
        <3> QED BY <2>2, <3>1 DEF PlannerFails
    <2>3. CASE Enhance("rewriter", "hyde") \/ Enhance("hyde", "embed")
        BY <2>3 DEF Enhance
    <2>4. CASE Embed
        BY <2>4 DEF Embed, Results
    <2>5. ASSUME NEW docs \in Found, VectorReturns(docs) \/ GraphReturns(docs)
          PROVE  MergeInv'
        <3>1. docs \in Results
            BY FoundIsResults
        <3> QED BY <2>5, <3>1 DEF VectorReturns, GraphReturns
    <2>6. CASE VectorRaises \/ GraphRaises
        <3>1. <<>> \in Results
            BY DEF Results
        <3> QED BY <2>6, <3>1 DEF VectorRaises, GraphRaises, LookupCaught
    <2>7. CASE Merge
        BY <2>7 DEF Merge
    <2>8. CASE RunTool \/ LookupsEnd \/ Extract
        BY <2>8 DEF RunTool, LookupsEnd, Extract, HandOver
    <2>9. CASE ToolRaises \/ LookUpEntity \/ Respond
        BY <2>9 DEF ToolRaises, LookUpEntity, LookupCaught, Respond
    <2>10. CASE UNCHANGED vars
        BY <2>10 DEF vars
    <2> QED
        BY <2>1, <2>2, <2>3, <2>4, <2>5, <2>6, <2>7, <2>8, <2>9, <2>10 DEF Next
<1>3. MergeInv => EvidenceIsWhole
    <2> SUFFICES ASSUME MergeInv, route = "retrieve", node = "responder"
                 PROVE  LET all == vectorDocs \o graphDocs
                        IN  /\ \A d \in Evidence : Occurs(d, documents) <=> Occurs(d, all)
                            /\ \A i, j \in DOMAIN documents : i < j =>
                                   Place(documents[i], all) < Place(documents[j], all)
        BY DEF EvidenceIsWhole
    <2>1. /\ vectorDocs \o graphDocs \in Seq(Evidence)
          /\ documents = Distinct(vectorDocs \o graphDocs)
        BY DEF MergeInv, Results
    <2> QED BY <2>1, MergedIsWhole
<1> QED BY <1>1, <1>2, <1>3, PTL DEF Spec

-----------------------------------------------------------------------------
\* The code sandbox behind one of the tools, in a state of its own.

\* The calls that c has waited behind, itself included, once they are answered.
Passed(c) == { d \in met[c] \cup {c} : request[d] = "answered" }

\* The loop runs one call, which has the child; a call that was made is with the
\* sandbox; and a call that waits has met everyone who is there.
SandboxOrder ==
    /\ \A c, d \in Call : request[c] = "running" /\ request[d] = "running" => c = d
    /\ LoopFree <=> child = "none"
    /\ child = "none" => ran = 0
    /\ \A c \in Call : client[c] = "idle" => request[c] = "none"
    /\ \A c \in Call : client[c] = "waiting" => request[c] # "none"
    /\ \A c \in Call : client[c] = "idle" => waited[c] = 0
    /\ \A c \in Call : c \notin met[c] /\ IsFiniteSet(met[c])
    /\ IsFiniteSet(AtSandbox)
    /\ \A c \in Call, d \in AtSandbox :
           client[c] = "waiting" /\ d # c => d \in met[c]

\* A call waits for the calls before it, at most the child's timeout for each, and
\* for the ticks of the one that runs.  A torn report is what breaks this.
WaitsAreShared ==
    \A c \in Call : client[c] = "waiting" =>
        waited[c] <= Inner * Cardinality(Passed(c)) + ran \/ child = "torn"

SandboxInv ==
    /\ SandboxTypeOK /\ SandboxOrder
    /\ WaitsAreShared /\ TimeoutNeedsACrowd

\* How many a call has waited behind, and how many it can have.
LEMMA PassedCount ==
    ASSUME SandboxOrder, SandboxTypeOK, NEW c \in Call
    PROVE  /\ IsFiniteSet(Passed(c)) /\ Cardinality(Passed(c)) \in Nat
           /\ Cardinality(met[c]) \in Nat
           /\ Cardinality(Passed(c)) <= Cardinality(met[c]) + 1
           /\ \A d \in Call : d \in met[c] \cup {c} /\ request[d] # "answered" =>
                  Cardinality(Passed(c)) <= Cardinality(met[c])
<1>1. IsFiniteSet(met[c]) /\ c \notin met[c]
    BY DEF SandboxOrder
<1>2. /\ IsFiniteSet(met[c] \cup {c})
      /\ Cardinality(met[c] \cup {c}) = Cardinality(met[c]) + 1
    BY <1>1, FS_AddElement
<1>3. Passed(c) \subseteq met[c] \cup {c}
    BY DEF Passed
<1>4. /\ IsFiniteSet(Passed(c))
      /\ Cardinality(Passed(c)) <= Cardinality(met[c] \cup {c})
    BY <1>2, <1>3, FS_Subset
<1>5. Cardinality(Passed(c)) \in Nat /\ Cardinality(met[c]) \in Nat
    BY <1>1, <1>4, FS_CardinalityType
<1>6. ASSUME NEW d \in Call, d \in met[c] \cup {c}, request[d] # "answered"
      PROVE  Cardinality(Passed(c)) <= Cardinality(met[c])
    <2>1. d \notin Passed(c)
        BY <1>6 DEF Passed
    <2>2. Passed(c) # met[c] \cup {c}
        BY <1>6, <2>1
    <2>3. Cardinality(Passed(c)) # Cardinality(met[c] \cup {c})
        BY <1>2, <1>3, <2>2, FS_Subset
    <2> QED BY <1>2, <1>4, <1>5, <2>3
<1> QED BY <1>2, <1>4, <1>5, <1>6

\* The sandbox counts as we do.
LEMMA SandboxCounts == \A S : Cardinality(S) = Cardinality(S)
BY DEF Cardinality, Cardinality

\* What n timeouts come to, and one more.
LEMMA Timeouts ==
    ASSUME NEW m \in Nat, NEW n \in Nat
    PROVE  /\ Inner * m \in Nat
           /\ Inner * (m + 1) = Inner * m + Inner
           /\ m <= n => Inner * m <= Inner * n
BY TimeoutsAssumption

LEMMA InitSandbox ==
    ASSUME SandboxInit PROVE SandboxInv
<1> USE TimeoutsAssumption DEF SandboxInit
<1>1. SandboxTypeOK
    BY DEF SandboxTypeOK
<1>2. SandboxOrder
    <2>1. AtSandbox = {} /\ LoopFree
        BY DEF AtSandbox, LoopFree
    <2> QED BY <2>1, FS_EmptySet DEF SandboxOrder
<1> QED
    BY <1>1, <1>2 DEF SandboxInv, WaitsAreShared, TimeoutNeedsACrowd

\* A call reaches the sandbox, and meets who is there.
LEMMA PostKeeps ==
    ASSUME SandboxInv,
           NEW c \in Call, NEW p \in Programs, Post(c, p)
    PROVE  SandboxInv'
<1> USE DEF SandboxInv
<1>1. /\ client[c] = "idle" /\ request[c] = "none" /\ waited[c] = 0
      /\ client' = [client EXCEPT ![c] = "waiting"]
      /\ code' = [code EXCEPT ![c] = p]
      /\ request' = [request EXCEPT ![c] = "queued"]
      /\ met' = [d \in Call |-> CASE d = c -> AtSandbox
                                  [] d # c /\ client[d] = "waiting" -> met[d] \cup {c}
                                  [] OTHER -> met[d]]
      /\ UNCHANGED <<waited, status, child, ran>>
    BY DEF Post, SandboxOrder
<1>2. /\ met'[c] = AtSandbox
      /\ \A d \in Call \ {c} : client[d] = "waiting" => met'[d] = met[d] \cup {c}
      /\ \A d \in Call \ {c} : client[d] # "waiting" => met'[d] = met[d]
    BY <1>1
<1>3. AtSandbox' = AtSandbox \cup {c}
      /\ c \notin AtSandbox /\ AtSandbox \subseteq Call
    BY <1>1 DEF AtSandbox, SandboxTypeOK
<1>4. SandboxTypeOK'
    <2>1. met' \in [Call -> SUBSET Call]
        BY <1>1, <1>3 DEF SandboxTypeOK
    <2> QED BY <1>1, <2>1 DEF SandboxTypeOK
<1>5. SandboxOrder'
    <2>1. LoopFree' <=> LoopFree
        BY <1>1 DEF LoopFree, SandboxTypeOK
    <2>2. ASSUME NEW d \in Call PROVE d \notin met'[d] /\ IsFiniteSet(met'[d])
        <3>1. d \notin met[d] /\ IsFiniteSet(met[d]) /\ IsFiniteSet(met[d] \cup {c})
            BY FS_AddElement DEF SandboxOrder
        <3>2. IsFiniteSet(AtSandbox)
            BY DEF SandboxOrder
        <3>4. CASE d = c
            BY <1>2, <1>3, <3>2, <3>4
        <3>5. CASE d # c
            <4>1. met'[d] \in {met[d] \cup {c}, met[d]}
                BY <1>2, <3>5
            <4> QED BY <3>1, <3>5, <4>1
        <3> QED BY <3>4, <3>5
    <2>3. IsFiniteSet(AtSandbox')
        BY <1>3, FS_AddElement DEF SandboxOrder
    <2>4. \A d \in Call, e \in AtSandbox' :
              client'[d] = "waiting" /\ e # d => e \in met'[d]
        BY <1>1, <1>2, <1>3 DEF SandboxOrder, SandboxTypeOK
    <2>5. \A d \in Call : client'[d] = "idle" => request'[d] = "none"
        BY <1>1 DEF SandboxOrder, SandboxTypeOK
    <2>9. \A d \in Call : client'[d] = "waiting" => request'[d] # "none"
        BY <1>1 DEF SandboxOrder, SandboxTypeOK
    <2>6. \A d \in Call : client'[d] = "idle" => waited'[d] = 0
        BY <1>1 DEF SandboxOrder, SandboxTypeOK
    <2>7. \A d, e \in Call : request'[d] = "running" /\ request'[e] = "running" => d = e
        BY <1>1 DEF SandboxOrder, SandboxTypeOK
    <2>8. (LoopFree' <=> child' = "none") /\ (child' = "none" => ran' = 0)
        BY <1>1, <2>1 DEF SandboxOrder
    <2> QED BY <2>2, <2>3, <2>4, <2>5, <2>6, <2>7, <2>8, <2>9 DEF SandboxOrder
<1>6. WaitsAreShared'
    <2> SUFFICES ASSUME NEW d \in Call, client'[d] = "waiting", child # "torn"
                 PROVE  waited[d] <= Inner * Cardinality(Passed(d)') + ran
        BY <1>1 DEF WaitsAreShared
    <2>1. CASE d = c
        <3>1. Passed(c)' = { e \in AtSandbox : request[e] = "answered" }
            BY <1>1, <1>2, <1>3 DEF Passed, SandboxTypeOK
        <3>2. Passed(c)' = {}
            BY <3>1 DEF AtSandbox
        <3>3. Cardinality(Passed(c)') = 0
            BY <3>2, FS_EmptySet
        <3>4. waited[c] = 0 /\ ran \in Nat /\ Inner * 0 = 0
            BY <1>1, TimeoutsAssumption DEF SandboxTypeOK
        <3> QED BY <2>1, <3>3, <3>4
    <2>2. CASE d # c
        <3>1. client[d] = "waiting" /\ met'[d] = met[d] \cup {c}
            BY <1>1, <1>2, <2>2 DEF SandboxTypeOK
        <3>2. Passed(d)' = Passed(d)
            BY <1>1, <2>2, <3>1 DEF Passed, SandboxTypeOK
        <3> QED BY <3>1, <3>2 DEF WaitsAreShared
    <2> QED BY <2>1, <2>2
<1>7. TimeoutNeedsACrowd'
    BY <1>1, <1>2 DEF TimeoutNeedsACrowd, SandboxTypeOK
<1> QED BY <1>4, <1>5, <1>6, <1>7

\* A call is answered, by the loop at once or after the child it joined.
LEMMA SandboxAnswerKeeps ==
    ASSUME SandboxInv, NEW c \in Call,
           NEW s \in {"output", "silent", "killed", "refused", "error"},
           \/ request[c] = "queued" /\ LoopFree
           \/ request[c] = "running" /\ child # "torn",
           Answer(c, s)
    PROVE  SandboxInv'
<1> USE DEF SandboxInv
<1>1. /\ request' = [request EXCEPT ![c] = "answered"]
      /\ status' = [status EXCEPT ![c] = s]
      /\ child' = "none" /\ ran' = 0
      /\ UNCHANGED <<client, code, waited, met>>
    BY DEF Answer
<1>2. SandboxTypeOK'
    BY <1>1, TimeoutsAssumption DEF SandboxTypeOK
<1>3. child # "torn" /\ c \in AtSandbox
    BY DEF SandboxOrder, AtSandbox
<1>4. SandboxOrder'
    <2>1. LoopFree'
        BY <1>1 DEF LoopFree, SandboxOrder, SandboxTypeOK
    <2>2. AtSandbox' \subseteq AtSandbox
        BY <1>1 DEF AtSandbox, SandboxTypeOK
    <2>3. IsFiniteSet(AtSandbox')
        BY <2>2, FS_Subset DEF SandboxOrder
    <2>4. \A d \in Call : /\ client[d] = "idle" => request'[d] = "none"
                          /\ client[d] = "waiting" => request'[d] # "none"
        BY <1>1 DEF SandboxOrder, SandboxTypeOK
    <2> QED BY <1>1, <2>1, <2>2, <2>3, <2>4 DEF SandboxOrder, LoopFree
<1>5. WaitsAreShared'
    <2> SUFFICES ASSUME NEW d \in Call, client[d] = "waiting"
                 PROVE  waited[d] <= Inner * Cardinality(Passed(d)') + 0
        BY <1>1 DEF WaitsAreShared
    <2>1. waited[d] <= Inner * Cardinality(Passed(d)) + ran
        BY <1>3 DEF WaitsAreShared
    <2>2. c \in met[d] \cup {d}
        BY <1>3 DEF SandboxOrder
    <2>3. Passed(d)' = Passed(d) \cup {c} /\ c \notin Passed(d)
        BY <1>1, <1>3, <2>2 DEF Passed, AtSandbox, SandboxTypeOK
    <2>4. Cardinality(Passed(d)') = Cardinality(Passed(d)) + 1
        BY <2>3, PassedCount, FS_AddElement
    <2>5. /\ Cardinality(Passed(d)) \in Nat /\ ran \in 0 .. Inner /\ Inner \in Nat
          /\ waited[d] \in Nat
        BY PassedCount, TimeoutsAssumption DEF SandboxTypeOK
    <2>6. Inner * Cardinality(Passed(d)') = Inner * Cardinality(Passed(d)) + Inner
          /\ Inner * Cardinality(Passed(d)) \in Nat
        BY <2>4, <2>5, Timeouts
    <2> QED BY <2>1, <2>5, <2>6
<1>6. TimeoutNeedsACrowd'
    BY <1>1, <1>3 DEF TimeoutNeedsACrowd
<1> QED BY <1>2, <1>4, <1>5, <1>6

\* A call gets the loop.
LEMMA StartKeeps ==
    ASSUME SandboxInv, NEW c \in Call, Start(c)
    PROVE  SandboxInv'
<1> USE DEF SandboxInv
<1>1. /\ request[c] = "queued" /\ LoopFree /\ child = "none" /\ ran = 0
      /\ request' = [request EXCEPT ![c] = "running"]
      /\ child' = "running" /\ ran' = 0
      /\ UNCHANGED <<client, code, waited, status, met>>
    BY DEF Start, SandboxOrder
<1>2. SandboxTypeOK'
    BY <1>1 DEF SandboxTypeOK
<1>3. SandboxOrder'
    <2>1. ~LoopFree'
        BY <1>1 DEF LoopFree, SandboxTypeOK
    <2>2. AtSandbox' = AtSandbox
        BY <1>1 DEF AtSandbox, SandboxTypeOK
    <2>3. \A d, e \in Call : request'[d] = "running" /\ request'[e] = "running" => d = e
        BY <1>1 DEF LoopFree, SandboxTypeOK
    <2>4. \A d \in Call : /\ client[d] = "idle" => request'[d] = "none"
                          /\ client[d] = "waiting" => request'[d] # "none"
        BY <1>1 DEF SandboxOrder, SandboxTypeOK
    <2> QED BY <1>1, <2>1, <2>2, <2>3, <2>4 DEF SandboxOrder
<1>4. \A d \in Call : Passed(d)' = Passed(d)
    BY <1>1 DEF Passed, SandboxTypeOK
<1>5. WaitsAreShared' /\ TimeoutNeedsACrowd'
    BY <1>1, <1>4 DEF WaitsAreShared, TimeoutNeedsACrowd
<1> QED BY <1>2, <1>3, <1>5

\* The child's code ends, or dies in the middle of its report.
LEMMA ChildKeeps ==
    ASSUME SandboxInv, NEW c \in Call, CodeEnds(c) \/ Tear(c)
    PROVE  SandboxInv'
<1> USE DEF SandboxInv
<1>1. /\ child # "none" /\ child # "torn" /\ child' \in {"blocked", "exited", "torn"}
      /\ UNCHANGED <<client, code, waited, request, status, ran, met>>
    BY DEF CodeEnds, Tear
<1>2. SandboxTypeOK'
    BY <1>1 DEF SandboxTypeOK
<1>3. SandboxOrder'
    BY <1>1 DEF SandboxOrder, LoopFree, AtSandbox
<1>4. WaitsAreShared' /\ TimeoutNeedsACrowd'
    BY <1>1 DEF WaitsAreShared, Passed, TimeoutNeedsACrowd
<1> QED BY <1>2, <1>3, <1>4

\* A call ends for the tool, with its answer or without.
LEMMA EndKeepsSandbox ==
    ASSUME SandboxInv, NEW c \in Call, NEW how \in {"result", "failed"},
           ClientEnds(c, how)
    PROVE  SandboxInv'
<1> USE DEF SandboxInv
<1>1. /\ client[c] = "waiting"
      /\ client' = [client EXCEPT ![c] = how]
      /\ waited' = [waited EXCEPT ![c] = 0]
      /\ met' = [met EXCEPT ![c] = {}]
      /\ UNCHANGED <<code, request, status, child, ran>>
    BY DEF ClientEnds
<1>2. /\ client'[c] = how /\ waited'[c] = 0 /\ met'[c] = {}
      /\ \A d \in Call \ {c} :
             client'[d] = client[d] /\ waited'[d] = waited[d] /\ met'[d] = met[d]
    BY <1>1 DEF SandboxTypeOK
<1>3. SandboxTypeOK'
    BY <1>1, TimeoutsAssumption DEF SandboxTypeOK
<1>4. SandboxOrder'
    BY <1>1, <1>2, FS_EmptySet DEF SandboxOrder, LoopFree, AtSandbox
<1>5. WaitsAreShared' /\ TimeoutNeedsACrowd'
    BY <1>1, <1>2 DEF WaitsAreShared, Passed, TimeoutNeedsACrowd
<1> QED BY <1>3, <1>4, <1>5

\* The tool cannot reach the sandbox.
LEMMA PostFailsKeeps ==
    ASSUME SandboxInv, NEW c \in Call, PostFails(c)
    PROVE  SandboxInv'
<1> USE DEF SandboxInv
<1>1. /\ client[c] = "idle"
      /\ client' = [client EXCEPT ![c] = "failed"]
      /\ UNCHANGED <<code, waited, request, status, child, ran, met>>
    BY DEF PostFails
<1>2. /\ SandboxTypeOK' /\ client'[c] = "failed"
      /\ \A d \in Call \ {c} : client'[d] = client[d]
    BY <1>1 DEF SandboxTypeOK
<1>3. SandboxOrder'
    BY <1>1, <1>2 DEF SandboxOrder, LoopFree, AtSandbox
<1>4. WaitsAreShared' /\ TimeoutNeedsACrowd'
    BY <1>1, <1>2 DEF WaitsAreShared, Passed, TimeoutNeedsACrowd
<1> QED BY <1>2, <1>3, <1>4

\* The tool stops waiting: its whole timeout has gone to calls it has met.
LEMMA GiveUpKeeps ==
    ASSUME SandboxInv, NEW c \in Call, GiveUp(c)
    PROVE  SandboxInv'
<1> USE DEF SandboxInv
<1>1. /\ client[c] = "waiting" /\ waited[c] = Outer
      /\ client' = [client EXCEPT ![c] = "expired"]
      /\ waited' = [waited EXCEPT ![c] = 0]
      /\ met' = met
      /\ UNCHANGED <<code, request, status, child, ran>>
    BY DEF GiveUp, ClientEnds, SandboxTypeOK
<1>2. /\ client'[c] = "expired" /\ waited'[c] = 0
      /\ \A d \in Call \ {c} : client'[d] = client[d] /\ waited'[d] = waited[d]
      /\ SandboxTypeOK'
    BY <1>1, TimeoutsAssumption DEF SandboxTypeOK
<1>3. SandboxOrder'
    BY <1>1, <1>2 DEF SandboxOrder, LoopFree, AtSandbox
<1>4. WaitsAreShared'
    BY <1>1, <1>2 DEF WaitsAreShared, Passed
<1>5. Outer <= Inner * (1 + Cardinality(met[c])) \/ child = "torn"
    <2> SUFFICES ASSUME child # "torn"
                 PROVE  Outer <= Inner * (1 + Cardinality(met[c]))
        OBVIOUS
    <2> DEFINE n == Cardinality(Passed(c))
               m == Cardinality(met[c])
    <2>1. /\ n \in Nat /\ m \in Nat /\ n <= m + 1
          /\ \A d \in Call : d \in met[c] \cup {c} /\ request[d] # "answered" => n <= m
        BY PassedCount
    <2>2. Outer <= Inner * n + ran
        BY <1>1 DEF WaitsAreShared
    <2>3. ran = 0 \/ n <= m
        <3>1. CASE LoopFree
            BY <3>1 DEF SandboxOrder
        <3>2. CASE ~LoopFree
            <4>1. PICK d \in Call : request[d] = "running"
                BY <3>2 DEF LoopFree
            <4>2. d \in met[c] \cup {c}
                BY <1>1, <4>1 DEF SandboxOrder, AtSandbox
            <4> QED BY <2>1, <4>1, <4>2
        <3> QED BY <3>1, <3>2
    <2> HIDE DEF n, m
    <2>4. /\ Inner * n \in Nat /\ Inner * m \in Nat
          /\ Inner * (m + 1) = Inner * m + Inner
          /\ n <= m => Inner * n <= Inner * m
          /\ n <= m + 1 => Inner * n <= Inner * (m + 1)
        BY <2>1, Timeouts
    <2>5. ran \in 0 .. Inner /\ Outer \in Nat /\ Inner \in Nat
        BY TimeoutsAssumption DEF SandboxTypeOK
    <2>6. Outer <= Inner * (m + 1)
        BY <2>1, <2>2, <2>3, <2>4, <2>5
    <2>7. m + 1 = 1 + m
        BY <2>1
    <2> QED BY <2>6, <2>7 DEF m
<1>6. TimeoutNeedsACrowd'
    BY <1>1, <1>2, <1>5, SandboxCounts DEF TimeoutNeedsACrowd
<1> QED BY <1>2, <1>3, <1>4, <1>6

\* Time passes only for those who wait behind a child that is at work.
LEMMA SandboxTickKeeps ==
    ASSUME SandboxInv, Tick
    PROVE  SandboxInv'
<1> USE DEF SandboxInv
<1>1. /\ ~Urgent
      /\ waited' = [c \in Call |-> IF client[c] = "waiting"
                                   THEN waited[c] + 1 ELSE waited[c]]
      /\ ran' = IF LoopFree \/ child = "torn" \/ ran = MaxRan
                THEN ran ELSE ran + 1
      /\ UNCHANGED <<client, code, request, status, child, met>>
    BY DEF Tick
<1>2. \A c \in Call : client[c] = "waiting" =>
          waited[c] # Outer /\ request[c] # "answered" /\ request[c] # "none"
    BY <1>1 DEF Urgent, SandboxOrder
<1>3. \A c \in Call : client[c] = "waiting" => ~LoopFree
    BY <1>1, <1>2 DEF Urgent, SandboxTypeOK, LoopFree
<1>4. ~LoopFree /\ child # "torn" => ran \in 0 .. Inner - 1
    <2> SUFFICES ASSUME ~LoopFree, child # "torn" PROVE ran \in 0 .. Inner - 1
        OBVIOUS
    <2>1. PICK c \in Call : request[c] = "running"
        BY DEF LoopFree
    <2>2. child # "none" /\ child # "exited"
        BY <1>1, <2>1 DEF SandboxOrder, Urgent
    <2>3. Alive /\ ~Due
        BY <1>1, <2>1, <2>2 DEF Urgent, Alive, SandboxTypeOK
    <2> QED BY <2>3, TimeoutsAssumption DEF Due, SandboxTypeOK
<1>5. ~LoopFree /\ child # "torn" => ran' = ran + 1
    BY <1>1, <1>4, TimeoutsAssumption DEF MaxRan
<1>6. SandboxTypeOK'
    <2>1. waited' \in [Call -> 0 .. Outer]
        <3>1. \A c \in Call : waited'[c] \in 0 .. Outer
            BY <1>1, <1>2, TimeoutsAssumption DEF SandboxTypeOK
        <3> QED BY <1>1, <3>1
    <2>2. ran' \in 0 .. Inner
        BY <1>1, <1>4, <1>5, TimeoutsAssumption DEF SandboxTypeOK
    <2> QED BY <1>1, <2>1, <2>2 DEF SandboxTypeOK
<1>7. SandboxOrder'
    <2>1. LoopFree' = LoopFree /\ AtSandbox' = AtSandbox
        BY <1>1 DEF LoopFree, AtSandbox
    <2>2. child' = "none" => ran' = 0
        BY <1>1 DEF SandboxOrder
    <2>3. \A c \in Call : client'[c] = "idle" => waited'[c] = 0
        BY <1>1 DEF SandboxOrder
    <2> QED BY <1>1, <2>1, <2>2, <2>3 DEF SandboxOrder
<1>8. WaitsAreShared'
    <2> SUFFICES ASSUME NEW c \in Call, client[c] = "waiting", child # "torn"
                 PROVE  waited'[c] <= Inner * Cardinality(Passed(c)') + ran'
        BY <1>1 DEF WaitsAreShared
    <2>1. waited'[c] = waited[c] + 1 /\ ran' = ran + 1
        BY <1>1, <1>3, <1>5
    <2>2. Passed(c)' = Passed(c)
        BY <1>1 DEF Passed
    <2>3. waited[c] <= Inner * Cardinality(Passed(c)) + ran
        BY DEF WaitsAreShared
    <2>4. Inner * Cardinality(Passed(c)) \in Nat /\ ran \in Nat /\ waited[c] \in Nat
        BY PassedCount, Timeouts, TimeoutsAssumption DEF SandboxTypeOK
    <2> QED BY <2>1, <2>2, <2>3, <2>4
<1>9. TimeoutNeedsACrowd'
    BY <1>1 DEF TimeoutNeedsACrowd
<1> QED BY <1>6, <1>7, <1>8, <1>9

LEMMA NextSandbox ==
    SandboxInv /\ [SandboxNext]_sandboxVars => SandboxInv'
<1> SUFFICES ASSUME SandboxInv, [SandboxNext]_sandboxVars
             PROVE  SandboxInv'
    OBVIOUS
<1>1. ASSUME NEW c \in Call, NEW p \in Programs, Post(c, p) PROVE SandboxInv'
    BY <1>1, PostKeeps
<1>2. ASSUME NEW c \in Call, Refuse(c) \/ Join(c) \/ Kill(c) \/ Crash(c)
      PROVE  SandboxInv'
    <2>1. \/ request[c] = "queued" /\ LoopFree
          \/ request[c] = "running" /\ child # "torn"
        BY <1>2 DEF Refuse, Join, Kill, Alive, Crash
    <2>2. \E s \in {"output", "silent", "killed", "refused", "error"} : Answer(c, s)
        BY <1>2 DEF Refuse, Join, Kill, Crash
    <2> QED BY <2>1, <2>2, SandboxAnswerKeeps
<1>3. ASSUME NEW c \in Call,
             \/ Start(c) \/ CodeEnds(c) \/ Tear(c)
             \/ GiveUp(c) \/ PostFails(c)
      PROVE  SandboxInv'
    BY <1>3, StartKeeps, ChildKeeps, GiveUpKeeps, PostFailsKeeps
<1>6. ASSUME NEW c \in Call, Deliver(c) \/ ExchangeFails(c) PROVE SandboxInv'
    <2>1. \E how \in {"result", "failed"} : ClientEnds(c, how)
        BY <1>6 DEF Deliver, ExchangeFails
    <2> QED BY <2>1, EndKeepsSandbox
<1>4. CASE Tick
    BY <1>4, SandboxTickKeeps
<1>5. CASE UNCHANGED sandboxVars
    BY <1>5 DEF sandboxVars, SandboxInv, SandboxOrder, WaitsAreShared, Passed,
                SandboxTypeOK, LoopFree, AtSandbox,
                TimeoutNeedsACrowd
<1> QED BY <1>1, <1>2, <1>3, <1>4, <1>5, <1>6 DEF SandboxNext, Serve

LEMMA SandboxInvariant ==
    SandboxSpec => []SandboxInv
BY InitSandbox, NextSandbox, PTL DEF SandboxSpec

\* sandbox_tool.py and runner.py: a call whose timeout is over has met so many
\* others at the sandbox that their timeouts add up to its own, whatever the codes
\* do and however many exchanges fail, unless a child dies in the middle of its
\* report.
THEOREM TimingOutNeedsACrowd ==
    SandboxSpec => []TimeoutNeedsACrowd
<1>1. SandboxInv => TimeoutNeedsACrowd
    BY DEF SandboxInv
<1> QED BY SandboxInvariant, <1>1, PTL

\* The sandbox's types: no child is joined beyond its timeout, and no call is
\* waited for beyond the tool's.
THEOREM SandboxTypes ==
    SandboxSpec => []SandboxTypeOK
<1>1. SandboxInv => SandboxTypeOK
    BY DEF SandboxInv
<1> QED BY SandboxInvariant, <1>1, PTL

-----------------------------------------------------------------------------
\* The calculator, another of the tools.

\* The equation of Power's recursive function, up to n.
PowerUpTo(b, n, f) == f = [i \in 0 .. n |-> IF i = 0 THEN 1 ELSE b * f[i - 1]]

\* Power is the value of a function that satisfies it.
LEMMA PowerExists ==
    ASSUME NEW b, NEW e \in Nat
    PROVE  \E f : PowerUpTo(b, e, f) /\ Power(b, e) = f[e]
<1> DEFINE T == { n \in Nat : \E f : PowerUpTo(b, n, f) }
<1>1. 0 \in T
    <2>1. PowerUpTo(b, 0, [i \in 0 .. 0 |-> 1])
        BY DEF PowerUpTo
    <2> QED BY <2>1
<1>2. ASSUME NEW n \in T PROVE n + 1 \in T
    <2>1. PICK f : PowerUpTo(b, n, f)
        OBVIOUS
    <2> DEFINE h == [i \in 0 .. n + 1 |-> IF i = n + 1 THEN b * f[n] ELSE f[i]]
    <2>2. ASSUME NEW i \in 0 .. n + 1
          PROVE  h[i] = IF i = 0 THEN 1 ELSE b * h[i - 1]
        <3>1. CASE i = n + 1
            <4>1. i # 0 /\ i - 1 = n /\ n \in 0 .. n + 1 /\ n # n + 1
                BY <3>1
            <4> QED BY <3>1, <4>1
        <3>2. CASE i \in 0 .. n
            <4>1. i # n + 1 /\ (i # 0 => i - 1 \in 0 .. n + 1 /\ i - 1 # n + 1)
                BY <3>2
            <4>2. f[i] = IF i = 0 THEN 1 ELSE b * f[i - 1]
                BY <2>1, <3>2 DEF PowerUpTo
            <4> QED BY <4>1, <4>2
        <3> QED BY <3>1, <3>2
    <2>3. h = [i \in 0 .. n + 1 |-> h[i]]
        OBVIOUS
    <2> HIDE DEF h
    <2>4. PowerUpTo(b, n + 1, h)
        BY <2>2, <2>3 DEF PowerUpTo
    <2> QED BY <2>4
<1>3. e \in T
    <2> HIDE DEF T
    <2> QED BY <1>1, <1>2, SetInduction DEF T
<1> QED BY <1>3 DEF Power, PowerUpTo

\* Two such functions agree.
LEMMA PowersAgree ==
    ASSUME NEW b, NEW n \in Nat, NEW f, NEW g,
           PowerUpTo(b, n, f), PowerUpTo(b, n + 1, g)
    PROVE  f[n] = g[n]
<1> DEFINE T == { k \in Nat : k <= n => f[k] = g[k] }
<1>1. 0 \in T
    BY DEF PowerUpTo
<1>2. ASSUME NEW k \in T PROVE k + 1 \in T
    <2> SUFFICES ASSUME k + 1 <= n PROVE f[k + 1] = g[k + 1]
        OBVIOUS
    <2>1. k + 1 \in 0 .. n /\ k + 1 \in 0 .. n + 1 /\ k + 1 # 0 /\ (k + 1) - 1 = k /\ k <= n
        OBVIOUS
    <2>2. f[k + 1] = b * f[k] /\ g[k + 1] = b * g[k]
        BY <2>1 DEF PowerUpTo
    <2> QED BY <2>1, <2>2
<1>3. n \in T
    <2> HIDE DEF T
    <2> QED BY <1>1, <1>2, SetInduction DEF T
<1> QED BY <1>3

\* What Power computes.
LEMMA PowerSteps ==
    ASSUME NEW b
    PROVE  Power(b, 0) = 1 /\ \A n \in Nat : Power(b, n + 1) = b * Power(b, n)
<1>1. Power(b, 0) = 1
    BY PowerExists DEF PowerUpTo
<1>2. ASSUME NEW n \in Nat PROVE Power(b, n + 1) = b * Power(b, n)
    <2>1. PICK f : PowerUpTo(b, n, f) /\ Power(b, n) = f[n]
        BY PowerExists
    <2>2. PICK g : PowerUpTo(b, n + 1, g) /\ Power(b, n + 1) = g[n + 1]
        BY PowerExists
    <2>3. f[n] = g[n]
        BY <2>1, <2>2, PowersAgree
    <2>4. n + 1 \in 0 .. n + 1 /\ n + 1 # 0 /\ (n + 1) - 1 = n
        OBVIOUS
    <2> QED BY <2>1, <2>2, <2>3, <2>4 DEF PowerUpTo
<1> QED BY <1>1, <1>2

\* Products of numbers that are bounded.
LEMMA Products ==
    ASSUME NEW a \in Nat, NEW b \in Nat, NEW c \in Nat, NEW d \in Nat,
           a <= c, b <= d
    PROVE  a * b \in Nat /\ c * d \in Nat /\ a * b <= c * d
<1>1. a * b <= a * d /\ a * d \in Nat /\ a * b \in Nat
    OBVIOUS
<1>2. a * d <= c * d /\ c * d \in Nat
    OBVIOUS
<1> QED BY <1>1, <1>2

LEMMA AbsoluteProducts ==
    ASSUME NEW a \in Int, NEW b \in Int
    PROVE  Abs(a) \in Nat /\ Abs(b) \in Nat /\ Abs(a * b) = Abs(a) * Abs(b)
<1>1. Abs(a) \in Nat /\ Abs(b) \in Nat /\ a * b \in Int
    BY DEF Abs
<1>2. CASE a = 0 \/ b = 0
    BY <1>2 DEF Abs
<1>3. CASE a > 0 /\ b > 0
    <2>1. a * b > 0
        BY <1>3
    <2> QED BY <1>3, <2>1 DEF Abs
<1>4. CASE a < 0 /\ b < 0
    <2>1. a * b > 0 /\ (- a) * (- b) = a * b
        BY <1>4
    <2> QED BY <1>4, <2>1 DEF Abs
<1>5. CASE a > 0 /\ b < 0
    <2>1. a * b < 0 /\ a * (- b) = - (a * b)
        BY <1>5
    <2> QED BY <1>5, <2>1 DEF Abs
<1>6. CASE a < 0 /\ b > 0
    <2>1. a * b < 0 /\ (- a) * b = - (a * b)
        BY <1>6
    <2> QED BY <1>6, <2>1 DEF Abs
<1> QED BY <1>2, <1>3, <1>4, <1>5, <1>6

\* Powers of a positive number are positive, and multiply.
LEMMA PowersAreNumbers ==
    ASSUME NEW b \in Nat, b >= 1
    PROVE  \A n \in Nat : Power(b, n) \in Nat /\ Power(b, n) >= 1
<1> DEFINE T == { n \in Nat : Power(b, n) \in Nat /\ Power(b, n) >= 1 }
<1>1. 0 \in T
    BY PowerSteps
<1>2. ASSUME NEW n \in T PROVE n + 1 \in T
    <2>1. Power(b, n + 1) = b * Power(b, n)
        BY PowerSteps
    <2>2. 1 * 1 <= b * Power(b, n) /\ b * Power(b, n) \in Nat
        BY Products
    <2> QED BY <2>1, <2>2
<1>3. T = Nat
    <2> HIDE DEF T
    <2> QED BY <1>1, <1>2, SetInduction DEF T
<1> QED BY <1>3

LEMMA PowersMultiply ==
    ASSUME NEW b \in Nat, b >= 1, NEW m \in Nat
    PROVE  \A n \in Nat : Power(b, m + n) = Power(b, m) * Power(b, n)
<1> DEFINE T == { n \in Nat : Power(b, m + n) = Power(b, m) * Power(b, n) }
<1>1. 0 \in T
    BY PowerSteps, PowersAreNumbers
<1>2. ASSUME NEW n \in T PROVE n + 1 \in T
    <2>0. n \in Nat /\ m + n \in Nat
        OBVIOUS
    <2>1. /\ Power(b, n + 1) = b * Power(b, n)
          /\ Power(b, (m + n) + 1) = b * Power(b, m + n)
        BY <2>0, PowerSteps
    <2>2. Power(b, m) \in Nat /\ Power(b, n) \in Nat
        BY PowersAreNumbers
    <2>3. b * (Power(b, m) * Power(b, n)) = Power(b, m) * (b * Power(b, n))
        BY <2>2
    <2>4. m + (n + 1) = (m + n) + 1
        OBVIOUS
    <2> QED BY <2>1, <2>3, <2>4
<1>3. T = Nat
    <2> HIDE DEF T
    <2> QED BY <1>1, <1>2, SetInduction DEF T
<1> QED BY <1>3

\* A capped power is at most the cap's.
LEMMA PowersAreCapped ==
    ASSUME NEW b \in Int, NEW c \in Nat, c >= 1, Abs(b) <= c
    PROVE  \A n, k \in Nat : /\ Power(b, n) \in Int
                             /\ Abs(Power(b, n)) <= Power(c, n + k)
<1> DEFINE T == { n \in Nat : Power(b, n) \in Int /\ Abs(Power(b, n)) <= Power(c, n) }
<1>1. 0 \in T
    BY PowerSteps DEF Abs
<1>2. ASSUME NEW n \in T PROVE n + 1 \in T
    <2>1. Power(b, n + 1) = b * Power(b, n) /\ Power(c, n + 1) = c * Power(c, n)
        BY PowerSteps
    <2>2. Power(c, n) \in Nat
        BY PowersAreNumbers
    <2>3. /\ Abs(b) \in Nat /\ Abs(Power(b, n)) \in Nat
          /\ Abs(b * Power(b, n)) = Abs(b) * Abs(Power(b, n))
        BY AbsoluteProducts
    <2>4. Abs(b) * Abs(Power(b, n)) <= c * Power(c, n)
        BY <2>2, <2>3, Products
    <2> QED BY <2>1, <2>3, <2>4
<1>3. T = Nat
    <2> HIDE DEF T
    <2> QED BY <1>1, <1>2, SetInduction DEF T
<1>4. ASSUME NEW n \in Nat, NEW k \in Nat PROVE Power(c, n) <= Power(c, n + k)
    <2>1. /\ Power(c, n) \in Nat /\ Power(c, k) \in Nat /\ Power(c, k) >= 1
          /\ Power(c, n + k) = Power(c, n) * Power(c, k)
        BY PowersAreNumbers, PowersMultiply
    <2>2. Power(c, n) * 1 <= Power(c, n) * Power(c, k)
        BY <2>1, Products
    <2> QED BY <2>1, <2>2
<1> QED
    <2> SUFFICES ASSUME NEW n \in Nat, NEW k \in Nat
                 PROVE  Power(b, n) \in Int /\ Abs(Power(b, n)) <= Power(c, n + k)
        OBVIOUS
    <2>1. Power(b, n) \in Int /\ Abs(Power(b, n)) <= Power(c, n)
        BY <1>3
    <2> HIDE DEF T
    <2>4. n + k \in Nat
        OBVIOUS
    <2>2. Power(c, n) \in Nat /\ Power(c, n + k) \in Nat
        BY <2>4, PowersAreNumbers
    <2>3. Abs(Power(b, n)) \in Nat
        BY <2>1 DEF Abs
    <2> QED BY <1>4, <2>1, <2>2, <2>3

\* The unit is at least two, a capped power and a literal.
LEMMA UnitIsLarge ==
    /\ Unit \in Nat /\ Unit >= 2
    /\ Power(MaxPowerBase, MaxExponent) <= Unit /\ MaxLiteral <= Unit
<1> DEFINE b == MaxPowerBase
           e == MaxExponent
<1>1. /\ b \in Nat /\ b >= 2 /\ b >= 1 /\ e \in Nat /\ e - 1 \in Nat
      /\ (e - 1) + 1 = e /\ MaxLiteral \in Nat
    BY CapsAssumption, LiteralsAssumption
<1> HIDE DEF b, e
<1>2. Power(b, e) = b * Power(b, e - 1)
    BY <1>1, PowerSteps
<1>3. Power(b, e - 1) \in Nat /\ Power(b, e - 1) >= 1 /\ Power(b, e) \in Nat
    BY <1>1, PowersAreNumbers
<1>4. 2 * 1 <= b * Power(b, e - 1)
    BY <1>1, <1>3, Products
<1>5. Power(b, e) >= 2
    BY <1>2, <1>3, <1>4
<1> QED BY <1>1, <1>3, <1>5 DEF Unit, b, e

\* An operator on integers of m and n digits makes one of m + n at most.
LEMMA OutcomesAreShort ==
    ASSUME NEW op \in Operations, NEW left \in Int, NEW right \in Int,
           NEW m \in Nat, NEW n \in Nat, m >= Unit, n >= Unit,
           Abs(left) <= m, Abs(right) <= n,
           NEW v \in Compute(op, left, right), v # Error
    PROVE  /\ v \in [kind : {"integer", "float"}, of : Int]
           /\ Abs(v.of) <= m * n
<1>1. /\ m >= 2 /\ n >= 2 /\ Unit \in Nat /\ Unit >= 2
    BY UnitIsLarge
<1>2. m * n \in Nat /\ m * 2 <= m * n /\ 2 * n <= m * n /\ m + n <= m * n
    <2>1. m * n \in Nat /\ m * 2 <= m * n /\ 2 * n <= m * n
        BY <1>1, Products
    <2> QED BY <2>1
<1>3. v = Float => v \in [kind : {"integer", "float"}, of : Int] /\ Abs(v.of) <= m * n
    BY <1>2 DEF Float, Abs
<1>4. ASSUME NEW k \in Int, v = Integer(k), Abs(k) <= m * n
      PROVE  v \in [kind : {"integer", "float"}, of : Int] /\ Abs(v.of) <= m * n
    BY <1>4 DEF Integer
<1>5. CASE op = "+"
    <2>1. left + right \in Int /\ Abs(left + right) <= m + n
        BY DEF Abs
    <2>2. Abs(left + right) <= m * n /\ v = Integer(left + right)
        BY <1>2, <1>5, <2>1 DEF Compute, Abs
    <2> QED BY <1>4, <2>1, <2>2
<1>6. CASE op = "-"
    <2>1. left - right \in Int /\ Abs(left - right) <= m + n
        BY DEF Abs
    <2>2. Abs(left - right) <= m * n /\ v = Integer(left - right)
        BY <1>2, <1>6, <2>1 DEF Compute, Abs
    <2> QED BY <1>4, <2>1, <2>2
<1>7. CASE op = "*"
    <2>1. left * right \in Int /\ Abs(left * right) = Abs(left) * Abs(right)
        BY AbsoluteProducts
    <2>2. Abs(left) * Abs(right) <= m * n
        BY AbsoluteProducts, Products
    <2>3. v = Integer(left * right)
        BY <1>7 DEF Compute
    <2> QED BY <1>4, <2>1, <2>2, <2>3
<1>8. CASE op = "/"
    <2>1. v = Float
        BY <1>8 DEF Compute
    <2> QED BY <1>3, <2>1
<1>9. CASE op = "%"
    <2>1. CASE right > 0
        <3>1. left % right \in 0 .. right - 1
            BY <2>1
        <3>2. v = Integer(left % right)
            BY <1>9, <2>1 DEF Compute
        <3>3. Abs(left % right) <= m * n
            BY <1>2, <2>1, <3>1 DEF Abs
        <3> QED BY <1>4, <3>1, <3>2, <3>3
    <2>2. CASE right < 0
        <3>1. (- left) % (- right) \in 0 .. (- right) - 1
            BY <2>2
        <3>2. v = Integer(- ((- left) % (- right)))
            BY <1>9, <2>2 DEF Compute
        <3>3. Abs(- ((- left) % (- right))) <= m * n
            BY <1>2, <2>2, <3>1 DEF Abs
        <3> QED BY <1>4, <3>1, <3>2, <3>3
    <2>3. right # 0
        BY <1>9 DEF Compute
    <2> QED BY <2>1, <2>2, <2>3
<1>10. CASE op = "**"
    <2>1. CASE right < 0
        <3>1. v = Float
            BY <1>10, <2>1 DEF Compute
        <3> QED BY <1>3, <3>1
    <2>2. CASE right >= 0
        <3>1. /\ v = Integer(Power(left, right))
              /\ Abs(left) <= MaxPowerBase /\ Abs(right) <= MaxExponent
            BY <1>10, <2>2, CapsAssumption DEF Compute, PowerTooLarge, Abs
        <3>2. right \in Nat /\ MaxExponent - right \in Nat
              /\ right + (MaxExponent - right) = MaxExponent
            BY <2>2, <3>1, CapsAssumption DEF Abs
        <3>3. /\ Power(left, right) \in Int
              /\ Abs(Power(left, right)) <= Power(MaxPowerBase, MaxExponent)
            BY <3>1, <3>2, PowersAreCapped, CapsAssumption
        <3>4. Abs(Power(left, right)) \in Nat
            BY <3>3 DEF Abs
        <3>5. Power(MaxPowerBase, MaxExponent) \in Nat
            BY PowersAreNumbers, CapsAssumption
        <3>6. Abs(Power(left, right)) <= m * n
            BY <1>1, <1>2, <3>3, <3>4, <3>5, UnitIsLarge
        <3> QED BY <1>4, <3>1, <3>3, <3>6
    <2> QED BY <2>1, <2>2
<1> QED BY <1>5, <1>6, <1>7, <1>8, <1>9, <1>10 DEF Operations

-----------------------------------------------------------------------------
Values == [kind : {"integer", "float"}, of : Int]
Parts == [value : Values, from : Nat]

\* What makes the bound inductive: every part has a literal, so that it is at
\* least a unit long, and the parts follow each other, so that the literals of
\* two operands are those of what an operator makes of them.
CalculatorInv ==
    /\ parts \in Seq(Parts) /\ read \in Nat
    /\ \A i \in 1 .. Len(parts) : LiteralsOf(i) \in Nat /\ LiteralsOf(i) >= 1
    /\ NumbersStayShort

LEMMA UnitPowers ==
    /\ Power(Unit, 1) = Unit
    /\ \A n \in Nat : n >= 1 => Power(Unit, n) \in Nat /\ Power(Unit, n) >= Unit
    /\ \A m, n \in Nat : Power(Unit, m + n) = Power(Unit, m) * Power(Unit, n)
<1>1. Unit \in Nat /\ Unit >= 2
    BY UnitIsLarge
<1>0. \A n \in Nat : Power(Unit, n) \in Nat /\ Power(Unit, n) >= 1
    BY <1>1, PowersAreNumbers
<1>2. Power(Unit, 1) = Unit
    <2>1. Power(Unit, 0) = 1 /\ Power(Unit, 0 + 1) = Unit * Power(Unit, 0)
        BY PowerSteps
    <2> QED BY <1>1, <2>1
<1>3. \A m, n \in Nat : Power(Unit, m + n) = Power(Unit, m) * Power(Unit, n)
    BY <1>1, PowersMultiply
<1>4. ASSUME NEW n \in Nat, n >= 1
      PROVE  Power(Unit, n) \in Nat /\ Power(Unit, n) >= Unit
    <2>1. n - 1 \in Nat /\ (n - 1) + 1 = n
        BY <1>4
    <2>2. Power(Unit, n) = Unit * Power(Unit, n - 1)
        BY <2>1, PowerSteps
    <2>3. Power(Unit, n) \in Nat /\ Power(Unit, n - 1) \in Nat /\ Power(Unit, n - 1) >= 1
        BY <1>0, <2>1
    <2>4. Unit * 1 <= Unit * Power(Unit, n - 1)
        BY <1>1, <2>3, Products
    <2> QED BY <1>1, <2>2, <2>3, <2>4
<1> QED BY <1>2, <1>3, <1>4

\* The next literal is a part of its own.
LEMMA ReadKeeps ==
    ASSUME CalculatorInv, NEW value \in Values, Abs(value.of) <= Unit, Read(value)
    PROVE  CalculatorInv'
<1>0. PICK n \in Nat : n = Len(parts)
    BY DEF CalculatorInv
<1>1. /\ parts \in Seq(Parts) /\ read \in Nat /\ n = Len(parts)
      /\ parts' = Append(parts, [value |-> value, from |-> read])
      /\ read' = read + 1
      /\ \A i \in 1 .. n : LiteralsOf(i) \in Nat /\ LiteralsOf(i) >= 1
      /\ \A i \in 1 .. n : Abs(parts[i].value.of) <= Power(Unit, LiteralsOf(i))
    BY <1>0 DEF CalculatorInv, NumbersStayShort, Read
<1>2. /\ parts' \in Seq(Parts) /\ Len(parts') = n + 1 /\ read' \in Nat
      /\ \A i \in 1 .. n : parts'[i] = parts[i]
      /\ parts'[n + 1] = [value |-> value, from |-> read]
    BY <1>1 DEF Parts
<1>3. ASSUME NEW i \in 1 .. n
      PROVE  LiteralsOf(i)' = LiteralsOf(i) /\ parts'[i] = parts[i]
    <2>1. CASE i = n
        BY <1>1, <1>2, <2>1 DEF LiteralsOf
    <2>2. CASE i # n
        <3>1. i + 1 \in 1 .. n /\ i # n + 1
            BY <2>2
        <3> QED BY <1>1, <1>2, <2>2, <3>1 DEF LiteralsOf
    <2> QED BY <2>1, <2>2
<1>4. LiteralsOf(n + 1)' = 1 /\ parts'[n + 1].value = value
    <2>1. parts'[n + 1].from = read /\ parts'[n + 1].value = value
        BY <1>2
    <2>2. LiteralsOf(n + 1)' = read' - parts'[n + 1].from
        BY <1>2 DEF LiteralsOf
    <2> QED BY <1>1, <2>1, <2>2
<1>5. Unit' = Unit
    BY DEF Unit
<1>6. ASSUME NEW i \in 1 .. n + 1
      PROVE  /\ LiteralsOf(i)' \in Nat /\ LiteralsOf(i)' >= 1
             /\ Abs(parts'[i].value.of) <= Power(Unit, LiteralsOf(i)')
    <2>1. CASE i \in 1 .. n
        BY <1>1, <1>3, <2>1
    <2>2. CASE i = n + 1
        <3>1. LiteralsOf(i)' = 1 /\ parts'[i].value.of = value.of
            BY <1>4, <2>2
        <3>2. Power(Unit, LiteralsOf(i)') = Unit
            BY <3>1, UnitPowers
        <3> QED BY <3>1, <3>2
    <2> QED BY <1>1, <2>1, <2>2
<1> QED BY <1>2, <1>5, <1>6 DEF CalculatorInv, NumbersStayShort

\* A minus changes no size.
LEMMA MinusOfPart ==
    ASSUME NEW p \in Parts
    PROVE  LET q == [p EXCEPT !.value.of = - @]
           IN  /\ q \in Parts /\ q.from = p.from
               /\ Abs(q.value.of) = Abs(p.value.of)
<1> DEFINE v == [p.value EXCEPT !.of = - @]
           q == [p EXCEPT !.value.of = - @]
<1>1. p.value \in Values /\ p.value.of \in Int /\ p.from \in Nat
    BY DEF Parts, Values
<1>2. v \in Values /\ v.of = - p.value.of
    BY <1>1 DEF Values
<1>3. q = [p EXCEPT !.value = v]
    OBVIOUS
<1>4. Abs(v.of) = Abs(p.value.of)
    BY <1>1, <1>2 DEF Abs
<1> HIDE DEF v
<1>5. q \in Parts /\ q.from = p.from /\ q.value = v
    BY <1>2, <1>3 DEF Parts
<1> QED BY <1>4, <1>5

LEMMA NegateKeeps ==
    ASSUME CalculatorInv, Negate
    PROVE  CalculatorInv'
<1>0. PICK n \in Nat : n = Len(parts)
    BY DEF CalculatorInv
<1>1. /\ parts \in Seq(Parts) /\ read \in Nat /\ n = Len(parts) /\ n \in 1 .. n
      /\ parts' = [parts EXCEPT ![n].value.of = - @]
      /\ read' = read
      /\ \A i \in 1 .. n : LiteralsOf(i) \in Nat /\ LiteralsOf(i) >= 1
      /\ \A i \in 1 .. n : Abs(parts[i].value.of) <= Power(Unit, LiteralsOf(i))
    BY <1>0 DEF CalculatorInv, NumbersStayShort, Negate
<1>2. /\ parts' \in Seq(Parts) /\ Len(parts') = n
      /\ \A i \in 1 .. n : /\ parts'[i].from = parts[i].from
                           /\ Abs(parts'[i].value.of) = Abs(parts[i].value.of)
    <2> DEFINE q == [parts[n] EXCEPT !.value.of = - @]
    <2>1. parts[n] \in Parts
        BY <1>1
    <2>2. q \in Parts /\ q.from = parts[n].from /\ Abs(q.value.of) = Abs(parts[n].value.of)
        BY <2>1, MinusOfPart
    <2>3. parts' = [parts EXCEPT ![n] = q]
        BY <1>1
    <2> HIDE DEF q
    <2>4. parts' \in Seq(Parts) /\ Len(parts') = n
        BY <1>1, <2>2, <2>3
    <2>5. \A i \in 1 .. n : parts'[i] = IF i = n THEN q ELSE parts[i]
        BY <1>1, <2>3
    <2> QED BY <2>2, <2>4, <2>5
<1>3. \A i \in 1 .. n : LiteralsOf(i)' = LiteralsOf(i)
    BY <1>1, <1>2 DEF LiteralsOf
<1>4. Unit' = Unit
    BY DEF Unit
<1> QED BY <1>1, <1>2, <1>3, <1>4 DEF CalculatorInv, NumbersStayShort

\* A walk that has ended holds no part.
LEMMA EndKeeps ==
    ASSUME CalculatorInv, NEW outcome, EndAs(outcome)
    PROVE  CalculatorInv'
BY DEF CalculatorInv, NumbersStayShort, EndAs

\* An operator joins the literals of its operands.
LEMMA OperateKeeps ==
    ASSUME CalculatorInv, NEW op \in Operations, Operate(op)
    PROVE  CalculatorInv'
<1>0. PICK n \in Nat : n = Len(parts)
    BY DEF CalculatorInv
<1>1. /\ parts \in Seq(Parts) /\ read \in Nat /\ n = Len(parts) /\ n >= 2
      /\ \A i \in 1 .. n : LiteralsOf(i) \in Nat /\ LiteralsOf(i) >= 1
      /\ \A i \in 1 .. n : Abs(parts[i].value.of) <= Power(Unit, LiteralsOf(i))
    BY <1>0 DEF CalculatorInv, NumbersStayShort, Operate
<1>2. PICK v \in Outcomes(op, Before.value, Last.value) :
          IF v = Error THEN EndAs("error")
          ELSE /\ parts' = Append(SubSeq(parts, 1, n - 2),
                                  [value |-> v, from |-> Before.from])
               /\ read' = read
    BY <1>0 DEF Operate
<1>3. CASE v = Error
    BY <1>2, <1>3, EndKeeps
<1>4. CASE v # Error
    <2> DEFINE s == SubSeq(parts, 1, n - 2)
               x == LiteralsOf(n - 1)
               y == LiteralsOf(n)
               p == Power(Unit, x)
               q == Power(Unit, y)
    <2>1. /\ n \in 1 .. n /\ n - 1 \in 1 .. n /\ n - 1 # n /\ (n - 1) + 1 = n
          /\ n - 2 \in 0 .. n - 1 /\ n - 2 \in Nat /\ (n - 2) + 1 = n - 1
        BY <1>1
    <2> HIDE DEF s, x, y, p, q
    <2>2. /\ Last \in Parts /\ Before \in Parts
          /\ Last = parts[n] /\ Before = parts[n - 1]
        <3>1. parts[n] \in Parts /\ parts[n - 1] \in Parts
            BY <1>1, <2>1
        <3> QED BY <1>1, <3>1 DEF Last, Before
    <2>3. /\ x \in Nat /\ y \in Nat /\ x >= 1 /\ y >= 1
          /\ x + y = read - Before.from
          /\ Abs(Before.value.of) <= p /\ Abs(Last.value.of) <= q
        <3>1. x = Last.from - Before.from /\ y = read - Last.from
            BY <1>1, <2>1, <2>2 DEF LiteralsOf, x, y
        <3>2. Last.from \in Nat /\ Before.from \in Nat
            BY <2>2 DEF Parts
        <3>3. /\ x \in Nat /\ y \in Nat /\ x >= 1 /\ y >= 1
              /\ Abs(Before.value.of) <= p /\ Abs(Last.value.of) <= q
            BY <1>1, <2>1, <2>2 DEF x, y, p, q
        <3> QED BY <1>1, <3>1, <3>2, <3>3
    <2>4. /\ p \in Nat /\ q \in Nat /\ p >= Unit /\ q >= Unit
          /\ Power(Unit, x + y) = p * q
        BY <2>3, UnitPowers DEF p, q
    <2>5. v \in Values /\ Abs(v.of) <= p * q
        <3>1. Before.value.of \in Int /\ Last.value.of \in Int
            BY <2>2 DEF Parts, Values
        <3>2. CASE {Before.value.kind, Last.value.kind} = {"integer"}
            <4>1. v \in Compute(op, Before.value.of, Last.value.of)
                BY <3>2 DEF Outcomes
            <4> QED BY <1>4, <2>3, <2>4, <3>1, <4>1, OutcomesAreShort DEF Values
        <3>3. CASE {Before.value.kind, Last.value.kind} # {"integer"}
            <4>1. v = Float
                BY <1>4, <3>3 DEF Outcomes
            <4>2. p * q \in Nat
                BY <2>4, Products
            <4> QED BY <4>1, <4>2 DEF Float, Values, Abs
        <3> QED BY <3>2, <3>3
    <2>6. s \in Seq(Parts) /\ Len(s) = n - 2 /\ \A i \in 1 .. n - 2 : s[i] = parts[i]
        <3>1. 1 \in Int /\ n - 2 \in Int /\ \A i \in 1 .. n - 2 : parts[i] \in Parts
            BY <1>1
        <3>2. /\ s \in Seq(Parts)
              /\ Len(s) = IF 1 <= n - 2 THEN (n - 2) - 1 + 1 ELSE 0
              /\ \A i \in 1 .. (n - 2) - 1 + 1 : s[i] = parts[1 + i - 1]
            BY <3>1, SubSeqProperties DEF s
        <3>3. /\ (n - 2) - 1 + 1 = n - 2
              /\ \A i \in 1 .. n - 2 : 1 + i - 1 = i
            BY <1>1
        <3> QED BY <2>1, <3>2, <3>3
    <2>7. /\ parts' = Append(s, [value |-> v, from |-> Before.from]) /\ read' = read
          /\ [value |-> v, from |-> Before.from] \in Parts
        BY <1>2, <1>4, <2>2, <2>5 DEF Parts, s
    <2>8. /\ parts' \in Seq(Parts) /\ Len(parts') = n - 1
          /\ \A i \in 1 .. n - 2 : parts'[i] = parts[i]
          /\ parts'[n - 1] = [value |-> v, from |-> Before.from]
        <3>1. (n - 2) + 1 = n - 1
            BY <1>1
        <3> QED BY <2>6, <2>7, <3>1, AppendProperties
    <2>9. ASSUME NEW i \in 1 .. n - 2
          PROVE  LiteralsOf(i)' = LiteralsOf(i)
        <3>1. i # n - 1 /\ i # n /\ i + 1 \in 1 .. n - 1
            BY <1>1
        <3>2. parts'[i + 1].from = parts[i + 1].from
            <4>1. CASE i + 1 = n - 1
                BY <2>2, <2>8, <4>1
            <4>2. CASE i + 1 # n - 1
                <5>1. i + 1 \in 1 .. n - 2
                    BY <1>1, <4>2
                <5> QED BY <2>8, <5>1
            <4> QED BY <4>1, <4>2
        <3> QED BY <1>1, <2>8, <3>1, <3>2 DEF LiteralsOf
    <2>10. LiteralsOf(n - 1)' = x + y
        BY <2>3, <2>7, <2>8 DEF LiteralsOf
    <2>11. Unit' = Unit
        BY DEF Unit
    <2>12. ASSUME NEW i \in 1 .. n - 1
           PROVE  /\ LiteralsOf(i)' \in Nat /\ LiteralsOf(i)' >= 1
                  /\ Abs(parts'[i].value.of) <= Power(Unit, LiteralsOf(i)')
        <3>1. CASE i \in 1 .. n - 2
            <4>1. i \in 1 .. n
                BY <1>1
            <4> QED BY <1>1, <2>8, <2>9, <3>1, <4>1
        <3>2. CASE i = n - 1
            BY <2>3, <2>4, <2>5, <2>8, <2>10, <3>2
        <3> QED BY <1>1, <3>1, <3>2
    <2>13. DOMAIN parts' = 1 .. n - 1
        BY <2>8
    <2> QED BY <1>1, <2>7, <2>8, <2>11, <2>12, <2>13 DEF CalculatorInv, NumbersStayShort
<1> QED BY <1>3, <1>4

\* tool.py, "bounded directly": with any caps and literals, and an expression of
\* any length, the two caps on one power bound every number of the walk.
THEOREM CalculatorsNumbersStayShort == CalculatorSpec => []NumbersStayShort
<1>1. CalculatorInit => CalculatorInv
    BY DEF CalculatorInit, CalculatorInv, NumbersStayShort
<1>2. CalculatorInv /\ [CalculatorNext]_calculatorVars => CalculatorInv'
    <2> SUFFICES ASSUME CalculatorInv, [CalculatorNext]_calculatorVars
                 PROVE  CalculatorInv'
        OBVIOUS
    <2>1. ASSUME NEW k \in Literals, Read(Integer(k)) PROVE CalculatorInv'
        <3>1. k \in Nat /\ k <= Unit
            BY LiteralsAssumption, UnitIsLarge
        <3>2. Integer(k) \in Values /\ Abs(Integer(k).of) <= Unit
            BY <3>1 DEF Integer, Values, Abs
        <3> QED BY <2>1, <3>2, ReadKeeps
    <2>2. CASE Read(Float)
        <3>1. Float \in Values /\ Abs(Float.of) <= Unit
            BY UnitIsLarge DEF Float, Values, Abs
        <3> QED BY <2>2, <3>1, ReadKeeps
    <2>3. CASE Negate
        BY <2>3, NegateKeeps
    <2>4. CASE Raise \/ Answered
        BY <2>4, EndKeeps DEF Raise, Answered
    <2>5. ASSUME NEW op \in Operations, Operate(op) PROVE CalculatorInv'
        BY <2>5, OperateKeeps
    <2>6. CASE UNCHANGED calculatorVars
        BY <2>6 DEF calculatorVars, CalculatorInv, NumbersStayShort, LiteralsOf, Unit
    <2> QED BY <2>1, <2>2, <2>3, <2>4, <2>5, <2>6 DEF CalculatorNext
<1>3. CalculatorInv => NumbersStayShort
    BY DEF CalculatorInv
<1> QED BY <1>1, <1>2, <1>3, PTL DEF CalculatorSpec

\* A run with its calculator is a run, and a walk or none: what holds of either
\* holds of both together.
THEOREM RunsCalculate == AgentSpec => Spec /\ CalculatorSpec
<1>1. AgentInit => Init /\ CalculatorInit
    BY DEF AgentInit
<1>2. [AgentNext]_agentVars => [Next]_vars /\ [CalculatorNext]_calculatorVars
    BY DEF AgentNext, agentVars
<1> QED BY <1>1, <1>2, PTL DEF AgentSpec, Spec, CalculatorSpec

\* tool.py and graph.py: a run of the agent, its calculator included, ends only by
\* its primaries, looks for evidence unless the planner chose not to, hands over
\* all it found, and computes no number that outgrows its expression.
THEOREM RunsAreSafe ==
    AgentSpec => /\ []OnlyPrimariesEndTheRun /\ []NoEvidenceOnlyByChoice
                 /\ []EvidenceIsWhole /\ []NumbersStayShort
BY RunsCalculate, PrimariesAlone, EvidenceByDefault, EvidenceReachesTheResponder,
   CalculatorsNumbersStayShort, PTL
=============================================================================
