-------------------------------- MODULE Boot --------------------------------
(***************************************************************************)
(* The lifespan of the API's replicas (services/api/app/main.py): each     *)
(* opens its pools and ensures what the shared stores must hold, one       *)
(* awaited call after the other, serves, and closes its pools.  Several    *)
(* replicas start at the same time, and the orchestrator restarts one      *)
(* whose start failed.                                                     *)
(***************************************************************************)
EXTENDS Integers, Sequences, FiniteSets

CONSTANTS Replica,   \* the replicas
          MaxFaults  \* bound: the calls that raise, of each replica

ASSUME MaxFaultsAssumption == MaxFaults \in Nat

VARIABLES at,      \* at[r]: the statement of lifespan() r is at
          phase,   \* phase[r]: which half of it, or how it ended
          pools,   \* pools[r]: the pools r has open
          absent,  \* absent[r]: did the check find the target absent?
          stores,  \* the targets that exist in the shared stores
          faults,  \* faults[r]: the calls of r that raised, races apart
          lost     \* lost[r]: the starts of r that failed by a race, counted
                   \* until there are more of them than targets

vars == <<at, phase, pools, absent, stores, faults, lost>>

\* The statements of the start, in order.  The pools connect when they are
\* first used, so opening one does not fail; each of the three stores in
\* Postgres (users, messages, feedback) creates the tables of all.
Open(p)   == [do |-> "open", what |-> p]
Ensure(t) == [do |-> "ensure", what |-> t]
Build     == [do |-> "build", what |-> "agent"]
Start == <<Open("embed"), Open("llm"), Open("qdrant"), Ensure("chunks"),
           Open("redis"), Open("postgres"), Ensure("tables"), Ensure("tables"),
           Ensure("tables"), Open("neo4j"), Ensure("cache"), Open("sandbox"), Build>>

\* The pools in the order they are closed.
Stop == <<"embed", "llm", "qdrant", "postgres", "neo4j", "redis", "sandbox">>

Pools   == { Stop[i] : i \in DOMAIN Stop }
Targets == {"chunks", "tables", "cache"}

Init ==
    /\ at     = [r \in Replica |-> 1]
    /\ phase  = [r \in Replica |-> "starting"]
    /\ pools  = [r \in Replica |-> {}]
    /\ absent = [r \in Replica |-> FALSE]
    /\ stores = {}
    /\ faults = [r \in Replica |-> 0]
    /\ lost   = [r \in Replica |-> 0]

Statement(r) == Start[at[r]]
Proceeds(r) == at' = [at EXCEPT ![r] = @ + 1]

OpenPool(r) ==
    /\ phase[r] = "starting" /\ Statement(r).do = "open"
    /\ pools' = [pools EXCEPT ![r] = @ \cup {Statement(r).what}]
    /\ Proceeds(r)
    /\ UNCHANGED <<phase, absent, stores, faults, lost>>

\* Slip: the target is created without a look whether it is there.
CheckNothing(r) ==
    /\ phase[r] = "starting" /\ Statement(r).do = "ensure" /\ ~absent[r]
    /\ absent' = [absent EXCEPT ![r] = TRUE]
    /\ UNCHANGED <<at, phase, pools, stores, faults, lost>>

\* collection_exists, or the look create_all takes at the tables.
Check(r) ==
    /\ phase[r] = "starting" /\ Statement(r).do = "ensure" /\ ~absent[r]
    /\ IF Statement(r).what \in stores
       THEN Proceeds(r) /\ UNCHANGED absent
       ELSE absent' = [absent EXCEPT ![r] = TRUE] /\ UNCHANGED at
    /\ UNCHANGED <<phase, pools, stores, faults, lost>>

\* create_collection, or CREATE TABLE, of what is still absent.
Create(r) ==
    /\ phase[r] = "starting" /\ absent[r]
    /\ Statement(r).what \notin stores
    /\ stores' = stores \cup {Statement(r).what}
    /\ absent' = [absent EXCEPT ![r] = FALSE]
    /\ Proceeds(r)
    /\ UNCHANGED <<phase, pools, faults, lost>>

\* The start raises, at statement at[r]: only a failure after the sandbox's
\* pool is open closes a pool, that one.
Kept(r) == pools[r] \ {"sandbox"}

Raise(r) ==
    /\ phase'  = [phase EXCEPT ![r] = "failed"]
    /\ pools'  = [pools EXCEPT ![r] = Kept(r)]
    /\ absent' = [absent EXCEPT ![r] = FALSE]
    /\ UNCHANGED at

\* Another replica created it between the check and the creation.
CreateRaises(r) ==
    /\ phase[r] = "starting" /\ absent[r]
    /\ Statement(r).what \in stores
    /\ Raise(r)
    /\ lost' = [lost EXCEPT ![r] = IF @ <= Cardinality(Targets) THEN @ + 1 ELSE @]
    /\ UNCHANGED <<stores, faults>>

\* Slip: an ensure that raises is logged and swallowed, as a failure of the
\* semantic cache is where it is used.
FaultSwallowed(r) ==
    /\ phase[r] = "starting" /\ Statement(r).do = "ensure"
    /\ faults[r] < MaxFaults
    /\ absent' = [absent EXCEPT ![r] = FALSE]
    /\ Proceeds(r)
    /\ faults' = [faults EXCEPT ![r] = @ + 1]
    /\ UNCHANGED <<phase, pools, stores, lost>>

\* A store raises, before or after it did what it was asked, or the agent
\* cannot be built.
Fault(r) ==
    /\ phase[r] = "starting" /\ Statement(r).do # "open"
    /\ faults[r] < MaxFaults
    /\ Raise(r)
    /\ \/ UNCHANGED stores
       \/ absent[r] /\ stores' = stores \cup {Statement(r).what}
    /\ faults' = [faults EXCEPT ![r] = @ + 1]
    /\ UNCHANGED lost

\* The process exits, and the orchestrator starts a new one.
Restart(r) ==
    /\ phase[r] = "failed"
    /\ phase' = [phase EXCEPT ![r] = "starting"]
    /\ at'    = [at EXCEPT ![r] = 1]
    /\ pools' = [pools EXCEPT ![r] = {}]
    /\ UNCHANGED <<absent, stores, faults, lost>>

\* build_agent_graph, and the yield: the replica serves.
Serve(r) ==
    /\ phase[r] = "starting" /\ Statement(r).do = "build"
    /\ phase' = [phase EXCEPT ![r] = "serving"]
    /\ UNCHANGED <<at, pools, absent, stores, faults, lost>>

\* The server shuts down: the pools are closed one after the other.
Shutdown(r) ==
    /\ phase[r] = "serving"
    /\ phase' = [phase EXCEPT ![r] = "closing"]
    /\ at'    = [at EXCEPT ![r] = 1]
    /\ UNCHANGED <<pools, absent, stores, faults, lost>>

Close(r) ==
    /\ phase[r] = "closing"
    /\ pools' = [pools EXCEPT ![r] = @ \ {Stop[at[r]]}]
    /\ IF at[r] = Len(Stop)
       THEN phase' = [phase EXCEPT ![r] = "stopped"] /\ UNCHANGED at
       ELSE Proceeds(r) /\ UNCHANGED phase
    /\ UNCHANGED <<absent, stores, faults, lost>>

\* A close raises: the rest of the shutdown is not run.
CloseRaises(r) ==
    /\ phase[r] = "closing"
    /\ faults[r] < MaxFaults
    /\ phase'  = [phase EXCEPT ![r] = "stopped"]
    /\ faults' = [faults EXCEPT ![r] = @ + 1]
    /\ UNCHANGED <<at, pools, absent, stores, lost>>

Step(r) ==
    \/ OpenPool(r) \/ Check(r) \/ Create(r) \/ CreateRaises(r)
    \/ Serve(r) \/ Restart(r) \/ Close(r)

Next == \E r \in Replica : Step(r) \/ Fault(r) \/ Shutdown(r) \/ CloseRaises(r)

Spec == Init /\ [][Next]_vars

\* A statement that can run does, and a replica that failed is restarted.
FairSpec == Spec /\ \A r \in Replica : WF_vars(Step(r))
-----------------------------------------------------------------------------
\* A replica serves only with every pool open and every target in its store,
\* however often it and the others failed on the way.
ServingMeansReady ==
    \A r \in Replica : phase[r] = "serving" =>
        pools[r] = Pools /\ stores = Targets

\* Racing replicas settle: one loses at most one start to each target, since
\* what it lost the race for is there when it starts again.
FewStartsAreLost == \A r \in Replica : lost[r] <= Cardinality(Targets)

\* Every replica serves in the end.
EveryReplicaServes == \A r \in Replica : <>(phase[r] = "serving")
=============================================================================
