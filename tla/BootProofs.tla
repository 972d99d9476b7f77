----------------------------- MODULE BootProofs -----------------------------
(***************************************************************************)
(* Theorems about Boot, for any number of replicas and of calls that       *)
(* raise.                                                                  *)
(***************************************************************************)
EXTENDS Boot, FiniteSetTheorems, TLAPS

\* What the statements before the i-th leave open, and in the stores.
OpenedBefore(i)  == { Start[j].what : j \in { k \in 1 .. i - 1 : Start[k].do = "open" } }
EnsuredBefore(i) == { Start[j].what : j \in { k \in 1 .. i - 1 : Start[k].do = "ensure" } }

\* The start is a list of statements that ends in the only one that builds.
LEMMA StartIsAList ==
    /\ Len(Start) = 13
    /\ \A i \in 1 .. 13 : /\ Start[i].do \in {"open", "ensure", "build"}
                          /\ Start[i].do = "build" <=> i = 13
                          /\ Start[i].do = "open" => Start[i].what \in Pools
                          /\ Start[i].do = "ensure" => Start[i].what \in Targets
BY DEF Start, Open, Ensure, Build, Pools, Stop, Targets

\* It opens every pool and ensures every target.
LEMMA StartIsWhole ==
    /\ OpenedBefore(13) = Pools
    /\ EnsuredBefore(13) = Targets
BY DEF Start, Open, Ensure, Build, Pools, Stop, Targets, OpenedBefore, EnsuredBefore

\* One statement more.
LEMMA OneMore ==
    ASSUME NEW i \in 1 .. 12
    PROVE  /\ OpenedBefore(i + 1) = OpenedBefore(i) \cup
                  (IF Start[i].do = "open" THEN {Start[i].what} ELSE {})
           /\ EnsuredBefore(i + 1) = EnsuredBefore(i) \cup
                  (IF Start[i].do = "ensure" THEN {Start[i].what} ELSE {})
BY DEF OpenedBefore, EnsuredBefore

Types ==
    /\ at     \in [Replica -> 1 .. 13]
    /\ phase  \in [Replica -> {"starting", "failed", "serving", "closing", "stopped"}]
    /\ pools  \in [Replica -> SUBSET Pools]
    /\ absent \in [Replica -> BOOLEAN]
    /\ stores \subseteq Targets
    /\ lost   \in [Replica -> Nat]

\* The inductive form of ServingMeansReady: what lies before a statement of the
\* start is open or there, and stays.
Prepared ==
    /\ \A r \in Replica : phase[r] = "starting" =>
          OpenedBefore(at[r]) \subseteq pools[r] /\ EnsuredBefore(at[r]) \subseteq stores
    /\ \A r \in Replica : phase[r] = "closing" => at[r] \in 1 .. 7
    /\ \A r \in Replica : absent[r] =>
          phase[r] = "starting" /\ Statement(r).do = "ensure"
    /\ ServingMeansReady

IInv == Types /\ Prepared

LEMMA InitIInv == Init => IInv
<1>1. OpenedBefore(1) = {} /\ EnsuredBefore(1) = {}
    BY DEF OpenedBefore, EnsuredBefore
<1> QED BY <1>1 DEF Init, IInv, Types, Prepared, ServingMeansReady

\* A statement of the start other than the last is done.
LEMMA ProceedKeeps ==
    ASSUME IInv, NEW r \in Replica, phase[r] = "starting",
           Statement(r).do \in {"open", "ensure"}, Proceeds(r),
           pools' \in [Replica -> SUBSET Pools],
           \A p \in Replica : pools[p] \subseteq pools'[p],
           Statement(r).do = "open" => Statement(r).what \in pools'[r],
           stores \subseteq stores', stores' \subseteq Targets,
           Statement(r).do = "ensure" => Statement(r).what \in stores',
           absent' = [absent EXCEPT ![r] = FALSE],
           phase' = phase, lost' = lost
    PROVE  IInv'
<1>1. at[r] \in 1 .. 12
    BY StartIsAList DEF IInv, Types, Statement
<1>2. at' = [at EXCEPT ![r] = @ + 1] /\ at'[r] = at[r] + 1
    BY DEF Proceeds, IInv, Types
<1>3. Types'
    BY <1>1, <1>2 DEF IInv, Types
<1>4. OpenedBefore(at[r] + 1) \subseteq pools'[r] /\ EnsuredBefore(at[r] + 1) \subseteq stores'
    BY <1>1, OneMore DEF IInv, Prepared, Statement
<1>5. ASSUME NEW p \in Replica, phase[p] = "starting"
      PROVE  OpenedBefore(at'[p]) \subseteq pools'[p] /\ EnsuredBefore(at'[p]) \subseteq stores'
    <2>1. CASE p = r
        BY <2>1, <1>2, <1>4
    <2>2. CASE p # r
        <3>1. at'[p] = at[p]
            BY <2>2, <1>2 DEF IInv, Types
        <3> QED BY <3>1, <1>5 DEF IInv, Prepared
    <2> QED BY <2>1, <2>2
<1>6. \A p \in Replica : phase[p] = "closing" => at'[p] \in 1 .. 7
    BY <1>2 DEF IInv, Types, Prepared
<1>7. \A p \in Replica : absent'[p] =>
          phase[p] = "starting" /\ Start[at'[p]].do = "ensure"
    BY <1>2 DEF IInv, Types, Prepared, Statement
<1>8. ServingMeansReady'
    BY DEF IInv, Types, Prepared, ServingMeansReady
<1> QED
    BY <1>3, <1>5, <1>6, <1>7, <1>8 DEF IInv, Prepared, Statement

\* A replica goes on to another phase, or to another statement of the shutdown.
LEMMA LeaveKeeps ==
    ASSUME IInv, NEW r \in Replica, ~absent'[r],
           NEW to \in {"failed", "closing", "stopped", "starting"},
           NEW i \in 1 .. 13, NEW held \in SUBSET Pools,
           phase' = [phase EXCEPT ![r] = to], at' = [at EXCEPT ![r] = i],
           pools' = [pools EXCEPT ![r] = held],
           to = "closing" => i \in 1 .. 7,
           to = "starting" => i = 1,
           absent' = [absent EXCEPT ![r] = FALSE],
           stores \subseteq stores', stores' \subseteq Targets,
           lost' \in [Replica -> Nat]
    PROVE  IInv'
<1>0. OpenedBefore(1) = {} /\ EnsuredBefore(1) = {}
    BY DEF OpenedBefore, EnsuredBefore
<1>1. Types'
    BY DEF IInv, Types
<1>2. /\ phase'[r] = to /\ at'[r] = i /\ ~absent'[r]
      /\ \A p \in Replica \ {r} : /\ phase'[p] = phase[p] /\ at'[p] = at[p]
                                  /\ pools'[p] = pools[p] /\ absent'[p] = absent[p]
    BY DEF IInv, Types
<1>3. ASSUME NEW p \in Replica, phase'[p] = "starting"
      PROVE  OpenedBefore(at'[p]) \subseteq pools'[p] /\ EnsuredBefore(at'[p]) \subseteq stores'
    <2>1. CASE p = r
        BY <2>1, <1>0, <1>2, <1>3
    <2>2. CASE p # r
        BY <2>2, <1>2, <1>3 DEF IInv, Prepared
    <2> QED BY <2>1, <2>2
<1>4. \A p \in Replica : phase'[p] = "closing" => at'[p] \in 1 .. 7
    BY <1>2 DEF IInv, Prepared
<1>5. \A p \in Replica : absent'[p] =>
          phase'[p] = "starting" /\ Start[at'[p]].do = "ensure"
    BY <1>2 DEF IInv, Prepared, Statement
<1>6. \A p \in Replica : phase'[p] = "serving" => pools'[p] = Pools /\ stores' = Targets
    BY <1>2 DEF IInv, Prepared, ServingMeansReady
<1> QED
    BY <1>1, <1>3, <1>4, <1>5, <1>6 DEF IInv, Prepared, Statement, ServingMeansReady

\* Every step of a replica keeps what the others have prepared.
LEMMA NextIInv == IInv /\ [Next]_vars => IInv'
<1> SUFFICES ASSUME IInv, [Next]_vars PROVE IInv'
    OBVIOUS
<1> USE DEF IInv, Types
<1>1. ASSUME NEW r \in Replica, OpenPool(r) PROVE IInv'
    <2>1. /\ Statement(r).what \in Pools /\ ~absent[r]
        BY <1>1, StartIsAList DEF OpenPool, Statement, Prepared
    <2>2. pools' \in [Replica -> SUBSET Pools]
        BY <1>1, <2>1 DEF OpenPool
    <2>3. /\ \A p \in Replica : pools[p] \subseteq pools'[p]
          /\ Statement(r).what \in pools'[r]
        BY <1>1 DEF OpenPool
    <2>4. absent' = [absent EXCEPT ![r] = FALSE] /\ phase' = phase /\ lost' = lost
          /\ stores' = stores /\ Proceeds(r)
        BY <1>1, <2>1 DEF OpenPool
    <2> QED BY <1>1, <2>2, <2>3, <2>4, ProceedKeeps DEF OpenPool
<1>2. ASSUME NEW r \in Replica, Check(r) PROVE IInv'
    <2>1. CASE Statement(r).what \in stores
        BY <1>2, <2>1, ProceedKeeps DEF Check
    <2>2. CASE Statement(r).what \notin stores
        <3>1. /\ absent' = [absent EXCEPT ![r] = TRUE] /\ phase[r] = "starting"
              /\ Statement(r).do = "ensure"
              /\ UNCHANGED <<at, phase, pools, stores, lost>>
            BY <1>2, <2>2 DEF Check
        <3> QED BY <3>1 DEF Prepared, ServingMeansReady, Statement
    <2> QED BY <2>1, <2>2
<1>3. ASSUME NEW r \in Replica, Create(r) PROVE IInv'
    <2>1. Statement(r).do = "ensure" /\ Statement(r).what \in Targets
        BY <1>3, StartIsAList DEF Create, Statement, Prepared
    <2> QED BY <1>3, <2>1, ProceedKeeps DEF Create
<1>4. ASSUME NEW r \in Replica, Raise(r), stores \subseteq stores', stores' \subseteq Targets,
             lost' \in [Replica -> Nat]
      PROVE  IInv'
    <2>1. /\ at[r] \in 1 .. 13 /\ at' = [at EXCEPT ![r] = at[r]]
          /\ Kept(r) \in SUBSET Pools /\ ~absent'[r]
        BY <1>4 DEF Raise, Kept
    <2> QED BY <1>4, <2>1, LeaveKeeps DEF Raise
<1>5. ASSUME NEW r \in Replica, CreateRaises(r) PROVE IInv'
    <2>1. lost' \in [Replica -> Nat]
        BY <1>5 DEF CreateRaises
    <2> QED BY <1>4, <1>5, <2>1 DEF CreateRaises
<1>6. ASSUME NEW r \in Replica, Fault(r) PROVE IInv'
    <2>1. absent[r] => Statement(r).what \in Targets
        BY StartIsAList DEF Statement, Prepared
    <2> QED BY <1>4, <1>6, <2>1 DEF Fault
<1>7. ASSUME NEW r \in Replica, Serve(r) PROVE IInv'
    <2>1. at[r] = 13
        BY <1>7, StartIsAList DEF Serve, Statement
    <2>2. pools[r] = Pools /\ stores = Targets
        BY <1>7, <2>1, StartIsWhole DEF Serve, Prepared
    <2>3. ~absent[r]
        BY <1>7 DEF Serve, Prepared
    <2> QED BY <1>7, <2>2, <2>3 DEF Serve, Prepared, ServingMeansReady, Statement
<1>8. ASSUME NEW r \in Replica, Restart(r) PROVE IInv'
    <2>1. /\ absent' = [absent EXCEPT ![r] = FALSE] /\ ~absent'[r]
          /\ {} \in SUBSET Pools /\ 1 \in 1 .. 13
        BY <1>8 DEF Restart, Prepared
    <2> QED BY <1>8, <2>1, LeaveKeeps DEF Restart
<1>9. ASSUME NEW r \in Replica, Shutdown(r) \/ Close(r) \/ CloseRaises(r) PROVE IInv'
    <2>1. Len(Stop) = 7
        BY DEF Stop
    <2>2. absent' = [absent EXCEPT ![r] = FALSE] /\ ~absent'[r]
        BY <1>9 DEF Shutdown, Close, CloseRaises, Prepared
    <2>3. PICK to \in {"closing", "stopped"}, i \in 1 .. 13, held \in SUBSET Pools :
              /\ phase' = [phase EXCEPT ![r] = to] /\ at' = [at EXCEPT ![r] = i]
              /\ pools' = [pools EXCEPT ![r] = held]
              /\ to = "closing" => i \in 1 .. 7
        <3>1. CASE Shutdown(r)
            BY <3>1 DEF Shutdown
        <3>2. CASE Close(r)
            <4>1. /\ at[r] \in 1 .. 7 /\ pools[r] \ {Stop[at[r]]} \in SUBSET Pools
                  /\ phase = [phase EXCEPT ![r] = "closing"]
                  /\ at = [at EXCEPT ![r] = at[r]]
                BY <3>2 DEF Close, Prepared
            <4>2. pools' = [pools EXCEPT ![r] = pools[r] \ {Stop[at[r]]}]
                BY <3>2 DEF Close
            <4>3. CASE at[r] = 7
                <5>1. phase' = [phase EXCEPT ![r] = "stopped"] /\ at' = [at EXCEPT ![r] = 7]
                    BY <3>2, <4>1, <4>3, <2>1 DEF Close
                <5>2. "stopped" # "closing" /\ 7 \in 1 .. 13
                    OBVIOUS
                <5> QED BY <4>1, <4>2, <5>1, <5>2
            <4>4. CASE at[r] # 7
                <5>1. /\ phase' = [phase EXCEPT ![r] = "closing"]
                      /\ at' = [at EXCEPT ![r] = at[r] + 1] /\ at[r] + 1 \in 1 .. 7
                    BY <3>2, <4>1, <4>4, <2>1 DEF Close, Proceeds
                <5>2. at[r] + 1 \in 1 .. 13
                    BY <5>1
                <5> QED BY <4>1, <4>2, <5>1, <5>2
            <4> QED BY <4>3, <4>4
        <3>3. CASE CloseRaises(r)
            <4>1. /\ at = [at EXCEPT ![r] = at[r]] /\ pools = [pools EXCEPT ![r] = pools[r]]
                  /\ at[r] \in 1 .. 13 /\ pools[r] \in SUBSET Pools
                OBVIOUS
            <4> QED BY <3>3, <4>1 DEF CloseRaises
        <3> QED BY <1>9, <3>1, <3>2, <3>3
    <2>4. stores' = stores /\ lost' = lost
        BY <1>9 DEF Shutdown, Close, CloseRaises
    <2> QED BY <2>2, <2>3, <2>4, LeaveKeeps
<1>10. CASE UNCHANGED vars
    BY <1>10 DEF vars, Prepared, ServingMeansReady, Statement
<1> QED
    BY <1>1, <1>2, <1>3, <1>5, <1>6, <1>7, <1>8, <1>9, <1>10 DEF Next, Step

LEMMA IInvCorrect == Spec => []IInv
BY InitIInv, NextIInv, PTL DEF Spec

\* main.py: however many replicas race, raise and start again, one that serves has
\* every pool open and finds every target in the stores.
THEOREM ServingIsReady == Spec => []ServingMeansReady
<1>1. IInv => ServingMeansReady
    BY DEF IInv, Prepared
<1> QED BY IInvCorrect, <1>1, PTL

\* Starts lost so far have each brought a target of their own to the stores: a start
\* is lost at one that was absent when it looked, and is there for good.
Counted ==
    \A r \in Replica :
        /\ lost[r] <= Cardinality(stores)
        /\ absent[r] /\ Statement(r).what \in stores => lost[r] + 1 <= Cardinality(stores)

\* The targets and their subsets are finite.
LEMMA TargetsFinite ==
    ASSUME NEW S \in SUBSET Targets
    PROVE  /\ IsFiniteSet(S) /\ Cardinality(S) \in Nat
           /\ Cardinality(S) <= Cardinality(Targets) /\ Cardinality(Targets) \in Nat
<1>1. IsFiniteSet({"chunks", "tables", "cache"})
    <2>1. IsFiniteSet({"chunks"})
        BY FS_Singleton
    <2>2. IsFiniteSet({"chunks"} \cup {"tables"})
        BY <2>1, FS_AddElement
    <2>3. IsFiniteSet(({"chunks"} \cup {"tables"}) \cup {"cache"})
        BY <2>2, FS_AddElement
    <2>4. {"chunks", "tables", "cache"} = ({"chunks"} \cup {"tables"}) \cup {"cache"}
        OBVIOUS
    <2> QED BY <2>3, <2>4
<1>2. IsFiniteSet(Targets)
    BY <1>1 DEF Targets
<1> QED BY <1>2, FS_Subset, FS_CardinalityType

\* What a step adds to the stores counts once.
LEMMA StoresCounted ==
    ASSUME IInv, NEW t \in Targets, stores' = stores \cup {t}
    PROVE  Cardinality(stores') = Cardinality(stores) + (IF t \in stores THEN 0 ELSE 1)
<1>1. IsFiniteSet(stores) /\ Cardinality(stores) \in Nat
    BY TargetsFinite DEF IInv, Types
<1> QED BY <1>1, FS_AddElement

LEMMA NextCounted == IInv /\ Counted /\ [Next]_vars => Counted'
<1> SUFFICES ASSUME IInv, Counted, [Next]_vars PROVE Counted'
    OBVIOUS
<1>0. /\ Cardinality(stores) \in Nat
      /\ \A r \in Replica : absent[r] => Statement(r).what \in Targets
    BY TargetsFinite, StartIsAList DEF IInv, Types, Prepared, Statement
<1> USE DEF IInv, Types, Prepared, Counted, Statement
\* One replica leaves what it was creating, and the others are as they were.
<1>1. ASSUME NEW r \in Replica, ~absent'[r], lost' = lost, NEW t \in Targets,
             stores' = stores \/ stores' = stores \cup {t},
             \A p \in Replica \ {r} : absent'[p] = absent[p] /\ at'[p] = at[p]
      PROVE  Counted'
    <2>1. CASE stores' = stores
        BY <1>1, <2>1
    <2>2. CASE stores' = stores \cup {t}
        <3>1. Cardinality(stores') = Cardinality(stores) + (IF t \in stores THEN 0 ELSE 1)
            BY <2>2, StoresCounted
        <3> QED BY <1>0, <1>1, <2>2, <3>1
    <2> QED BY <1>1, <2>1, <2>2
<1>2. "cache" \in Targets
    BY DEF Targets
<1>3. ASSUME NEW r \in Replica, Check(r), Statement(r).what \notin stores PROVE Counted'
    BY <1>3, <1>0 DEF Check
<1>4. ASSUME NEW r \in Replica,
             \/ OpenPool(r) \/ (Check(r) /\ Statement(r).what \in stores)
             \/ Serve(r) \/ Restart(r) \/ Shutdown(r) \/ Close(r) \/ CloseRaises(r)
      PROVE  Counted'
    <2>1. /\ ~absent'[r] /\ lost' = lost /\ stores' = stores
          /\ \A p \in Replica \ {r} : absent'[p] = absent[p] /\ at'[p] = at[p]
        BY <1>4, StartIsAList DEF OpenPool, Check, Serve, Restart, Shutdown, Close,
                                  CloseRaises, Proceeds
    <2> QED BY <1>1, <1>2, <2>1
<1>5. ASSUME NEW r \in Replica, Create(r) \/ Fault(r) PROVE Counted'
    <2>1. /\ ~absent'[r] /\ lost' = lost
          /\ \A p \in Replica \ {r} : absent'[p] = absent[p] /\ at'[p] = at[p]
        BY <1>5 DEF Create, Fault, Raise, Proceeds
    <2>2. stores' = stores
            \/ (Statement(r).what \in Targets /\ stores' = stores \cup {Statement(r).what})
        BY <1>0, <1>5 DEF Create, Fault
    <2> QED BY <1>1, <1>2, <2>1, <2>2
<1>6. ASSUME NEW r \in Replica, CreateRaises(r) PROVE Counted'
    <2>1. /\ ~absent'[r] /\ stores' = stores /\ lost'[r] <= Cardinality(stores)
          /\ \A p \in Replica \ {r} :
                absent'[p] = absent[p] /\ at'[p] = at[p] /\ lost'[p] = lost[p]
        BY <1>0, <1>6 DEF CreateRaises, Raise
    <2> QED BY <2>1
<1>7. CASE UNCHANGED vars
    BY <1>7 DEF vars
<1> QED
    BY <1>3, <1>4, <1>5, <1>6, <1>7 DEF Next, Step

\* semantic_cache.py, "Safe at every boot": racing replicas settle, since however many
\* there are, each loses at most one start to each target.
THEOREM StartsLostAreFew == Spec => []FewStartsAreLost
<1>1. Init => Counted
    BY FS_EmptySet DEF Init, Counted
<1>2. IInv /\ Counted => FewStartsAreLost
    <2> SUFFICES ASSUME IInv, Counted, NEW r \in Replica
                 PROVE  lost[r] <= Cardinality(Targets)
        BY DEF FewStartsAreLost
    <2>1. /\ Cardinality(stores) <= Cardinality(Targets)
          /\ Cardinality(stores) \in Nat /\ Cardinality(Targets) \in Nat
        BY TargetsFinite DEF IInv, Types
    <2> QED BY <2>1 DEF IInv, Types, Counted
<1> QED BY <1>1, <1>2, NextCounted, IInvCorrect, PTL DEF Spec
=============================================================================
