SPECIFICATION FairSpec
CONSTANTS
    Replica = {r1, r2}
    MaxFaults = 2
INVARIANTS
    ServingMeansReady
    FewStartsAreLost
PROPERTIES
    EveryReplicaServes
CHECK_DEADLOCK FALSE
