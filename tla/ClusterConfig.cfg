SPECIFICATION FairSpec
CONSTANTS
    n1 = n1
    n2 = n2
    n3 = n3
    s1 = s1
    s2 = s2
    NoSpec = NoSpec
    NoObj = NoObj
    Nodes <- MCNodes
    Carded <- MCCarded
    Specs = {s1, s2}
    Requests <- MCRequests
    Kinds = {"sriov-fec", "N3000"}
    MaxWrites = 2
    MaxTouches = 1
    MaxFaults = 2
    Faults = {"api", "crash", "lag", "label"}
INVARIANTS
    TypeOK
    RequestedAreSynced
    OldAreRemoved
PROPERTIES
    AttemptsEndHonestly
    Converges
CHECK_DEADLOCK FALSE
