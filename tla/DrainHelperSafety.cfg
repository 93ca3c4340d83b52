SPECIFICATION Spec
CONSTANTS
    d1 = d1
    d2 = d2
    n1 = n1
    n2 = n2
    None = None
    Daemons <- MCDaemons
    Nodes <- MCNodes
    NodeOf <- MCNodeOf
    Slots = {1}
    MaxAttempts = 3
    DrainModes = {TRUE, FALSE}
    ShortLease = {}
    Faults = {"api"}
INVARIANTS
    TypeOK
    LeaderWhileBusy
    OneNodeAtATime
    OkMeansWorked
    RebootKeepsLease
PROPERTY
    ImplementsMutex
