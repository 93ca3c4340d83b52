SPECIFICATION FairSpec
CONSTANTS
    d1 = d1
    d2 = d2
    n1 = n1
    n2 = n2
    None = None
    Daemons <- MCDaemons
    Nodes <- MCNodes
    NodeOf <- MCNodeOf
    Slots = {1}
    MaxAttempts = 2
    DrainModes = {TRUE}
    ShortLease = {}
    Faults = {"api", "crash"}
INVARIANTS
    WorkOnCordonedNode
    OkMeansSchedulable
PROPERTIES
    RunReturns
    ImplementsFairMutex
