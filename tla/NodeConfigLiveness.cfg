SPECIFICATION FairSpec
CONSTANTS
    s1 = s1
    s2 = s2
    p1 = p1
    p2 = p2
    q1 = q1
    PFs = {p1, p2}
    OtherPFs = {"none"}
    Drivers = {"stub", "vfio"}
    StubDrivers = {"stub"}
    NoDriver = NoDriver
    NamedPFs = {p1}
    N3000Queues = {q1}
    Nil = Nil
    MaxVFs = 2
    Specs = {"queues1", "queues2", "twice", "both",
             "groups", "unknown", "amount", "unnamed"}
    NoSpec = NoSpec
    SkipSpecs = {}
    Requested <- MCRequested
    OSes = {"rhcos", "other"}
    NoObj = NoObj
    NoInv = NoInv
    Slots = {s1}
    MaxWrites = 2
    MaxFaults = 1
    Faults = {"inventory", "work", "drain", "lease", "crash", "drift", "lag", "delete"}
PROPERTIES
    ConvergesUndisturbed
    InProgressEnds
CHECK_DEADLOCK FALSE
