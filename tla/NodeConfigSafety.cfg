SPECIFICATION Spec
CONSTANTS
    s1 = s1
    s2 = s2
    p1 = p1
    p2 = p2
    q1 = q1
    PFs = {p1}
    OtherPFs = {"none"}
    Drivers = {"stub", "vfio"}
    StubDrivers = {"stub"}
    NoDriver = NoDriver
    NamedPFs = {p1}
    N3000Queues = {q1}
    Nil = Nil
    MaxVFs = 2
    Specs = {"queues1", "queues2"}
    NoSpec = NoSpec
    SkipSpecs = {"queues2"}
    Requested <- MCRequested
    OSes = {"fedora"}
    NoObj = NoObj
    NoInv = NoInv
    Slots = {s1, s2}
    MaxWrites = 2
    MaxFaults = 2
    Faults = {"inventory", "work", "drain", "lease", "crash", "drift", "lag", "delete"}
INVARIANTS
    TypeOK
    SucceededIsTrue
    QuietMeansHandled
PROPERTIES
    ObservedNeverFalls
    ImplementsNodeObject
CHECK_DEADLOCK FALSE
SYMMETRY SlotSymmetry
