SPECIFICATION Spec
CONSTANTS
    s1 = s1
    s2 = s2
    c1 = c1
    c2 = c2
    m1 = m1
    m2 = m2
    i1 = i1
    i2 = i2
    f1 = f1
    Cards = {c1, c2}
    NoCard = NoCard
    Nics = {m1, m2}
    NoNic = NoNic
    CardOf <- MCCardOf
    Images = {i1, i2}
    Garbled = Garbled
    NoURL = NoURL
    Firmwares = {f1}
    NoFortville = NoFortville
    Requests <- MCMixed
    NoObj = NoObj
    Updates = 2
    Slots = {s1, s2}
    MaxWrites = 2
    MaxFaults = 2
    Faults = {"status", "check", "work", "xml", "cycle", "gone", "drain", "lease", "crash", "delete"}
INVARIANTS
    TypeOK
    HonestSuccess
    FilesAreIntact
    QuietMeansHandled
PROPERTY
    ImplementsNodeObject
CHECK_DEADLOCK FALSE
SYMMETRY SlotSymmetry
