SPECIFICATION FairSpec
CONSTANTS
    n3000 = n3000
    sriov = sriov
    labeler = labeler
    driver = driver
    daemon = daemon
    Absent = Absent
    NoKernel = NoKernel
    Operators = {n3000, sriov}
    Nodes = {"n1", "n2"}
    DaemonSets = {labeler, driver, daemon}
    Labeler = labeler
    Driver = driver
    Program <- MCProgram
    Kernels = {"k1", "k2"}
    FirstKernel = "k1"
    Cards = {"n1"}
    Retries = 2
    MaxFaults = 1
    FaultyNodes = {"n1", "n2"}
    Faults = {"stop", "labeler", "uninstall", "node", "card", "kernel"}
INVARIANTS
    TypeOK
    RunningIsDeployed
    LabelsAreRight
PROPERTIES
    ForeignIsKept
    OperatorsStart
    LabelsConverge
CHECK_DEADLOCK FALSE
