SPECIFICATION FairSpec
CONSTANTS
    s1 = s1
    s2 = s2
    c1 = c1
    c2 = c2
    m1 = m1
    m2 = m2
    i1 = i1
    i2 = i2
    f1 = f1
    Cards = {c1, c2}
    NoCard = NoCard
    Nics = {m1, m2}
    NoNic = NoNic
    CardOf <- MCCardOf
    Images = {i1, i2}
    Garbled = Garbled
    NoURL = NoURL
    Firmwares = {f1}
    NoFortville = NoFortville
    Requests <- MCAnswered
    NoObj = NoObj
    Updates = 2
    Slots = {s1}
    MaxWrites = 2
    MaxFaults = 1
    Faults = {"delete"}
PROPERTY
    Converges
CHECK_DEADLOCK FALSE
