\* Three DATs in two versions, five ingests, one of which may fail.
SPECIFICATION Spec
CONSTANTS
    Source = {1, 2, 3}
    Dats <- MCDats
    Title = {"A1", "A2", "AU", "B", "C"}
    Norm <- MCNorm
    Base <- MCBase
    Length <- MCLength
    NormLength <- MCNormLength
    Serial = {"s1", "s2"}
    Sha1 = {1, 2, 3}
    Crc = {12, 13}
    Key = {21, 22, 23, 24, 25, 26}
    None = None
    MaxIngests = 5
    MaxFaults = 1
INVARIANTS TypeOK NamesAreListed
PROPERTIES OnlyDroppedAreLost
CHECK_DEADLOCK FALSE
