SPECIFICATION FairSpec
CONSTANTS
    Conns = {c1}
    Msgs <- MCMsgs
    Length <- MCLength
    HdrSize = 2
    LenAt = 2
    BufLen = 4
    MaxWrites = 4
INVARIANTS TypeOK NoOverrun AlwaysReads
PROPERTIES ImplementsFifo EveryMessageTaken EveryLossNoticed
CHECK_DEADLOCK FALSE
