SPECIFICATION FairSpec
CONSTANTS
    Conns = {c1, c2}
    Listener = Listener
    Bus = Bus
    Nobody = Nobody
    Refused = Refused
    Undefined = Undefined
    LastFd = 5
    Fds <- MCFds
    QLen = 2
    MaxIn = 2
CHECK_DEADLOCK FALSE
INVARIANTS TypeOK EventsReachOwner TablesAgree OneLeftOut
PROPERTIES EverySwitchAccepted EverySwitchServed BusRead
