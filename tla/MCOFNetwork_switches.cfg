SPECIFICATION FairSpec
CONSTANTS
    Conns = {1, 2}
    SwitchOf <- OneEach
    Ports = {p}
    NewPorts = {}
    FeatureKinds = {"good", "bad_version"}
    Errors <- MCErrors
    BufferIdInSchema = {TRUE, FALSE}
    MaxMsgs = 1
    MaxSignals = 1
    MaxStarts = 1
    MaxAppStarts = 1
CHECK_DEADLOCK FALSE
INVARIANTS TypeOK SwitchesHaveDirs ModsReachTheirSwitch NothingUncaught
PROPERTIES PacketsAnswered
