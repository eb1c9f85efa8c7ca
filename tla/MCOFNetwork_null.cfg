SPECIFICATION Spec
CONSTANTS
    Conns = {1, 2}
    SwitchOf <- OneEach
    Ports = {p}
    NewPorts = {}
    FeatureKinds = {"good"}
    Errors <- MCErrors
    BufferIdInSchema = {TRUE}
    MaxMsgs = 1
    MaxSignals = 1
    MaxStarts = 1
    MaxAppStarts = 1
CHECK_DEADLOCK FALSE
INVARIANTS ManySwitches
