SPECIFICATION Spec
CONSTANTS
    Conns = {1, 2}
    SwitchOf <- SameSwitch
    Ports = {p}
    NewPorts = {q}
    FeatureKinds = {"good", "bad_ports"}
    Errors <- MCErrors
    BufferIdInSchema = {TRUE, FALSE}
    MaxMsgs = 1
    MaxSignals = 1
    MaxStarts = 2
    MaxAppStarts = 2
CHECK_DEADLOCK FALSE
INVARIANTS ModsAreWhole NoOrphanDirs AnsweredOnce
PROPERTIES NoModsAfterClose
