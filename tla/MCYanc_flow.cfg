SPECIFICATION FairYanc
CONSTANTS
    Files <- FlowFiles
    TypeOf <- MCTypeOf
    Modulus <- MCModulus
    Octets = {2}
    Masks = {24, 32}
    Chars = {"output", "x", "y", " "}
    Blank = " "
    Texts <- MCTexts
    Undef = Undef
    Unsure = Unsure
    NoWrite = NoWrite
    BusMsgs <- MCBusMsgs
    MaxSent = 2
    Space = " "
    BufLen = 24
    Unset = Undef
    NoJob = NoJob
    NoMsg = NoMsg
    MaxWrites = 3
    BufCells = 16
    Wild = Wild
    SchemaTexts <- OddSchemas
    SchemaFile <- SwitchSchema
    StartLines <- MCStartLines
    NoTool = NoTool
CHECK_DEADLOCK FALSE
INVARIANTS TypeOK WrittenReadsBack FlowModSaysFiles SignalsInOrder SchemaReadsBack
PROPERTIES SignalsHandled BusImplementsFifo
