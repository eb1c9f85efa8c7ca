SPECIFICATION Spec
CONSTANTS
    Files <- MCFiles
    TypeOf <- MCTypeOf
    Modulus <- MCModulus
    Octets = {2}
    Masks = {32}
    Chars = {"2", "a", "b", "d", "h", "?", " "}
    Blank = " "
    Texts <- MCTexts
    Undef = Undef
    Unsure = Unsure
    NoWrite = NoWrite
    Replies <- MCReplies
    Packets <- MCPackets
    Digits <- MCDigits
    Beyond = "?"
    HdrLen = 2
    NoReply = NoReply
    NoLoad = NoLoad
    Configs <- MCConfigs
    MaxMsgs = 4
    MaxStarts = 2
    MaxWrites = 1
CHECK_DEADLOCK FALSE
INVARIANTS TypeOK FilesSayPacket AppSeesPacket
PROPERTIES PacketsApart
