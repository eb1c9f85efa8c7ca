SPECIFICATION Spec
CONSTANTS
    Cells = 9
    Ents <- MCEnts
    Names <- MCNames
    Wild <- MCWild
    Matches <- MCMatches
    Schemas <- MCSchemas
    RootSchema = 1
    SKids <- MCSKids
    SName <- MCSName
    SType <- MCSType
    Targets = {t}
    Lines <- MCLines
    Cmd <- MCCmd
    Bufs <- NoBatch
    Paths <- OpenPaths
    Moves <- OpenMoves
    Handles = {h}
    MaxLines = 1
    Replace = FALSE
    CloseFirst = TRUE
    malloc <- FirstFit
    NULL = NULL
    Freed = Freed
    FreedDir = FreedDir
INVARIANTS
    TypeOK
    LinkVisibleIffTarget
    NoFault
PROPERTIES
    ImplementsTree
CHECK_DEADLOCK FALSE
