SPECIFICATION Spec
CONSTANTS
    Cells = 11
    Ents <- MCEnts
    Names <- MCNames
    Wild <- MCWild
    Matches <- MCMatches
    Schemas <- MCSchemas
    RootSchema = 1
    SKids <- MCSKids
    SName <- MCSName
    SType <- MCSType
    Targets = {t}
    Lines <- MCLines
    Cmd <- MCCmd
    Bufs <- NoBatch
    Paths <- TreePaths
    Moves <- TreeMoves
    Handles = {}
    MaxLines = 1
    Replace = TRUE
    CloseFirst = TRUE
    malloc <- FirstFit
    NULL = NULL
    Freed = Freed
    FreedDir = FreedDir
PROPERTIES
    RenameSeesTarget
CHECK_DEADLOCK FALSE
