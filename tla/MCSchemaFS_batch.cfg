SPECIFICATION Spec
CONSTANTS
    Cells = 11
    Ents <- MCEnts
    Names <- MCNames
    Wild <- MCWild
    Matches <- MCMatches
    Schemas <- WalkSchemas
    RootSchema = 1
    SKids <- WalkSKids
    SName <- WalkSName
    SType <- WalkSType
    Targets = {t}
    Lines <- MCLines
    Cmd <- MCCmd
    Bufs <- Batches
    Paths <- BatchPaths
    Moves <- BatchMoves
    Handles = {h}
    MaxLines = 2
    Replace = FALSE
    CloseFirst = FALSE
    malloc <- FirstFit
    NULL = NULL
    Freed = Freed
    FreedDir = FreedDir
INVARIANTS
    TreeInv
    AssertionsHold
CHECK_DEADLOCK FALSE
