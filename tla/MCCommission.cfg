SPECIFICATION FairSpec
CONSTANTS
    Draw <- MCDraw
    Lines <- MCLines
    Files <- MCFiles
    Row <- MCRow
    MaxNoise <- MCMaxNoise
    MaxUnheard <- MCMaxUnheard
    None = None
INVARIANTS
    FindsPredecessor
    WithdrawnDistinct
    RowsOfLamps
PROPERTIES
    AllAddressed
CHECK_DEADLOCK FALSE
