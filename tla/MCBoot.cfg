SPECIFICATION FairSpec
CONSTANTS
    Missing = Missing
    Tables <- MCTables
    Rows = 2
    Values = {"default", "new"}
    DefaultValue = "default"
    Forms <- MCForms
    NoForm = NoForm
    WIFI_MAXIMUM_RETRY = 1
    MaxSaves = 2
    MaxWrites = 2
    MaxCuts = 2
INVARIANTS
    TablesWhole
PROPERTIES
    RowsKept
    KeepsSettings
    BootEnds
CHECK_DEADLOCK FALSE
