SPECIFICATION FairSpec
CONSTANTS
    Missing = Missing
    Tables <- MCTables
    Rows = 2
    Values = {"default", "new"}
    DefaultValue = "default"
    Forms <- MCForms
    NoForm = NoForm
    WIFI_MAXIMUM_RETRY = 1
    MaxSaves = 1
    MaxWrites = 0
    MaxCuts = 0
PROPERTIES
    Reconnectable
CHECK_DEADLOCK FALSE
