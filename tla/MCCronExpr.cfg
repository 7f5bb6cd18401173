SPECIFICATION ExprSpec
CONSTANTS
    Sec = 3
    Min60 = 2
    Hours = 2
    Week = 2
    Months = 3
    MaxDayOfMonth = 4
    Days <- MCDays
    MaxDays = 11
    YearsDiff = 3
    Text <- MCText
    From <- MCFrom
INVARIANTS
    FindsNext
CHECK_DEADLOCK FALSE
