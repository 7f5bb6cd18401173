SPECIFICATION FairSpec
CONSTANTS
    r1 = r1
    r2 = r2
    Responders <- MCResponders
    AddressFirst <- MCAddressFirst
    Addresses <- MCAddresses
    MaxResults = 2
    Resend = 10
    Timeout = 30
    QueueLength = 2
    MaxQueries = 2
    MaxLost = 1
    MaxNoise = 2
CHECK_DEADLOCK FALSE
INVARIANTS EndsItsSearch FindsAll
PROPERTIES QueryReturns
