SPECIFICATION FairSpec
CONSTANTS
    Devices <- MCDevices
    MaxLost = 1
    MaxDown = 1
    MaxSearch = 1
    MaxFaults = 1
    MaxFlight = 1
CHECK_DEADLOCK FALSE
INVARIANTS ProbeListFits ProbedFirst LargestKeepsHost
PROPERTIES NamesSettle
