CONSTANTS
    Peers = {router}
    Faults = {"kill"}
    MaxFaults = 1
SPECIFICATION FairSpec
PROPERTY RetryCompletes
CHECK_DEADLOCK FALSE
