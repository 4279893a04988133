CONSTANTS
    Peers = {router, phone}
    Faults = {"raise", "kill", "reboot", "firewall", "edit"}
    MaxFaults = 3
SPECIFICATION FairSpec
INVARIANT TypeOK
INVARIANT ConfigKept
INVARIANT ClaimsMatched
INVARIANT ReadyIsClean
PROPERTY ProtectionNeverDropped
PROPERTY ResumeCompletes
CHECK_DEADLOCK FALSE
