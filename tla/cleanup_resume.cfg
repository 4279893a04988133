CONSTANTS
    Devices = {d1}
    Period = 2
    Gap = 1
    MaxTime = 4
    MaxBytes = 0
    MaxKeys = 1
    Faults = {"quickResume"}
SPECIFICATION Spec
PROPERTY CondemnedWasIdle
CHECK_DEADLOCK FALSE
