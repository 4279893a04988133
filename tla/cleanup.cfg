CONSTANTS
    Devices = {d1, d2}
    Period = 1
    Gap = 1
    MaxTime = 3
    MaxBytes = 1
    MaxKeys = 2
    Faults = {"unknown", "unsaved", "helper", "crash", "reboot"}
SPECIFICATION Spec
SYMMETRY Interchangeable
INVARIANT TypeOK
PROPERTY CondemnedWasIdle
PROPERTY ExcludedNeverDeleted
CHECK_DEADLOCK FALSE
