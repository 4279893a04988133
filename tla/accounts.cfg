CONSTANTS
    Names = {alice, bob}
    Passwords = {p, q}
    Threads = {t1, t2}
    Legacy = {alice}
    Capacity = 1
    OutboxSlots = 1
    MaxSerial = 3
    MaxSessions = 2
SPECIFICATION Spec
SYMMETRY Interchangeable
INVARIANT TypeOK
INVARIANT SessionsGenuine
PROPERTY ResetsAreOwn
PROPERTY RemovalsAreOwn
CHECK_DEADLOCK FALSE
