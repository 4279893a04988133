CONSTANTS
    alice = alice
    root = root
    d1 = d1
    d2 = d2
    d3 = d3
    Devices = {d1, d2}
    Addrs = {2, 3, 4}
    Keys = {k1, k2}
    NoPeer = NoPeer
    Users = {alice}
    Admins = {}
    Owner <- OneAccount
    Limit <- LimitTwo
    InfraAddrs = {2}
    Faults = {"helper", "torn", "lost", "committed", "firewall", "crash", "reboot"}
    Maintenance = {}
SPECIFICATION Spec
SYMMETRY NameSymmetry
INVARIANT TypeOK
INVARIANT AccountEnforced
INVARIANT InfrastructureKept
INVARIANT AddressesUnique
INVARIANT PauseConfirmed
INVARIANT RevokedStaysOff
PROPERTY ServingResolvesPauses
PROPERTY ProtectedRemovalConfirmed
PROPERTY OrdinaryNotMatched
CHECK_DEADLOCK FALSE
