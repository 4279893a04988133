CONSTANTS
    alice = alice
    root = root
    d1 = d1
    d2 = d2
    d3 = d3
    Devices = {d1, d2, d3}
    Addrs = {2, 3, 4}
    Keys = {k1, k2}
    NoPeer = NoPeer
    Users = {alice, root}
    Admins = {root}
    Owner <- TwoAccounts
    Limit <- LimitOne
    InfraAddrs = {}
    Faults = {"helper", "lost", "crash"}
    Maintenance = {"unprotect", "protect"}
SPECIFICATION Spec
SYMMETRY NameSymmetry
INVARIANT OwnersAccountable
INVARIANT WithinLimit
CHECK_DEADLOCK FALSE
