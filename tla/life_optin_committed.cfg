CONSTANTS
    alice = alice
    root = root
    d1 = d1
    d2 = d2
    d3 = d3
    Devices = {d1, d2}
    Addrs = {2, 3, 4}
    Keys = {k1, k2}
    NoPeer = NoPeer
    Users = {alice}
    Admins = {}
    Owner <- OneAccount
    Limit <- LimitTwo
    InfraAddrs = {2}
    Faults = {"committed"}
    Maintenance = {"protect"}
SPECIFICATION Spec
SYMMETRY NameSymmetry
INVARIANT OptInEnforced
CHECK_DEADLOCK FALSE
