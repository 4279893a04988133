CONSTANTS
    alice = alice
    root = root
    d1 = d1
    d2 = d2
    d3 = d3
    Devices = {d1, d2}
    Addrs = {2, 3, 4}
    Keys = {k1, k2}
    NoPeer = NoPeer
    Users = {alice}
    Admins = {}
    Owner <- OneAccount
    Limit <- LimitTwo
    InfraAddrs = {2}
    Faults = {"helper", "lost", "firewall"}
    Maintenance = {}
SPECIFICATION FairSpec
PROPERTY LockReleased
CHECK_DEADLOCK FALSE
