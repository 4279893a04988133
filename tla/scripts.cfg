CONSTANTS
    Devices = {d1, d2}
    Addrs = {3, 4}
    Keys = {k1, k2, k3}
    NoPeer = NoPeer
    InfraAddrs = {}
SPECIFICATION Spec
SYMMETRY Interchangeable
INVARIANT NoRouteAppears
INVARIANT RollbackRestores
PROPERTY CallsImplemented
CHECK_DEADLOCK FALSE
