SPECIFICATION Spec
CONSTANTS
    Macs = {s1, s2, s3}
    Ips = {p1, p2}
    NoMac = NoMac
    NoIp = NoIp
    MAX_CLIENTS = 2
    MaxEvents = 2
SYMMETRY Symmetry
INVARIANTS
    DistinctMacs
    OnlyConnected
    AddressOfStation
    RoomForNewcomer
PROPERTY CountFollowsTable
