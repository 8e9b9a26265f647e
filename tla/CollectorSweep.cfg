SPECIFICATION Spec
CONSTANTS
    Endpoints = {port}
    Protocols = {tcp, udp}
    Remotes = {peer}
    SocketPids = {x1, x2}
    Users = {u1, u2}
    Nobody = Nobody
    Host = Host
    Pids = {pid}
    MaxCreated = 2
    Accounts = {a1}
    Second = 2
    Zones <- MCZones
    LookBack = 2
    MaxClock = 4
    MaxRecords = 1
    Interval = 2
    MaxLoad = 4
    MaxFaults = 1
SYMMETRY MCSymmetry
INVARIANTS
    TypeOK
    PacketsConserved
    OwnerHeldEndpoint
    CpuNeverInvented
    NoFailedLoginMissed
    CountsBounded
CHECK_DEADLOCK FALSE
