SPECIFICATION Spec
CONSTANTS
    Hosts = {h1, h2}
    Ports = {p1, p2, p3}
    MaxNumPorts = 3
    MaxDelay = 2
    MaxTime = 3
    MaxPackets = 5
SYMMETRY Interchangeable
INVARIANTS
    AlarmsAreScans
    HostsRememberStreaks
CHECK_DEADLOCK FALSE
