SPECIFICATION Spec
CONSTANTS
    Daemon <- MCDaemon
    p = p
    q = q
    Request <- MCRequest
    MaxRecord = 3
    MaxFaults = 1
    MaxStops = 1
INVARIANT
    AppendsNeverSpoil
CHECK_DEADLOCK FALSE
