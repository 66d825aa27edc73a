SPECIFICATION Spec
CONSTANTS
    Daemon <- MCDaemon
    p = p
    q = q
    Request <- MCRequest
    MaxRecord = 2
    MaxFaults = 1
    MaxStops = 1
SYMMETRY MCSymmetry
INVARIANTS
    TypeOK
    
    PromisedSurvives
    
    RefusalHasACause
CHECK_DEADLOCK FALSE
