SPECIFICATION Spec
CONSTANTS
    Account <- MCAccount
    Rules <- MCRules
    Event <- MCEvent
    Task <- MCTask
    Owner <- MCOwner
    Publishers <- MCPublishers
    Rebroadcasters = {}
    Capacity = 1
    MaxSession = 2
    MaxFaults = 1
    MaxVolume = 2
    MaxMoves = 2
    MaxReports = 2
    MaxCrash = 1
INVARIANTS
    TypeOK
    
    OpenedOnce
    ClosesOnlyTheClosed
PROPERTY
    ImplementsLedger
CONSTRAINT OneMishap
CHECK_DEADLOCK FALSE
