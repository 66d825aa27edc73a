SPECIFICATION Spec
CONSTANTS
    Account <- MCAccount
    Rules <- MCRules
    Event <- MCEvent
    Task <- MCTask
    Owner <- MCOwner
    Publishers <- MCPublishers
    Rebroadcasters = {}
    Line <- MasterFirst
    Protected <- MCProtected
    Capacity = 1
    MaxSession = 2
    MaxFaults = 1
    MaxVolume = 2
    MaxMoves = 2
    MaxCrash = 1
INVARIANTS
    TypeOK
    
    InStep
    CopiesInStep
    BoundIsProtected
    DispatchedIsPursued
    SentOnce
    OpenedOnce
PROPERTY
    ImplementsLedger
CHECK_DEADLOCK FALSE
