SPECIFICATION BacklogSpec
CONSTANTS
    Account <- MCAccount
    Rules <- MCRules
    Event <- MCOpen
    Task <- MCTaskOverlap
    Owner <- MCOwnerOverlap
    Publishers <- MCPublishers
    Rebroadcasters = {}
    Capacity = 1
    MaxSession = 2
    MaxFaults = 1
    MaxCrash = 1
INVARIANTS
    NoResendAfterRestart
    SessionsAreServed
CHECK_DEADLOCK FALSE
