SPECIFICATION Spec
CONSTANTS
    Account <- MCAccount
    Rules <- MCRules
    Event <- MCOpen
    Task <- MCTaskTwoMasters
    Owner <- MCOwnerTwoMasters
    Publishers <- MCPublishers
    Rebroadcasters = {}
    Capacity = 1
    MaxSession = 3
    MaxFaults = 0
    MaxCrash = 0
INVARIANT
    SettledIsFinal
CHECK_DEADLOCK FALSE
