SPECIFICATION Spec
CONSTANTS
    Account <- MCAccount
    Rules <- MCRules
    Event <- MCEvent
    Task <- MCTask
    Owner <- MCOwner
    Publishers <- MCPublishers
    Rebroadcasters = {}
    Capacity = 1
    MaxSession = 2
    MaxFaults = 0
    MaxVolume = 2
    MaxMoves = 1
    MaxReports = 1
    MaxCrash = 0
INVARIANT
    ExecutedAtMostOnce
CHECK_DEADLOCK FALSE
