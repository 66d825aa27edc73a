SPECIFICATION Spec
CONSTANTS
    Account <- MCAccount
    Rules <- MCRules
    Event <- MCEvent
    Task <- MCTask
    Owner <- MCOwner
    Publishers <- MCPublishers
    Rebroadcasters = {}
    Line <- MasterFirst
    Protected <- MCProtected
    Capacity = 1
    MaxSession = 2
    MaxFaults = 0
    MaxVolume = 2
    MaxMoves = 1
    MaxCrash = 0
INVARIANT
    RejectedHoldsNothing
CHECK_DEADLOCK FALSE
