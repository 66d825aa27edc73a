SPECIFICATION Spec
CONSTANTS
    Account <- MCAccount
    Rules <- MCRules
    Event <- MCOpenReduce
    Task <- MCTask
    Owner <- MCOwner
    Publishers <- MCPublishers
    Rebroadcasters = {}
    Capacity = 1
    MaxSession = 2
    MaxFaults = 1
    MaxCrash = 1
INVARIANTS
    TypeOK
    WriteAhead
    NoResendAfterRestart
    NeverForgotten
    MirrorAgrees
    MirrorsAreValid
    RecoveryEquivalence
    SettledIsFinal
PROPERTY
    ImplementsLedger
CHECK_DEADLOCK FALSE
