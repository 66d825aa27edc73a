SPECIFICATION Spec
CONSTANTS
    Account <- MCAccount
    Rules <- MCRules
    Event = {}
    Policies <- MCPolicies
    MaxVolume = 8
INVARIANTS
    TypeOK
    StepAligned
    NeverOverReduced
    FlatTogether
    DriftBounded
