SPECIFICATION Spec
CONSTANTS
    Known <- MCKnown
    Hellos <- MCHellos
    AgentFrames <- MCAgentFrames
    Commands <- MCCommands
    Others <- MCOthers
    MaxFrames = 2
INVARIANTS
    TypeOK
    FramesSurvive
    CutLosesOnlyTheLastField
    HandshakeFirst
CHECK_DEADLOCK FALSE
