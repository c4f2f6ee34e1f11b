SPECIFICATION Spec
CONSTANTS
    Attributes = {"item.attr.colour"}
    Lifetime = 2
    Overlap = 1
    MaxKeys = 2
    MaxTime = 2
    Instructions <- MCInstructions
    Agents <- MCAgents
    OpenLife = 2
    ClosedLife = 1
    SurfaceAlg = "sha-512"
    Menu <- MCMenu
    OfferLife = 2
    CredentialLife = 1
    AgentAlg = "sha-256"
INVARIANTS
    SignaturesOutliveRotation
    PairIsOneDecision
    InstructionHonoured
    WeighsWhatItIsShown
    EachForOne
    DisputeAgrees
CHECK_DEADLOCK FALSE
