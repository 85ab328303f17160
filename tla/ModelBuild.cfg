SPECIFICATION Spec
CONSTANTS
    Layers <- MCLayers
    Sources = {1, 2}
    Hard <- MCHard
    Commands <- MCCommands
    MaxBuilds = 3
    MaxFaults = 2
INVARIANTS
    TypeOK
    VerifiedMatchesPlanes
    VerifiedLayersWhole
    ErrorsLeaveNoStump
    FreshPlanesPassedGate
PROPERTIES
    WholeImagesKept
    CleanupLosesNothing
CHECK_DEADLOCK FALSE
