SPECIFICATION Spec
CONSTANTS
    Layers <- MCLayers
    Sources = {1, 2}
    Hard <- MCHard
    Commands <- MCCommands
    MaxBuilds = 3
    MaxFaults = 1
CHECK_DEADLOCK FALSE
INVARIANT
    VerifiedTargetWhole
