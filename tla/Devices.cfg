SPECIFICATION MCSpec
CONSTANTS
    UExports = {"a", "b"}
    UIds = {1, 2, 3}
    UCrashes = 2
    UAttaches = 3
    UScenarios <- ControlCombos
    NExports = {"a", "b"}
    NIndices = {0, 1, 2}
    NCrashes = 2
    NPuts = 3
    NTries = 2
    NScenarios <- NbdCombos
CONSTRAINT Bounds
INVARIANTS
    UblkMapsAgree
    NbdMapsAgree
PROPERTIES
    OthersUntouched DevicesRecover
CHECK_DEADLOCK FALSE
