SPECIFICATION RelaySpec
CONSTANTS
    MaxOutput = 2
    MaxKeys = 1
    MaxResizes = 1
    Capacity = 1
    SizeCapacity = 2
INVARIANTS CodeMeansComplete TargetIsSpared NobodyIsStuck SizesAreUnderWay
PROPERTIES WorkRunsOut OnlyLostCancelsBlock SizesArrive
CHECK_DEADLOCK FALSE
