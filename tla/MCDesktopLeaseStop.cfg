SPECIFICATION FairSpec
CONSTANTS
    Launches = {i1}
    Objects = 2
    Faults <- GiveUpAndStop
    Nobody = Nobody
PROPERTY StopJoinsWorkers
CHECK_DEADLOCK FALSE
