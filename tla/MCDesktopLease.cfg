\* Two interactive launches, two protected objects, and everything that may go wrong.
SPECIFICATION FairSpec
CONSTANTS
    Launches = {i1, i2}
    Objects = 2
    Faults <- AllFaults
    Nobody = Nobody
INVARIANTS RunningMeansGranted StrayGrantsAreKnown ReleasedMeansRemoved
PROPERTIES WatchedLauncherReturns OnlyWatchedGivingUpBlocks
CHECK_DEADLOCK FALSE
