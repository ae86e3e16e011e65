\* Three clients, two workers at a time, and everything that may go wrong.
SPECIFICATION FairSpec
CONSTANTS
    Clients = {c1, c2, c3}
    Workers = {w1, w2, w3}
    MaxWorkers = 2
    Faults <- AllFaults
    Nobody = Nobody
INVARIANTS PoolLeavesRoom EachClientHasOneServer
PROPERTIES ImplementsLifecycle StopIsReported RunningServiceListens
