SPECIFICATION FairSpec
CONSTANTS
    Clients = {c1, c2}
    Workers = {w1, w2}
    MaxWorkers = 1
    Faults <- NoFaults
    Nobody = Nobody
PROPERTY FullPoolOnlyDelays
