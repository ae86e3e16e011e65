SPECIFICATION FairSpec
CONSTANTS
    Workers = {w1}
    Accounts = {a1}
    MaxSessions = 1
    MaxPerAccount = 1
    Operations <- ConsoleOnly
    Nobody = Nobody
INVARIANT NoStrayDenials
