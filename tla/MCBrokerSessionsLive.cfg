\* Console sessions, registrations and deletions of one account, under weak fairness.
SPECIFICATION FairSpec
CONSTANTS
    Workers = {w1, w2}
    Accounts = {a1}
    MaxSessions = 2
    MaxPerAccount = 2
    Operations <- ConsoleManaged
    Nobody = Nobody
INVARIANTS AccountOutlivesTree LogonUsesOwnPassword
PROPERTIES StopCompletes DeadManSwitch LaunchMutexIsReleased
