\* One account, three connections, two slots: shared scope, both limits binding.
SPECIFICATION Spec
CONSTANTS
    Workers = {w1, w2, w3}
    Accounts = {a1}
    MaxSessions = 3
    MaxPerAccount = 2
    Operations <- LaunchesOnly
    Nobody = Nobody
SYMMETRY WorkerSymmetry
INVARIANTS SessionInvariant ConfinementMatchesRequest SlotAndLeaseOutliveTree
PROPERTIES ImplementsSlots ImplementsScopes
