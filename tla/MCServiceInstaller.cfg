\* Two administrators install, update and remove two packages of two files.
SPECIFICATION InstallerSpec
CONSTANTS
    Users = {u1, u2}
    Versions = {v1, v2}
    Files = {broker, conhost}
    Broker = broker
    None = None
    Torn = Torn
INVARIANTS InstalledIsComplete UninstalledLeavesNothing RepairCompletes
PROPERTIES UpdatesKeepCaller JobEnds
