\* Two sessions with changing working directories share a scope of ten objects.
SPECIFICATION Spec
CONSTANTS
    Dirs <- Tree
    Up <- Paths
    Removable <- Empty
    Readable <- SystemAndProfile
    WorkDirs <- Working
    Spaces <- Namespace
    Owned <- Own
    First <- AtFirst
    MaxEntries = 9
    Sessions = {s1, s2}
SYMMETRY Symmetry
INVARIANTS ConfinedWhileRunning RootsStayOpen RestoredMeansFirst
PROPERTY ImplementsContract
