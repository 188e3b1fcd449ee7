SPECIFICATION Spec
CONSTANTS
    Db = "db"
    Sidecar = {"wal"}
    Entry = {"scene", "cards"}
    MaxVersion = 2
    Drawn <- MCDrawn
    MaxSave = 3
    Thread = {t1, t2}
    Reactor = t1
    Keep = 1
CHECK_DEADLOCK FALSE
INVARIANTS
    Recoverable
    ListedIsWhole
    RetentionCatchesUp
    StagedRestoreShutsDown
PROPERTIES
    ImplementsAtomicRestore
    NewestSurvive
