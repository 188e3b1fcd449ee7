SPECIFICATION Spec
CONSTANTS
    Scene = {"forest"}
    Subject = {"wolf"}
    Capped = {"wolf"}
    Monster = {"wolf"}
    Image = {"i0", "i1"}
    Old <- OneEach
    Format = {"png", "webp"}
    None = None
    Limit = 2
    MaxEvent = 2
CHECK_DEADLOCK FALSE
INVARIANTS
    CardsHaveFiles
