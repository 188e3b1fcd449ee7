SPECIFICATION LiveSpec
CONSTANTS
    Session = {s1, s2}
    Actor = {a}
    NoActor = NoActor
    Situation = {f}
    Nowhere = Nowhere
    SharedPuppet = TRUE
    MaxGeneration = 3
    MaxToken = 3
    MaxEpoch = 1
CHECK_DEADLOCK FALSE
INVARIANTS
    BooksAgree
    GeneratingIsAwaited
    ShownToItsOwner
PROPERTIES
    BarrierHolds
    GeneratingEnds
