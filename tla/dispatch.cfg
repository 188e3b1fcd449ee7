SPECIFICATION Spec
CONSTANTS
    Request = {q1, q2}
    Character = {ann, bob}
    First = ann
    None = None
    Capacity = 1
    MaxEpoch = 3
    MaxStale = 1
INVARIANTS
    ExecutedOnce
    AnswersAgree
    OneAtATime
PROPERTIES
    SwitchAnswered
    BusyEnds
