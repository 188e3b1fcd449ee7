SPECIFICATION LiveSpec
CONSTANTS
    dlg = dlg
    room = room
    area = area
    shut = shut
    open = open
    w1 = w1
    w2 = w2
    w3 = w3
    g1 = g1
    g2 = g2
    none = none
    Panel = {dlg}
    Dialogue = dlg
    MapPanel = {area}
    Value = {open}
    OpenDialogue = {open}
    Absent = none
    Mode = {"dialogue"}
    DialogueMode = "dialogue"
    Time = {1}
    Waiter = {w1, w2}
    Group = {g1, g2}
    Request <- QueueRequests
    MaxPending = 1
    MaxRevision = 2
    MaxEpoch = 2
    MaxTurns = 2
    SchedulerFails = TRUE
INVARIANTS
    ResultNamesHeldRevision
    WaitersPartitioned
    NoStrandedWaiter
PROPERTIES
    ImplementsStream
    EveryWaiterAnswered
