SPECIFICATION Spec
CONSTANTS
    dlg = dlg
    room = room
    area = area
    shut = shut
    open = open
    w1 = w1
    w2 = w2
    w3 = w3
    g1 = g1
    g2 = g2
    none = none
    Panel = {dlg, room}
    Dialogue = dlg
    MapPanel = {area}
    Value = {shut, open}
    OpenDialogue = {open}
    Absent = none
    Mode = {"exploration", "dialogue"}
    DialogueMode = "dialogue"
    Time = {1}
    Waiter = {w1, w2}
    Group = {g1, g2}
    Request <- ContentRequests
    MaxPending = 2
    MaxRevision = 3
    MaxEpoch = 1
    MaxTurns = 1
    SchedulerFails = FALSE
SYMMETRY WaiterSymmetry
INVARIANTS
    NoGap
    BaselineIsHeld
PROPERTIES
    TargetNeverReused
    RefreshIsComplete
    ModeBringsDialogue
