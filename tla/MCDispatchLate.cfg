CONSTANTS
    Receivers = {r1, r2}
    Early = {r2}
    MaxTasks = 2
    LateStart = TRUE
SPECIFICATION Spec
INVARIANT CancelStops
