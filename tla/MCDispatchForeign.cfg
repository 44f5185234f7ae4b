CONSTANTS
    Receivers = {r1, r2}
    Early = {r2}
    MaxTasks = 2
    LateStart = FALSE
SPECIFICATION Spec
INVARIANT DistributionUndisturbed
