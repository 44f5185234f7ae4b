CONSTANTS
    Sender = sender
    Receivers = {r1, r2}
    Chunk = {c1}
    Version = {v1}
    NoVersion = none
    Zero = zero
    Edited = edited
    Retask = TRUE
    Overlap = FALSE
    LateReport = FALSE
SPECIFICATION Spec
SYMMETRY SwarmSymmetry
INVARIANTS
    Integrity
