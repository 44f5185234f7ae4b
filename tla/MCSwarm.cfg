CONSTANTS
    Sender = sender
    Receivers = {r1, r2}
    Chunk = {c1, c2}
    Version = {v1, v2}
    NoVersion = none
    Zero = zero
    Edited = edited
    Retask = FALSE
    Overlap = FALSE
    LateReport = FALSE
SPECIFICATION Spec
SYMMETRY SwarmSymmetry
INVARIANTS
    Integrity
    VerifiedChunks
    OwnersServeCurrent
PROPERTIES
    ImplementsDelivery
