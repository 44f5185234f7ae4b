CONSTANTS
    Central = central
    Receivers = {r1, r2}
    Zones = {z1}
    ZoneOf <- MCZoneOf
    MaxChunks = 2
    MaxInflight = 1
    BackoffOverloadConn = 2
    MaxPrefetch = 1
    Writers = {w1, w2}
    MaxLeases = 2
SPECIFICATION Spec
SYMMETRY TrackerSymmetry
VIEW TrackerView
INVARIANTS
    LeaseAccounting
    SourceLoadBounded
    OwnershipAgrees
    DeadLeasesNeverStarve
    PrefetchOnlyMissing
PROPERTIES
    LiveLeasesKept
