CONSTANTS
    Entry = {1, 2, 3}
    Dir = {1}
    MaxSize = 2
    MaxEdits = 3
    Absent = absent
    Other = other
    RenameRace = FALSE
SPECIFICATION TransferSpec
INVARIANTS
    BundleWhole
    NeverTorn
    SuccessIsManifest
PROPERTIES
    NotReplaced
CHECK_DEADLOCK FALSE
