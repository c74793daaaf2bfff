SPECIFICATION Spec
CONSTANTS
    WorkOrders = {o1, o2}
    Titles = {title}
    Coders = {c1, c2}
    NoCoder = NoCoder
    Nothing = Nothing
    RequireHuman = FALSE
    Savers = {saver}
    MaxOperations = 8
    MaxSaves = 1
SYMMETRY Symmetry
INVARIANTS
    OneOpenPerTitle
    ReleasedIsReviewed
    CheckpointIsOwners
    NothingSavedIsLost
