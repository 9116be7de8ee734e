SPECIFICATION FairSpec
CONSTANTS
    Kinds = {"status", "settings"}
    Handles = {h}
    MaxId = 2
    MaxVersion = 2
    MaxPending = 2
INVARIANT TypeOK
PROPERTIES NothingAskedAfterLogout SelectionMovesWithOlderRows Converges
