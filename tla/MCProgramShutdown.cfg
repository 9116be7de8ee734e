SPECIFICATION FairSpec
CONSTANTS
    Paths = {"./", "old", "new"}
    DefaultPath = "./"
    Names = {"rate"}
    Values = {"unlimited", "limited"}
    Default = "unlimited"
    Requests <- SmallRequests
    None = None
    MaxStarts = 1
PROPERTY ShutdownReturns
