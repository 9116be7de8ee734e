SPECIFICATION Spec
CONSTANTS
    None = None
    Torrents = {t1, t2}
    MaxVersion = 1
    MaxAlerts = 2
    MaxSaves = 1
    MaxStarts = 2
INVARIANT RemovedStaysGone
