SPECIFICATION Spec
CONSTANTS
    None = None
    Torrents = {t1}
    MaxVersion = 3
    MaxAlerts = 3
    MaxSaves = 2
    MaxStarts = 2
INVARIANT SavedMeansOnDisk
PROPERTIES FilesNeverGoBack SaveReturns
