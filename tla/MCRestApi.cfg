SPECIFICATION Spec
CONSTANTS
    None = None
    t1 = t1
    t2 = t2
    upload_limit = upload_limit
    download_limit = download_limit
    Torrents = {t1, t2}
    Names = {upload_limit, download_limit}
    Values = {1, 2}
    Requests <- MCRequests
    MaxAdds = 3
    MaxFiles = 2
INVARIANTS TypeOK ErrorChangesNothing SettingsAsAsked AddsAsAsked
    ListingNeverMisses DeleteIsAllOrNothing UploadsCanBeAdded
