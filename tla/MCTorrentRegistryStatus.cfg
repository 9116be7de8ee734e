SPECIFICATION Spec
CONSTANTS
    MaxAdds = 2
    Null = Null
    Requests <- MCRequests
INVARIANT StatusAnswersTheListedIds
