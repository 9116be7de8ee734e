SPECIFICATION Spec
CONSTANTS
    MaxAdds = 3
    Null = Null
    Requests <- MCRequests
INVARIANTS
    TypeOK
    IdsNeverClash
    DeathCauses
    NothingDoneOnMiss
    AnswersAligned
    SessionMatchesTable
PROPERTIES
    MissingIsAbsent
    ImplementsIdTable
    AcceptedIsRegistered
    RequestsAreAnswered
