SPECIFICATION Spec
CONSTANTS
    Metrics = 2
    Ms = 2
    Period = 3
    MaxTime = 8
    MaxBytes = 2
INVARIANTS TypeOK DividesByTimePassed
PROPERTIES TotalsNeverGoBack
