\* Database and sources fail, the process is restarted, the counter reset.
SPECIFICATION Spec
CONSTANTS
    Refresh = 2  Backoff = 1  MinDays = 1
    Potentials <- SomePotentials
    Ratios <- TooMuchOrNothing
    Intervals <- SomeIntervals  Length = 2
    NULL = NULL
INVARIANTS TypeOK RenewedSoon MeasuredIsReal
PROPERTIES PlausibleRatio
