\* Every disturbance: silence, a dropped membership, the clock, restarts.
SPECIFICATION Spec
CONSTANTS
    StaleLimit = 1  FreshFor = 2  RecvTimeout = 2  MaxStep = 1
    NULL = NULL
INVARIANTS FreshIsMetered ServedIsProduced ViewFollows
PROPERTIES SilenceBlinds MeterReturns
