\* Liveness while the loop hangs and is restarted, the relay fails, the settings
\* and the clock change, and the process dies.
SPECIFICATION HealthFairSpec
CONSTANTS
    OnDelay = 2  OffDelay = 1  MinRun = 2  MinOff = 2  Grace = 2
    AutoOff = 3  HeldCap = 2  Loop = 1  Busy = 1
    Budget = 2  Failures = 3  Back = 1  ClockSets = 1
    Rows <- AutoOrPaused
    Readings <- AllReadings
    Faults <- Unruly
INVARIANTS LiveIsLeft
PROPERTIES BlindLetsGo PauseLetsGo SurplusIsUsed HungIsRestarted
