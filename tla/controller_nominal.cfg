\* No fault but blind readings and settings that change: the watchdog outlasts
\* a sleep and twice a cycle's duration.
SPECIFICATION Spec
CONSTANTS
    OnDelay = 2  OffDelay = 2  MinRun = 8  MinOff = 6  Grace = 3
    AutoOff = 5  HeldCap = 8  Loop = 2  Busy = 1
    Rows <- AnyRow
    Readings <- AllReadings
    Faults <- Settled
INVARIANTS HeldUp
PROPERTIES CompressorRests CompressorRuns
