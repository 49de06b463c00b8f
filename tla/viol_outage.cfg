\* The database is down for a while; the relay itself is fine.
SPECIFICATION Spec
CONSTANTS
    OnDelay = 1  OffDelay = 1  MinRun = 3  MinOff = 4  Grace = 2
    AutoOff = 4  HeldCap = 4  Loop = 1  Busy = 1
    Rows <- AutoOnly
    Readings <- AllReadings
    Faults <- Database
INVARIANTS HeldUp
