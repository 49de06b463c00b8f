\* Every fault at once.
SPECIFICATION Spec
CONSTANTS
    OnDelay = 2  OffDelay = 1  MinRun = 2  MinOff = 1  Grace = 2
    AutoOff = 3  HeldCap = 2  Loop = 1  Busy = 1
    Rows <- AutoOrOn
    Readings <- AllReadings
    Faults <- AllFaults
INVARIANTS Armed AuditInStep
PROPERTIES KeepsLease
