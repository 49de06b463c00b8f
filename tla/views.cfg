\* A switch, a failure and a change of the weather, at any time around midnight.
SPECIFICATION Spec
CONSTANTS
    NULL = NULL
    Raws <- AnySetting  Default = 3  Minute = 3  Match = 4
    Nominal = 12  House = 6  Headrooms <- SomeShade
    Midnight = 3  Horizon = 7  Lateness = 2  Disturbances = 2
INVARIANTS TypeOK JournalTells RuntimeHonest SavingsHonest 
CHECK_DEADLOCK FALSE
