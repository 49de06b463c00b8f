\* Weather, household, inverter and meter change at will, and the process restarts.
SPECIFICATION Spec
CONSTANTS
    OnDelay = 2  OffDelay = 2  MinRun = 2  MinOff = 3  Grace = 1
    NULL = NULL  NaN = NaN
    Default <- AutoRow  Row <- AutoRow
    Gap = 1  NominalCap = 40  RunFloor = 1
    Window = 2  MinSamples = 2  MaxStale = 1  Percent = 50
    Weathers <- SunAndMoon  PerRow = 2
INVARIANTS TypeOK BaselineClean HoldEnds
PROPERTIES Settles NightReleases
