\* Vendor and database change at will, the process dies, the file cannot
\* be written or be read.
SPECIFICATION Spec
CONSTANTS
    Cap = 2  Window = 4
    Cooldown = 3  MaxBackoff = 3  MaxInvalid = 2  SlipBound = 1
INVARIANTS WithinCap
PROPERTIES QuietAfterLimit RejectionShows TelemetryReturns
