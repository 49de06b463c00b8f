\* One operator, one form, valid entries only.
SPECIFICATION Spec
CONSTANTS
    NULL = NULL  NaN = NaN  Bad = Bad
    Default <- Defaults
    FormDefaults <- PageDefaults
    Gap = 1  NominalCap = 4  RunFloor = 4  Minute = 2
    WattsCap = 3  RefCap = 3  RunCap = 8
    CanFail = FALSE
    Choices <- WholeMinutes
    EditedRows <- NoRows
PROPERTIES OnlyEditsSaved
