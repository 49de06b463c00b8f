\* The form, the mode buttons and an administrator; an entry is a number,
\* NaN or text that is rejected.
SPECIFICATION Spec
CONSTANTS
    NULL = NULL  NaN = NaN  Bad = Bad
    Default <- Defaults
    FormDefaults <- PageDefaults
    Gap = 1  NominalCap = 4  RunFloor = 4  Minute = 2
    WattsCap = 3  RefCap = 3  RunCap = 8
    CanFail = TRUE
    Choices <- Numbers
    EditedRows <- BadRows
INVARIANTS LoadedSafe
PROPERTIES OperatorObeyed
