CONSTANTS
    pw = pw
    fp = fp
    face = face
    Factors = {pw, fp, face}
    Keyboard = {pw}
    Password = pw
    All = all
    priority <- threePriorities
    Listings <- worstOrder
    Kinds = {TRUE}
    KillExited = {FALSE}
    MaxTries = 2
    Failed = 0
    MaxFaults = 0
    VerifyCodes = {}
    MaxStatuses = 0
    Cancels = FALSE
SPECIFICATION Spec
INVARIANT NoPromptWhileAsking
CHECK_DEADLOCK FALSE
