CONSTANTS
    pw = pw
    fp = fp
    face = face
    Factors = {pw, fp}
    Keyboard = {pw}
    Password = pw
    All = all
    priority <- priorities
    Listings <- anyOrder
    Kinds = {TRUE, FALSE}
    KillExited = {TRUE, FALSE}
    MaxTries = 2
    Failed = 1
    MaxFaults = 1
    VerifyCodes = {"Retry"}
    MaxStatuses = 1
    Cancels = TRUE
SPECIFICATION FairSpec
INVARIANTS TypeOK SuccessGranted NoThreadLeft FactorsInOrder
PROPERTIES PromptTrue FinalReturns
CHECK_DEADLOCK FALSE
