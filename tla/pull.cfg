CONSTANTS
    clean = clean
    error = error
    noErrors = noErrors
    oneError = oneError
    a = a
    b = b
    Absent = Absent
    None = None
    Files = {a, b}
    Opened = {b}
    Lists = {clean, error}
    Clean = clean
    Ids = {noErrors, oneError}
    Fingerprint <- MCFingerprint
    MaxWrites = 2
    MaxCancels = 1
SPECIFICATION FairSpec
INVARIANTS
    ShownWasSaid
    IdsAreOfWhatIsHeld
PROPERTIES
    UndisturbedPullsAreComplete
    WritesGoThrough
    ClientCatchesUp
