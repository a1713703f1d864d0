SPECIFICATION Spec
CONSTANTS
    erase = erase
    test = test
    c1 = c1
    Actions = {erase, test}
    Destructive = {erase}
    Verification = {test}
    Criteria = {c1}
    Scopes <- OneScope
    Affected <- EveryActionAffects
    GrantFor <- TwoGrantsToErase
    HostPins = {FALSE}
    MaxVerifications = 1
    MaxRepeats = 1
    MaxBindings = 1
    MaxPending = 2
    MaxRequests = 3
    MaxIssues = 2
    MaxRevision = 1
    MaxFaults = 1
INVARIANTS
    AuthorizationsNotReused
    
    SatisfiedIsVerified
CHECK_DEADLOCK FALSE
