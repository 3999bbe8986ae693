SPECIFICATION Spec
CONSTANTS
    None = None
    Null = Null
    root = root
    ann = ann
    bob = bob
    eve = eve
    dan = dan
    rootMail = rootMail
    annMail = annMail
    bobMail = bobMail
    good = good
    fresh = fresh
    Ids = {ann, root}
    Emails = {rootMail, annMail, bobMail}
    Passwords = {good, fresh}
    Requests = {r1, r2, r3, r4}
    Calls <- SerialCalls
    Seed <- SmallSeed
    SeedTokens <- BothSessions
    MaxAttempts = 2
    LockDuration = 1
    AccessTtl = 3
    RefreshTtl = 3
    MaxInFlight = 1
    MaxTime = 2
    MaxFaults = 0

SYMMETRY RequestSymmetry
INVARIANTS
    EveryTokenEarned
    RoleTrailAccurate
    ThresholdLocks
PROPERTIES
    LockoutPolicyHolds
    FailuresConsecutive
    SuccessResets
    LogoutEndsSession
    RunningLockKept
