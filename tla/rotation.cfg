SPECIFICATION Spec
CONSTANTS
    None = None
    Null = Null
    root = root
    ann = ann
    bob = bob
    eve = eve
    dan = dan
    rootMail = rootMail
    annMail = annMail
    bobMail = bobMail
    good = good
    fresh = fresh
    Ids = {ann}
    Emails = {rootMail, annMail, bobMail}
    Passwords = {good, fresh}
    Requests = {r1, r2}
    Calls <- SessionCalls
    Seed <- SmallSeed
    SeedTokens <- AnnSession
    MaxAttempts = 2
    LockDuration = 2
    AccessTtl = 3
    RefreshTtl = 3
    MaxInFlight = 1
    MaxTime = 1
    MaxFaults = 0

PROPERTIES
    RotationInvalidates
