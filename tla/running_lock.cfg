SPECIFICATION Spec
CONSTANTS
    None = None
    Null = Null
    root = root
    ann = ann
    bob = bob
    eve = eve
    dan = dan
    rootMail = rootMail
    annMail = annMail
    bobMail = bobMail
    good = good
    fresh = fresh
    Ids = {ann}
    Emails = {rootMail, annMail, bobMail}
    Passwords = {good, fresh}
    Requests = {r1, r2, r3}
    Calls <- Guesses
    Seed <- SmallSeed
    SeedTokens <- NoSessions
    MaxAttempts = 2
    LockDuration = 2
    AccessTtl = 1
    RefreshTtl = 1
    MaxInFlight = 3
    MaxTime = 2
    MaxFaults = 0

PROPERTIES
    RunningLockKept
