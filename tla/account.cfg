SPECIFICATION Spec
CONSTANTS
    None = None
    Null = Null
    root = root
    ann = ann
    bob = bob
    eve = eve
    dan = dan
    rootMail = rootMail
    annMail = annMail
    bobMail = bobMail
    good = good
    fresh = fresh
    Ids = {ann}
    Emails = {rootMail, annMail, bobMail}
    Passwords = {good, fresh}
    Requests = {r1, r2, r3}
    Calls <- AccountCalls
    Seed <- SmallSeed
    SeedTokens <- AnnSession
    MaxAttempts = 2
    LockDuration = 2
    AccessTtl = 2
    RefreshTtl = 2
    MaxInFlight = 3
    MaxTime = 3
    MaxFaults = 1

SYMMETRY RequestSymmetry
INVARIANTS
    LockMatchesCounter
    LockBounded
    CounterBacked
    PasswordsKnown
    AuditMatchesAnswer
