SPECIFICATION TrailSpec
CONSTANTS
    None = None
    Null = Null
    root = root
    ann = ann
    bob = bob
    eve = eve
    dan = dan
    rootMail = rootMail
    annMail = annMail
    bobMail = bobMail
    good = good
    fresh = fresh
    Ids = {ann, root}
    Emails = {rootMail, annMail, bobMail}
    Passwords = {good, fresh}
    Requests = {r1, r2, r3}
    Calls <- TrailCalls
    Seed <- SmallSeed
    SeedTokens <- RootSession
    MaxAttempts = 2
    LockDuration = 1
    AccessTtl = 2
    RefreshTtl = 2
    MaxInFlight = 1
    MaxTime = 1
    MaxFaults = 1
    PageSize = 1
    Filters <- TrailFilters
    Auditor <- RootToken
    Hours = 1

SYMMETRY RequestSymmetry
INVARIANTS
    TrailTypeOK
    WalkMissesNothing
    SummaryExact
PROPERTIES
    EvidenceHolds
