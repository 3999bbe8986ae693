SPECIFICATION Spec
CONSTANTS
    None = None
    Null = Null
    root = root
    ann = ann
    bob = bob
    eve = eve
    dan = dan
    rootMail = rootMail
    annMail = annMail
    bobMail = bobMail
    good = good
    fresh = fresh
    Ids = {root, ann, bob, eve, dan}
    Emails = {rootMail, annMail, bobMail}
    Passwords = {good, fresh}
    Requests = {r1, r2, r3}
    Calls <- DirectoryCalls
    Seed <- DirectorySeed
    SeedTokens <- BothSessions
    MaxAttempts = 2
    LockDuration = 2
    AccessTtl = 1
    RefreshTtl = 1
    MaxInFlight = 3
    MaxTime = 0
    MaxFaults = 1

SYMMETRY DirectorySymmetry
INVARIANTS
    TypeOK
    LiveEmailUnique
    NoSpuriousError
    AuditMatchesAnswer
    StatusTrail
    AuthorityTraceable
PROPERTIES
    EmailRegistryHolds
