CONSTANTS
    Requests = {r1, r2}
    Sends = {w1, w2}
    None = None
    Scopes = {s1}
    Codes = {c1}
    MaxAttempts = 1
    Expiry = 1
    MaxOtps = 2
    MaxTime = 2
SPECIFICATION FairSpec
INVARIANT UnexpiredKept
INVARIANT SupersededUnlessConsumed
PROPERTY EventuallyPurged
