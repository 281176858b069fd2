CONSTANTS
    Requests = {r1, r2, r3}
    Sends = {w1}
    None = None
    Scopes = {s1, s2}
    Codes = {c1, c2}
    MaxAttempts = 2
    Expiry = 0
    MaxOtps = 1
    MaxTime = 1
SPECIFICATION Spec
SYMMETRY Symmetry
INVARIANT TypeOK
INVARIANT LimitsWithoutOverlap
INVARIANT ComparedIsCounted
PROPERTY AcceptOnlyTheHolder
PROPERTY RemainingIsHonest
PROPERTY SingleUse
