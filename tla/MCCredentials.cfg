CONSTANTS
    Keys = {live, test}
    Sandbox = {test}
    Production = TRUE
    Tokens = {t1}
    None = None
    Requests = {r1}
    Verifications = {v1}
    Revocations = {c1, c2}
    Second = 2
    Lifetime = 4
    MaxTime = 6
SPECIFICATION Spec
SYMMETRY CallSymmetry
INVARIANT TypeOK
INVARIANT RevokedKeysRefused
INVARIANT RevokedTokensRefused
