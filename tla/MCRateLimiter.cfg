CONSTANTS
    ip = ip
    key = key
    email = email
    Requests = {r1, r2}
    IpKeys = {ip}
    ApiKeys = {key}
    EmailKeys = {email}
    Limit <- Limits
    Window <- Windows
    MaxTime = 2
SYMMETRY Symmetry
SPECIFICATION Spec
INVARIANT TypeOK
INVARIANT WindowBound
INVARIANT RefusalIsJustified
