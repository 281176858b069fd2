CONSTANTS
    s1 = s1
    s2 = s2
    Projects = {p1, p2}
    Senders = {s1, s2}
    None = None
    Limits = {0, 1, 2}
    InitialLimit <- OneAndTwo
    DefaultLimit = 2
    Threshold <- Half
    TTL = 2
    FailingProjects = {p1}
    MaxMails = 2
    MaxTime = 2
    MaxEdits = 1
    MaxStops = 1
SPECIFICATION FairSpec
INVARIANT TypeOK
INVARIANT CounterCoversDay
PROPERTY RotationIsJustified
PROPERTY EventuallyRotated
