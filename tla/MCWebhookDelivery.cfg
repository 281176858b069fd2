CONSTANTS
    w1 = w1
    w2 = w2
    e1 = e1
    e2 = e2
    Webhooks = {w1, w2}
    Events = {e1, e2}
    Subscribers <- Subscriptions
    MaxAttempts = 2
    MaxTries = 2
    MaxRuns = 2
SPECIFICATION Spec
INVARIANT TypeOK
INVARIANT OnlySubscribers
INVARIANT FanOutIsIsolated
INVARIANT FailuresAreCounted
PROPERTY DeliveredAsJob
CHECK_DEADLOCK FALSE
