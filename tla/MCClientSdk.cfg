SPECIFICATION SdkFairSpec
CONSTANTS
    Sdks <- AllSdks
    MaxCalls <- Repeats
    MaxAttempts = 2
INVARIANT SdkTypeOK
INVARIANT AnswersAreTrue
INVARIANT OneResultPerCode
INVARIANT LimitedUnlessGivenUp
PROPERTY EventuallyEnds
CHECK_DEADLOCK FALSE
