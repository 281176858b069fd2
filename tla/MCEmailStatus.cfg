CONSTANTS
    Mails = {m1}
    MagicMails = {}
    StatusCheck <- ShippedStatuses
    TypeCheck <- ShippedTypes
    MaxAttempts = 3
    MaxTries = 1
SPECIFICATION ReliableSpec
INVARIANT SuccessIsLogged
