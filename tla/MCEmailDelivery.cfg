CONSTANTS
    Mails = {m1, m2}
    MagicMails = {m2}
    StatusCheck <- AllStatuses
    TypeCheck <- AllTypes
    MaxAttempts = 2
    MaxTries = 2
SPECIFICATION FairSpec
INVARIANT TypeOK
INVARIANT UsageNotAhead
PROPERTY EventuallyFinished
PROPERTY MailedAsJob
