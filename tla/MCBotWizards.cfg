CONSTANTS
    MaxStarts = 2
    MaxSaves = 2
    MaxRestarts = 1
SPECIFICATION Spec
INVARIANT TypeOK
INVARIANT SendersAreVerified
INVARIANT PreviewBeforeSaving
PROPERTY UndisturbedWritesItsOwn
CHECK_DEADLOCK FALSE
