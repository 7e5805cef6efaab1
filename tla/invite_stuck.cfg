CONSTANTS
    c1 = c1
    c2 = c2
    Contacts = {c1}
    Environments <- Usual
    Commands <- RealRuns
    MaxRetries = 2
    MaxCommands = 1
    MaxLost = 0
    ImportsAnyTime = TRUE
SPECIFICATION FairSpec
INVARIANT StuckIsSentTheLink
CHECK_DEADLOCK FALSE
