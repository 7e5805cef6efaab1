CONSTANTS
    c1 = c1
    c2 = c2
    Contacts = {c1}
    Environments <- Edited
    Commands <- DryRuns
    MaxRetries = 2
    MaxCommands = 1
    MaxLost = 0
    ImportsAnyTime = TRUE
SPECIFICATION FairSpec
PROPERTY DryRunKeepsStatuses
CHECK_DEADLOCK FALSE
