CONSTANTS
    c1 = c1
    c2 = c2
    Contacts = {c1}
    Environments <- Edited
    Commands <- AllCommands
    MaxRetries = 2
    MaxCommands = 2
    MaxLost = 1
    ImportsAnyTime = FALSE
SPECIFICATION FairSpec
INVARIANT TypeOK
INVARIANT StrangersLeftAlone
INVARIANT SendsAreRecorded
INVARIANT SuccessIsFollowedUp
INVARIANT RecordedIsReal
INVARIANT RepeatedOnlyIfUnheard
PROPERTY InvitedOnlyOnce
PROPERTY DryRunIsSilent
PROPERTY DryRunOnlySkips
PROPERTY RunEnds
CHECK_DEADLOCK FALSE
