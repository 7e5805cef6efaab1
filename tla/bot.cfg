CONSTANTS
    c1 = c1
    Contacts = {c1}
    Stranger = Stranger
    Environments <- Edited
    MaxUpdates = 2
    MaxOffset = 4
    MaxAborts = 2
SPECIFICATION Spec
INVARIANT TypeOK
INVARIANT HandledOnlyOnce
INVARIANT StartsAreAnswered
INVARIANT SharersAreServed
INVARIANT InvitedWasThere
CHECK_DEADLOCK FALSE
