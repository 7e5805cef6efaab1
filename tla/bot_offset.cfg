CONSTANTS
    c1 = c1
    Contacts = {c1}
    Stranger = Stranger
    Environments <- Usual
    MaxUpdates = 2
    MaxOffset = 4
    MaxAborts = 0
SPECIFICATION Spec
INVARIANT NoUpdateSkipped
CHECK_DEADLOCK FALSE
