CONSTANTS
    p1 = p1
    p2 = p2
    Procs = {p1, p2}
    NoProc = NoProc
    Roles = {"import", "work", "bot", "report"}
    Files <- Lists
    Sheets <- SampleSheets
    NoName <- Unnamed
    NationalLength = 2
    MaxImports = 3
    MaxAttempts = 1
    BotGroups = {TRUE}
SYMMETRY ProcSymmetry
SPECIFICATION Spec
INVARIANT TypeOK
INVARIANT UniqueNumbers
INVARIANT FingerprintsAgree
INVARIANT ImportsAreWhole
INVARIANT ContactsAreAccountedFor
INVARIANT TalliesAddUp
INVARIANT NumbersReachTheTable
INVARIANT ReimportCreatesNothing
INVARIANT ReportAddsUp
INVARIANT AttemptsAreCounted
PROPERTY SuccessLasts
CHECK_DEADLOCK FALSE
