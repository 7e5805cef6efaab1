CONSTANTS
    p1 = p1
    p2 = p2
    Procs = {p1, p2}
    NoProc = NoProc
    Roles = {"import", "work", "bot"}
    Files <- Lists
    Sheets <- SampleSheets
    NoName <- Unnamed
    NationalLength = 2
    MaxImports = 1
    MaxAttempts = 3
    BotGroups = {TRUE, FALSE}
SPECIFICATION Spec
PROPERTY SuccessIsTerminal
CHECK_DEADLOCK FALSE
