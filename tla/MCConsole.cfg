SPECIFICATION ConsoleSpec
CONSTANTS
    p1 = p1
    p2 = p2
    Null = Null
    Writer = {p1, p2}
    Texts <- MCTexts
    Opens <- MCOpens
    Screens = 3
    NRows = 2
    NCols = 1
    Tab = 2
    MAX_OUTPUT = 7
    OUTPUT_MARGIN = 3
    Typed <- MCTyped
    LockKey = {"capslock"}
    MaxWrites = 1
    MaxStrokes = 2
INVARIANT OutputbufFits
PROPERTY ScreensKept
CHECK_DEADLOCK FALSE
