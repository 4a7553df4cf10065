CONSTANTS
    Proc = {p1, p2}
    FirstProc = p1
    NObj = 5
    MaxCalls = 2
    NFrame = 3
    LastAddr = 1
    Value = {2}
    Ranges <- MCRanges
    Zero = 0
    FilePage <- MCFilePage
    Layouts <- MCLayouts
    None = None
    Nobody = Nobody
SPECIFICATION VmSpec
INVARIANTS CountsExact FramesAccounted LocksComeFree
PROPERTIES ImplementsPrivateMemory
CHECK_DEADLOCK FALSE
