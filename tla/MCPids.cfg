CONSTANTS
    Slot = {s1, s2, s3, s4}
    PID_MIN = 2
    PID_MAX = 4
SPECIFICATION Spec
SYMMETRY Slots
INVARIANTS PidsUnique BitmapAgrees
PROPERTIES GivesUpOnlyWhenFull
