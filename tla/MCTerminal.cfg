CONSTANTS
    Reader = {r1, r2}
    Ordinary = {a}
    LineEnd = {nl}
    MAX_INPUT = 4
    Lengths = {0, 2}
SPECIFICATION Spec
INVARIANT LineReaderMissesNothing
PROPERTIES ImplementsTty
CHECK_DEADLOCK FALSE
