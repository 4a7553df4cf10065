CONSTANTS
    Proc = {p1, p2, p3}
    Locks = {1, 2}
    MaxCalls = 2
SPECIFICATION LockSpec
INVARIANTS WriterExcludes LockstructAgrees
PROPERTIES ImplementsRWLock EveryCallReturns
