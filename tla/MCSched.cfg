CONSTANTS
    Proc = {p1, p2, p3, p4}
    NULL = NULL
    Chan = {c1}
    Console = Console
    Resident = p4
    First = p1
    Killable = {p2, p3}
    Handling = {p2, p3}
SPECIFICATION Spec
SYMMETRY Descendants
INVARIANTS QueuesSound QueueMatchesStatus IdleOnlyWhenNobodyRuns ChildrenAccounted
PROPERTIES ImplementsProcLife
