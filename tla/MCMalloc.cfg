CONSTANTS
    PAGESIZE = 4
    SmallSizes = {1, 2}
    nr_of_mcbs = 4
    mcbpages = 1
    totpages = 4
    SearchSizes = {1, 2, 4, 8}
    Lengths = {1, 2, 3, 6, 9}
    MaxBlocks = 5
SPECIFICATION Spec
INVARIANTS BlocksCanBeFreed NothingLeaks RefusesOnlyNearlyFull
PROPERTIES ImplementsHeap
