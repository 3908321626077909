CONSTANTS
    Size = 5
    Names = {a, b}
SPECIFICATION FairSpec
INVARIANTS
    TypeOK
    RangesExact
    NothingLost
    ChildrenKept
    GroupsContiguous
PROPERTY Terminates
CHECK_DEADLOCK FALSE
