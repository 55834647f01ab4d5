SPECIFICATION Spec
CONSTANTS
    Paths <- AllPaths
    Existing <- ThatExist
    Unreadable = {"dir"}
    Entry = "entry"
    Graphs <- SmallGraphs
    Depths = {0, 1, 2, 3}
    Limits = {0, 2, 3, 4}
INVARIANTS WalkInv CompleteUnlessTruncated OnlyReached
CHECK_DEADLOCK FALSE
