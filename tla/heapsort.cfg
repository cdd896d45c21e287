SPECIFICATION SortSpec
CONSTANTS
    MaxSize = 6
    Times = {1, 2, 3, 4}
INVARIANTS
    EntriesKept
    ScheduleSorted
CHECK_DEADLOCK FALSE
