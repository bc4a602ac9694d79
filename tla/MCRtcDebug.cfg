\* Both RTC stores across resets and power losses.
CONSTANTS
    n1 = n1
    n2 = n2
    none = none
    unknown = unknown
    running = running
    error = error
    MaxSnapshots = 3
    Heaps = {1, 2, 4}
    DropThreshold = 2
    SummaryLen = 2
    MaxBreadcrumbs = 2
    Names <- MCNames
    NoName = none
    CompCount = 1
    Statuses <- MCStatuses
    Unknown = unknown
    MaxBoots = 3

SPECIFICATION Spec
INVARIANT TypeOK
INVARIANT SummaryIsNewestPrinted
INVARIANT LatestIsLastTaken
INVARIANT MemoryDropSound
PROPERTY SnapshotLogRefinement
PROPERTY TrailLogRefinement
