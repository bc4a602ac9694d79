CONSTANTS
    Dims <- MCDims
    Values = {0, 1, 3}
    PrevValues = {0, 1, 3}
    BlockSizes = {1, 2}
    Thresholds = {0, 1, 2}
SPECIFICATION Spec
INVARIANT ScanMatchesReference
