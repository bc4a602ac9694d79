\* Grayscale path: baselines, dimension changes, allocation failure, size
\* filter bounds, cooldown across clock wraps, reset and setConfig.
CONSTANTS
    Blank = Blank  Corner = Corner  Pair = Pair  Diag = Diag  Narrow = Narrow  Big = Big
    J100 = J100  J125 = J125  J300 = J300
    GrayFrames = {Blank, Corner, Pair, Diag, Narrow}
    JpegFrames = {}
    InvalidFrame = InvalidFrame
    OtherFrame = OtherFrame
    NoFrame = NoFrame
    Never = Never
    FrameWidth <- MCFrameWidth
    FrameHeight <- MCFrameHeight
    FramePixels <- MCFramePixels
    FrameLen <- MCFrameLen
    DefaultConfig <- MCDefaultConfig
    Configs <- MCConfigs
    ClockMod = 8
    TickSizes = {1}
SPECIFICATION Spec
INVARIANT TypeOK
PROPERTY CooldownRefinement
PROPERTY SuppressionEnds
