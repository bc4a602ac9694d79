\* Spec sections 6 and 9: reset() clears the history, so warm-up restarts.
CONSTANTS
    Blank = Blank  Corner = Corner  Pair = Pair  Diag = Diag  Narrow = Narrow  Big = Big
    J100 = J100  J125 = J125  J300 = J300
    GrayFrames = {Big}
    JpegFrames = {J100, J125, J300}
    InvalidFrame = InvalidFrame
    OtherFrame = OtherFrame
    NoFrame = NoFrame
    Never = Never
    FrameWidth <- MCFrameWidth
    FrameHeight <- MCFrameHeight
    FramePixels <- MCFramePixels
    FrameLen <- MCFrameLen
    DefaultConfig <- MCJpegConfig
    Configs = {}
    ClockMod = 2
    TickSizes = {1}
SPECIFICATION Spec
PROPERTY JpegWarmupAfterReset
