\* JPEG size heuristic: warm-up, rolling average, deviation bands, and the
\* cooldown it shares with the grayscale path; a 256x256 grayscale frame with
\* blockSize 256 makes the comparison divide by zero and reboot the device.
CONSTANTS
    Blank = Blank  Corner = Corner  Pair = Pair  Diag = Diag  Narrow = Narrow  Big = Big
    J100 = J100  J125 = J125  J300 = J300
    GrayFrames = {Big}
    JpegFrames = {J100, J125, J300}
    InvalidFrame = InvalidFrame
    OtherFrame = OtherFrame
    NoFrame = NoFrame
    Never = Never
    FrameWidth <- MCFrameWidth
    FrameHeight <- MCFrameHeight
    FramePixels <- MCFramePixels
    FrameLen <- MCFrameLen
    DefaultConfig <- MCJpegConfig
    Configs = {}
    ClockMod = 2
    TickSizes = {1}
SPECIFICATION Spec
INVARIANT TypeOK
PROPERTY CooldownRefinement
