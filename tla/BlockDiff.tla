----------------------------- MODULE BlockDiff -----------------------------
(***************************************************************************)
(* The block comparison at the heart of MotionDetector::detect()           *)
(* (src/scout_arduino/motion_detect.h, lines 110-142), as pure operators.  *)
(*                                                                         *)
(* A grayscale frame is its byte buffer: a function from the row-major     *)
(* index 0 .. w*h-1 to a pixel value 0..255.  An input to the comparison   *)
(* is a record                                                             *)
(*   [cur, prev, w, h, bs, thr]                                            *)
(* holding the current and previous buffers, the frame dimensions, and     *)
(* config.blockSize and config.threshold.                                  *)
(*                                                                         *)
(* The operators keep the widths of the C variables that can overflow:     *)
(* pixelsInBlock is a uint16_t and avgDiff a uint8_t.                      *)
(***************************************************************************)
EXTENDS Integers, FiniteSetsExt

U8  == 256      \* values of a uint8_t
U16 == 65536    \* values of a uint16_t

AbsDiff(a, b) == IF a >= b THEN a - b ELSE b - a

\* blocksX / blocksY: integer division, the remainder columns and rows of
\* pixels are not analysed.
BlocksX(in) == in.w \div in.bs
BlocksY(in) == in.h \div in.bs

\* uint16_t pixelsInBlock = config.blockSize * config.blockSize;
PixelsInBlock(bs) == (bs * bs) % U16

\* blockDiff: the sum of |cur - prev| over the pixels of block (bx, by).
BlockDiffSum(in, bx, by) ==
    MapThenSumSet(
        LAMBDA o : LET idx == (by * in.bs + o[2]) * in.w + (bx * in.bs + o[1])
                   IN  AbsDiff(in.cur[idx], in.prev[idx]),
        (0 .. in.bs - 1) \X (0 .. in.bs - 1))

\* uint8_t avgDiff = blockDiff / pixelsInBlock;  (integer division, then
\* truncation to 8 bits).  Only defined when PixelsInBlock is not zero.
AvgDiff(in, bx, by) == (BlockDiffSum(in, bx, by) \div PixelsInBlock(in.bs)) % U8

\* The block's verdict in the code: avgDiff > config.threshold.
BlockChanged(in, bx, by) == AvgDiff(in, bx, by) > in.thr

(***************************************************************************)
(* The scan of lines 113-142: blocks are visited row by row; a changed     *)
(* block increments changedBlocks and widens the rectangle [minX..maxX] x  *)
(* [minY..maxY], which starts as minX = blocksX, minY = blocksY, maxX =    *)
(* maxY = 0.  Block k of the scan is (k % blocksX, k \div blocksX).        *)
(***************************************************************************)
\* Fault: the running minimum starts at 0 instead of blocksX / blocksY.
ScanStartZeroMin(in) ==
    [changed |-> 0, total |-> BlocksX(in) * BlocksY(in),
     minX |-> 0, minY |-> 0, maxX |-> 0, maxY |-> 0]

ScanStart(in) ==
    [changed |-> 0, total |-> BlocksX(in) * BlocksY(in),
     minX |-> BlocksX(in), minY |-> BlocksY(in), maxX |-> 0, maxY |-> 0]

ScanBlock(in, acc, bx, by) ==
    IF BlockChanged(in, bx, by)
    THEN [acc EXCEPT !.changed = @ + 1,
                     !.minX = Min({@, bx}), !.minY = Min({@, by}),
                     !.maxX = Max({@, bx}), !.maxY = Max({@, by})]
    ELSE acc

CompareBlocks(in) ==
    LET nx == BlocksX(in)
        RECURSIVE Loop(_, _)
        Loop(k, acc) ==
            IF k = acc.total THEN acc
            ELSE Loop(k + 1, ScanBlock(in, acc, k % nx, k \div nx))
    IN  Loop(0, ScanStart(in))

(***************************************************************************)
(* Reference definitions, stated over sets rather than as a loop.          *)
(***************************************************************************)
Grid(in) == (0 .. BlocksX(in) - 1) \X (0 .. BlocksY(in) - 1)

\* The blocks the code's per-block test marks as changed.
ChangedSet(in) == {b \in Grid(in) : BlockChanged(in, b[1], b[2])}

\* The blocks whose mean absolute difference exceeds the threshold, as the
\* spec words it (section 4.2, step 4): sum / pixels > threshold.
SpecChangedSet(in) ==
    {b \in Grid(in) : BlockDiffSum(in, b[1], b[2]) > in.thr * in.bs * in.bs}

\* The tight bounding rectangle, in block coordinates, of a set of blocks.
BoundingBox(S) ==
    [minX |-> Min({b[1] : b \in S}), minY |-> Min({b[2] : b \in S}),
     maxX |-> Max({b[1] : b \in S}), maxY |-> Max({b[2] : b \in S})]
=============================================================================
