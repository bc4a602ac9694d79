---------------------------- MODULE MCBlockDiff ----------------------------
(***************************************************************************)
(* Checks the block scan of BlockDiff against its reference definitions    *)
(* over every small input: the state is one comparison input, and each     *)
(* step changes one pixel of the current frame, the previous frame, the   *)
(* block size, the threshold or the frame dimensions.                      *)
(***************************************************************************)
EXTENDS BlockDiff

CONSTANTS Dims,        \* frame dimensions <<w, h>> to explore
          Values,      \* pixel values of the current frame
          PrevValues,  \* values of the (uniform) previous frame
          BlockSizes,  \* config.blockSize values
          Thresholds   \* config.threshold values

VARIABLE in

\* Frame dimensions explored: a 3x3 frame leaves a remainder row and column
\* for 2x2 blocks, a 4x2 frame does not.
MCDims == {<<3, 3>>, <<4, 2>>}

Uniform(d, v) == [i \in 0 .. d[1] * d[2] - 1 |-> v]

Fresh(d) == [cur |-> Uniform(d, 0), prev |-> Uniform(d, 0), w |-> d[1], h |-> d[2],
             bs |-> Min(BlockSizes), thr |-> Min(Thresholds)]

Init == \E d \in Dims : in = Fresh(d)

SetPixel   == \E p \in DOMAIN in.cur, v \in Values : in' = [in EXCEPT !.cur[p] = v]
SetPrev    == \E v \in PrevValues : in' = [in EXCEPT !.prev = Uniform(<<in.w, in.h>>, v)]
SetBlock   == \E b \in BlockSizes : in' = [in EXCEPT !.bs = b]
SetThresh  == \E t \in Thresholds : in' = [in EXCEPT !.thr = t]
SetDims    == \E d \in Dims : in' = Fresh(d)

Next == SetPixel \/ SetPrev \/ SetBlock \/ SetThresh \/ SetDims

Spec == Init /\ [][Next]_in

(***************************************************************************)
(* The row-major scan with its running min/max (detect(), lines 113-142)   *)
(* counts exactly the blocks whose test passes, analyses exactly the full  *)
(* blocks of the grid, and, when any block changed, its rectangle is the   *)
(* tight bounding box of the changed blocks.                               *)
(***************************************************************************)
ScanMatchesReference ==
    LET r == CompareBlocks(in)
        S == ChangedSet(in)
    IN  /\ r.total = Cardinality(Grid(in))
        /\ r.changed = Cardinality(S)
        /\ r.changed > 0 =>
              [minX |-> r.minX, minY |-> r.minY, maxX |-> r.maxX, maxY |-> r.maxY]
                = BoundingBox(S)

(***************************************************************************)
(* The spec (section 4.2, step 4): a block changed when its mean absolute  *)
(* difference exceeds the threshold.  The code tests the truncated integer *)
(* mean (uint8_t avgDiff = blockDiff / pixelsInBlock, line 132).           *)
(* No run checks it: TLC finds it violated with MCBlockDiff.cfg's        *)
(* constants by a block whose mean lies strictly between thr and thr+1.  *)
(***************************************************************************)
BlockVerdictMatchesSpec == ChangedSet(in) = SpecChangedSet(in)
=============================================================================
