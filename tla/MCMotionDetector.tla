-------------------------- MODULE MCMotionDetector --------------------------
(***************************************************************************)
(* Model values and definitions that instantiate MotionDetector for TLC.  *)
(*                                                                         *)
(* Gray frames are 4x4 images made of four uniform 2x2 blocks, so the      *)
(* block grid with blockSize 2 is 2x2 and one block covers 25% of the      *)
(* frame.  Narrow is a 4x2 frame, a change of dimensions.  Big is a        *)
(* 256x256 frame, used only with blockSize 256.  JPEG frames differ only   *)
(* in length; 4x4 dimensions give their centred quarter box.               *)
(***************************************************************************)
EXTENDS MotionDetector

CONSTANTS Blank, Corner, Pair, Diag, Narrow, Big,   \* grayscale frames
          J100, J125, J300                          \* JPEG frames

\* A 4x4 buffer whose 2x2 block (bx, by) has the value v[1 + bx + 2 * by].
Blocks4x4(v) == [i \in 0 .. 15 |-> v[1 + (i % 4) \div 2 + 2 * ((i \div 4) \div 2)]]

MCFrameWidth(f)  == IF f = Big THEN 256 ELSE 4
MCFrameHeight(f) == CASE f = Big -> 256 [] f = Narrow -> 2 [] OTHER -> 4

MCFramePixels(f) ==
    CASE f = Blank  -> Blocks4x4(<<0, 0, 0, 0>>)
      [] f = Corner -> Blocks4x4(<<100, 0, 0, 0>>)
      [] f = Pair   -> Blocks4x4(<<100, 100, 0, 0>>)
      [] f = Diag   -> Blocks4x4(<<100, 0, 0, 100>>)
      [] f = Narrow -> [i \in 0 .. 7 |-> 0]
      [] f = Big    -> [i \in 0 .. 256 * 256 - 1 |-> 0]

MCFrameLen(f) ==
    CASE f = J100 -> 100 [] f = J125 -> 125 [] f = J300 -> 300

\* The constructor's defaults (lines 42-46) with the block size and the
\* cooldown scaled to the model's 4x4 frames and its clock.
MCDefaultConfig == [threshold |-> 25, minSizePercent |-> 1, maxSizePercent |-> 30,
                    blockSize |-> 2, cooldownMs |-> 2]

\* One block (25%) sits on the lower bound and two blocks (50%) on the upper.
MCTightConfig == [threshold |-> 25, minSizePercent |-> 25, maxSizePercent |-> 50,
                  blockSize |-> 2, cooldownMs |-> 3]

\* One block is too small, the whole frame is accepted.
MCCoarseConfig == [threshold |-> 25, minSizePercent |-> 30, maxSizePercent |-> 100,
                   blockSize |-> 2, cooldownMs |-> 2]

MCConfigs == {MCDefaultConfig, MCTightConfig, MCCoarseConfig}

\* The JPEG runs keep one configuration with a 1 ms cooldown, on a clock
\* that wraps every 2 ms: the ring of sizes is the part of the state that
\* matters there.  Its block size, 256, is a VGA-class value whose square
\* wraps to 0 in uint16_t: the one grayscale frame of those runs, Big,
\* makes every comparison divide by zero.
MCJpegConfig == [MCDefaultConfig EXCEPT !.cooldownMs = 1, !.blockSize = 256]
=============================================================================
