------------------------- MODULE MCFramebufferDebug -------------------------
(***************************************************************************)
(* Two camera tasks sharing a driver with two framebuffers.  The leak     *)
(* threshold is scaled from 3 to 1 so that two outstanding buffers exceed *)
(* it; the stale timeout is one millisecond of a three-millisecond run.    *)
(***************************************************************************)
EXTENDS FramebufferDebug, TLC

CONSTANTS t1, t2

MCTasks == {t1, t2}

\* The two tasks run the same code.
Symmetry == Permutations(MCTasks)
=============================================================================
