----------------------------- MODULE MCWallJobs -----------------------------
(***************************************************************************)
(* The job table for TLC: a wall of two boards, of which the first is left *)
(* when the other is released, or of one board with another to pair.       *)
(***************************************************************************)
EXTENDS WallJobs, TLC

CONSTANTS b1, b2

TwoBoards == {b1, b2}
BothPaired == <<b1, b2>>
OnePaired  == <<b1>>
=============================================================================
