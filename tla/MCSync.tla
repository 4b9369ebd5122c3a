------------------------------- MODULE MCSync -------------------------------
(* Small instances of Sync for TLC.                                        *)
EXTENDS SyncInv, TLC

Symmetry == Permutations(Thread) \cup Permutations(TermCond)

(* The wall clock stands still, moves on, jumps past every deadline or is  *)
(* set back.                                                               *)
ClockSteps == {-1, 0, 1, 3}

=============================================================================
