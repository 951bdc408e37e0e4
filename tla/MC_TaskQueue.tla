---------------------------- MODULE MC_TaskQueue ----------------------------
(***************************************************************************)
(* Instances of TaskQueue for TLC.  Threads, pushers and tasks are only    *)
(* compared, so permuting each set changes nothing; the symmetry is used   *)
(* for safety properties alone.                                            *)
(***************************************************************************)
EXTENDS TaskQueue, TLC

Symmetry == Permutations(Threads) \cup Permutations(Pushers) \cup Permutations(Tasks)
ThreadSymmetry == Permutations(Threads)
=============================================================================
