--------------------------- MODULE MCMemoirLanes ---------------------------
(* Model values for MemoirLanes. *)
EXTENDS MemoirLanes, TLC
RunSymmetry == Permutations(Runs)
=============================================================================
