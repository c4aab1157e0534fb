---------------------------- MODULE MCStoryGame ----------------------------
(* StoryGame on a small instance. *)
EXTENDS StoryGame, TLC

WorkerSymmetry == Permutations(Workers)
=============================================================================
