-------------------------- MODULE MCStoryGamePage --------------------------
(* StoryGamePage on a small instance. *)
EXTENDS StoryGamePage, TLC

ReaderSymmetry == Permutations(Viewers) \cup Permutations(Devices)
=============================================================================
