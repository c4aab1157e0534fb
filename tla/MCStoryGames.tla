---------------------------- MODULE MCStoryGames ----------------------------
(* StoryGames on a small instance. *)
EXTENDS StoryGames
=============================================================================
