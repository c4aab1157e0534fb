---------------------------- MODULE StoryContext ----------------------------
(***************************************************************************)
(* What the games of a memoir are made from: its active edition, the       *)
(* consent to adapt it, the private draft and the mode of the conversation *)
(* (story_game_context).  A game and the page that shows it are bound to   *)
(* the version of all of them that the game was begun under.               *)
(***************************************************************************)
EXTENDS Naturals

CONSTANT MaxAuthority  \* bound: changes of what games are bound to

VARIABLE authority     \* the version of edition, consent, draft and mode

\* One of them changes.
Moves == authority < MaxAuthority /\ authority' = authority + 1
=============================================================================
