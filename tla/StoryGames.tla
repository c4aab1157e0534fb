----------------------------- MODULE StoryGames -----------------------------
(***************************************************************************)
(* The generation of a memoir's games and the page that shows them, in one *)
(* database: StoryGame and StoryGamePage together.                         *)
(*                                                                         *)
(* stage_story_game links the game it publishes to the page in its own     *)
(* transaction; from then on the page shows the row of the game, so that   *)
(* what makes the game stale needs no call of the page.  A response that   *)
(* is being sent holds the rows that the other functions lock first.       *)
(* Games of local debugging, whose mode is another, are left out here.     *)
(***************************************************************************)
EXTENDS StoryGame, StoryGamePage

VARIABLE origin  \* the game each content of the page is, or 0 for an example

jointVars == <<vars, pageVars, origin>>

-----------------------------------------------------------------------------
JointInit == Init /\ PageInit /\ origin = <<>>

\* The contents so far: the page shows the row of a game while it is published.
Followed(gs) ==
  [c \in DOMAIN contents |->
     IF origin[c] # 0 /\ gs[origin[c]].state # "published"
     THEN [contents[c] EXCEPT !.state = "stale"] ELSE contents[c]]

\* The game a step publishes.
Staged == {g \in GameIds : games[g].state # "published" /\ games'[g].state = "published"}

\* stage_story_game calls link_story_game_page, which takes the page's row.
Links(g) ==
  /\ ~PageLocked
  /\ Len(contents) < MaxContents
  /\ page.revision < MaxRevision
  /\ contents' = Append(Followed(games'), [kind |-> "game", authority |-> games[g].authority,
                                           state |-> "published"])
  /\ page' = Linked(Len(contents'))
  /\ guests' = {}
  /\ origin' = Append(origin, g)

\* Every other change of games is one of the page as well.
Follows ==
  /\ contents' = Followed(games')
  /\ UNCHANGED <<page, guests, origin>>

\* Time takes leases without a lock; whoever changes a game, or what games are
\* bound to, locks the project first.
TakesLock ==
  \/ authority' # authority
  \/ \E g \in GameIds : games'[g] \notin {games[g], [games[g] EXCEPT !.live = FALSE]}

Generates ==
  /\ Next
  /\ TakesLock => ~ProjectLocked
  /\ IF Staged = {} THEN Follows ELSE \E g \in Staged : Links(g)
  /\ UNCHANGED <<invitations, seen, reader, sharedFrom>>

\* save_story_game_example
ShowsExample ==
  /\ Publish("example")
  /\ origin' = Append(origin, 0)
  /\ UNCHANGED vars

UsesPage == Uses /\ UNCHANGED <<vars, origin>>

JointNext == Generates \/ ShowsExample \/ UsesPage

JointSpec == JointInit /\ [][JointNext]_jointVars

-----------------------------------------------------------------------------
(* Properties.                                                             *)

\* What the page takes for granted, its games deliver: one at a time, begun
\* under what holds when it is shown, each stale when it ought to be and never
\* taken back otherwise.  The page behaves as StoryGamePage says whatever
\* workers, late calls and changes of the memoir do to the games behind it.
PublicationHolds == PageSpec /\ PublishedStays

\* Whoever is being sent a game is sent, to the last byte, the scenes its owner
\* confirmed, of the edition that is active and under a consent that stands.
SentAsDecided ==
  \A x \in Readers : reader[x].pc = "sending" /\ IsGame(reader[x].content) =>
    LET g == origin[reader[x].content]
    IN /\ Locks(g)
       /\ games[g].state = "published"
       /\ games[g].candidate = IF chosen[g] = "none" THEN "all" ELSE chosen[g]
=============================================================================
