--------------------------- MODULE StoryGamePage ---------------------------
(***************************************************************************)
(* The page of one memoir project that shares a story game: the tables     *)
(* user_story_game_page and user_story_game_invitation with the functions  *)
(* over them, StoryGameResponse, which reads and sends the page under one  *)
(* transaction, and the owner's browsers (StoryGamePage.jsx).              *)
(*                                                                         *)
(* A content is one artifact the page has shown: a game, a game generated  *)
(* in local debugging, or a labelled example.  How a game is generated is  *)
(* the subject of StoryGame; here a game is published at once.             *)
(***************************************************************************)
EXTENDS StoryContext, Sequences

CONSTANTS
  Viewers,        \* accounts other than the owner's, each with a confirmed address
  Devices,        \* browsers the owner has signed in
  MaxContents,    \* bound: artifacts published on the page
  MaxRevision     \* bound: changes of the page

ASSUME ReadersAssumption == Viewers \cap Devices = {}
ASSUME PageBoundsAssumption == MaxContents \in Nat /\ MaxAuthority \in Nat /\ MaxRevision \in Nat

VARIABLES
  contents,     \* the artifacts, in the order they were published
  page,         \* the page's row
  invitations,  \* by viewer and content revision
  seen,         \* what each device of the owner shows
  reader,       \* the request each viewer and each device has open
  guests,       \* viewers the owner invited to this content and has not removed
  sharedFrom    \* the content on the device that last set the visibility

pageVars == <<authority, contents, page, invitations, seen, reader, guests, sharedFrom>>

-----------------------------------------------------------------------------
Readers == Viewers \cup Devices
Visibility == {"private", "friends", "public"}

Content == [kind : {"game", "debug", "example"}, authority : 0..MaxAuthority,
            state : {"published", "stale"}]
Page == [content : 0..MaxContents, visibility : Visibility, revision : 0..MaxRevision,
         content_revision : 0..MaxContents]
Invitation == [sent : BOOLEAN, accepted : BOOLEAN, revoked : BOOLEAN, expired : BOOLEAN]
Shown == [content : 0..MaxContents, visibility : Visibility, revision : 0..MaxRevision,
          guests : SUBSET Viewers]
Request == [pc : {"idle", "peeked", "sending"}, content : 0..MaxContents,
            content_revision : 0..MaxContents]

NoPage == [content |-> 0, visibility |-> "private", revision |-> 0, content_revision |-> 0]
NoInvitation == [sent |-> FALSE, accepted |-> FALSE, revoked |-> FALSE, expired |-> FALSE]
IdleReader == [pc |-> "idle", content |-> 0, content_revision |-> 0]

PageInit ==
  /\ authority = 0
  /\ contents = <<>>
  /\ page = NoPage
  /\ invitations = [v \in Viewers |-> [c \in 1..MaxContents |-> NoInvitation]]
  /\ seen = [d \in Devices |->
              [content |-> 0, visibility |-> "private", revision |-> 0, guests |-> {}]]
  /\ reader = [x \in Readers |-> IdleReader]
  /\ guests = {}
  /\ sharedFrom = 0

IsGame(c) == c # 0 /\ contents[c].kind # "example"

\* Mutant: the transaction ends before the body is sent.
PageLocked_UntilRead == FALSE

\* A response is sent inside the transaction that read it: until then it holds
\* the page's row, and the project's row if the page shows a game.
PageLocked == \E x \in Readers : reader[x].pc = "sending"
ProjectLocked == \E x \in Readers : reader[x].pc = "sending" /\ IsGame(reader[x].content)

-----------------------------------------------------------------------------
(* What games are made from, and their publication.                        *)

StaleContents(S) ==
  [c \in DOMAIN contents |->
     IF c \in S THEN [contents[c] EXCEPT !.state = "stale"] ELSE contents[c]]

Games == {c \in DOMAIN contents : IsGame(c)}

\* The edition is retired, or consent to it is withdrawn or given anew: the
\* trigger invalidate_story_games.
PageWithdraw ==
  /\ ~ProjectLocked
  /\ Moves
  /\ contents' = StaleContents(Games)
  /\ UNCHANGED <<page, invitations, seen, reader, guests, sharedFrom>>

\* The private draft or the conversation's mode changes; games keep their state.
Shift ==
  /\ ~ProjectLocked
  /\ Moves
  /\ UNCHANGED <<contents, page, invitations, seen, reader, guests, sharedFrom>>

\* begin_story_game: games bound to something else are stale.  A game of local
\* debugging is bound to something else than one begun in the ordinary way.
PageBegin ==
  /\ ~ProjectLocked
  /\ \E alsoDebug \in BOOLEAN :
       contents' = StaleContents({c \in Games :
         contents[c].authority # authority \/ (alsoDebug /\ contents[c].kind = "debug")})
  /\ UNCHANGED <<authority, page, invitations, seen, reader, guests, sharedFrom>>

\* Mutants: the page counts no new content, or stays as it is shared; a browser cannot
\* tell the new content from the old one.
Linked_SameContent(content) ==
  [content |-> content, visibility |-> "private", revision |-> page.revision + 1,
   content_revision |-> IF page.revision = 0 THEN 1 ELSE page.content_revision]
Linked_KeepsVisibility(content) ==
  [content |-> content, visibility |-> page.visibility, revision |-> page.revision + 1,
   content_revision |-> page.content_revision + 1]
Linked_SameRevision(content) ==
  [content |-> content, visibility |-> "private",
   revision |-> IF page.revision = 0 THEN 1 ELSE page.revision,
   content_revision |-> page.content_revision + 1]

\* link_story_game_page and save_story_game_example: other content, private.
Linked(content) ==
  [content |-> content, visibility |-> "private", revision |-> page.revision + 1,
   content_revision |-> page.content_revision + 1]

\* stage_story_game of the one current game, or save_story_game_example.
Publish(kind) ==
  /\ ~PageLocked
  /\ Len(contents) < MaxContents
  /\ page.revision < MaxRevision
  /\ kind # "example" => \A c \in Games : contents[c].state = "stale"
  /\ contents' = Append(contents, [kind |-> kind, authority |-> authority,
                                   state |-> "published"])
  /\ page' = Linked(Len(contents'))
  /\ guests' = {}
  /\ UNCHANGED <<authority, invitations, seen, reader, sharedFrom>>

-----------------------------------------------------------------------------
(* Reading the page.                                                       *)

\* Mutant: an invitation to an earlier content of the page still counts.
Allowed_AnyContent(x) ==
  \/ x \in Devices
  \/ page.visibility = "public"
  \/ /\ page.visibility = "friends"
     /\ x \in Viewers
     /\ \E c \in 1..MaxContents : invitations[x][c].accepted /\ ~invitations[x][c].revoked

\* story_game_page_allowed
Allowed(x) ==
  \/ x \in Devices
  \/ page.visibility = "public"
  \/ /\ page.visibility = "friends"
     /\ x \in Viewers
     /\ invitations[x][page.content_revision].accepted
     /\ ~invitations[x][page.content_revision].revoked

\* read_story_game_page looks the page up before it takes any lock.
Peek(x) ==
  /\ reader[x].pc = "idle"
  /\ page.content # 0
  /\ Allowed(x)
  /\ reader' = [reader EXCEPT ![x] = [pc |-> "peeked", content |-> page.content,
                                      content_revision |-> page.content_revision]]
  /\ UNCHANGED <<authority, contents, page, invitations, seen, guests, sharedFrom>>

\* lock_story_game: the game is neither stale nor bound to something else.
Current(c) == contents[c].state = "published" /\ contents[c].authority = authority

\* Mutants: of what was looked up, the content or the permission is not looked
\* at again under the lock.
StillServed_AnyContent(x) ==
  /\ IsGame(reader[x].content) => Current(reader[x].content)
  /\ Allowed(x)
StillServed_AnyReader(x) ==
  /\ IsGame(reader[x].content) => Current(reader[x].content)
  /\ page.content_revision = reader[x].content_revision

StillServed(x) ==
  /\ IsGame(reader[x].content) => Current(reader[x].content)
  /\ page.content_revision = reader[x].content_revision
  /\ Allowed(x)

\* With the rows locked: send the game looked up, or the example the row has.
Serve(x) ==
  /\ reader[x].pc = "peeked"
  /\ ~PageLocked
  /\ StillServed(x)
  /\ reader' = [reader EXCEPT ![x].pc = "sending",
                              ![x].content = IF IsGame(@) THEN @ ELSE page.content]
  /\ UNCHANGED <<authority, contents, page, invitations, seen, guests, sharedFrom>>

\* Refused, interrupted, or out of time (5 s, 2 s of them for sending).
Leave(x) ==
  /\ reader[x].pc # "idle"
  /\ reader' = [reader EXCEPT ![x] = IdleReader]
  /\ UNCHANGED <<authority, contents, page, invitations, seen, guests, sharedFrom>>

\* A device of the owner shows the response it received.
Show(d) ==
  /\ reader[d].pc = "sending"
  /\ seen' = [seen EXCEPT ![d] = [content |-> reader[d].content, guests |-> guests,
                                  visibility |-> page.visibility, revision |-> page.revision]]
  /\ reader' = [reader EXCEPT ![d] = IdleReader]
  /\ UNCHANGED <<authority, contents, page, invitations, guests, sharedFrom>>

-----------------------------------------------------------------------------
(* Sharing.  Every change by the owner names the revision the device shows. *)

Manages(d) ==
  /\ ~PageLocked
  /\ page.content # 0
  /\ seen[d].revision = page.revision
  /\ page.revision < MaxRevision

\* Mutant: a game of local debugging can be shared.
Shareable_Anything(visibility) == TRUE

Shareable(visibility) == visibility # "private" => contents[page.content].kind # "debug"

SetVisibility(d, visibility) ==
  /\ Manages(d)
  /\ Shareable(visibility)
  /\ page' = [page EXCEPT !.visibility = visibility, !.revision = @ + 1]
  /\ sharedFrom' = seen[d].content
  /\ UNCHANGED <<authority, contents, invitations, seen, reader, guests>>

\* invite_story_game_viewer: a new invitation, or a new token for one that is
\* pending or was revoked.
Invite(d, v) ==
  /\ Manages(d)
  /\ page.visibility = "friends"
  /\ LET old == invitations[v][page.content_revision] IN ~old.accepted \/ old.revoked
  /\ invitations' = [invitations EXCEPT ![v][page.content_revision] =
                       [NoInvitation EXCEPT !.sent = TRUE]]
  /\ page' = [page EXCEPT !.revision = @ + 1]
  /\ guests' = guests \cup {v}
  /\ UNCHANGED <<authority, contents, seen, reader, sharedFrom>>

\* Mutant: removing a friend is not a change other devices notice.
RevokedPage_SameRevision == page

RevokedPage == [page EXCEPT !.revision = @ + 1]

\* revoke_story_game_invitation, of an invitation the page lists.
Revoke(d, v) ==
  /\ Manages(d)
  /\ v \in seen[d].guests
  /\ invitations' = [invitations EXCEPT ![v][page.content_revision].revoked = TRUE]
  /\ page' = RevokedPage
  /\ guests' = guests \ {v}
  /\ UNCHANGED <<authority, contents, seen, reader, sharedFrom>>

\* accept_story_game_invitation, by the account whose address it names.
Accept(v) ==
  /\ ~PageLocked
  /\ page.content # 0
  /\ page.visibility = "friends"
  /\ LET invitation == invitations[v][page.content_revision]
     IN invitation.sent /\ ~invitation.revoked /\ ~invitation.expired /\ ~invitation.accepted
  /\ invitations' = [invitations EXCEPT ![v][page.content_revision].accepted = TRUE]
  /\ UNCHANGED <<authority, contents, page, seen, reader, guests, sharedFrom>>

\* Seven days pass.
Expire(v) ==
  /\ page.content # 0
  /\ invitations[v][page.content_revision].sent
  /\ invitations' = [invitations EXCEPT ![v][page.content_revision].expired = TRUE]
  /\ UNCHANGED <<authority, contents, page, seen, reader, guests, sharedFrom>>

-----------------------------------------------------------------------------
\* What the owner and other readers do with the page.
Uses ==
  \/ \E x \in Readers : Peek(x) \/ Serve(x) \/ Leave(x)
  \/ \E d \in Devices :
       \/ Show(d)
       \/ \E visibility \in Visibility : SetVisibility(d, visibility)
       \/ \E v \in Viewers : Invite(d, v) \/ Revoke(d, v)
  \/ \E v \in Viewers : Accept(v) \/ Expire(v)

PageNext ==
  \/ PageWithdraw \/ Shift \/ PageBegin
  \/ \E kind \in {"game", "debug", "example"} : Publish(kind)
  \/ Uses

PageSpec == PageInit /\ [][PageNext]_pageVars

-----------------------------------------------------------------------------
(* Properties.                                                             *)

PageTypeOK ==
  /\ authority \in 0..MaxAuthority
  /\ contents \in Seq(Content) /\ Len(contents) <= MaxContents
  /\ page \in Page
  /\ page.content = Len(contents) /\ page.content_revision = Len(contents)
  /\ invitations \in [Viewers -> [1..MaxContents -> Invitation]]
  /\ seen \in [Devices -> Shown]
  /\ reader \in [Readers -> Request]
  /\ \A x \in Readers : reader[x].content \in 0..Len(contents)
  /\ guests \subseteq Viewers
  /\ sharedFrom \in 0..Len(contents)

\* What is being sent is what the page shows, and a game among it is published
\* and bound to the current edition, consent, draft and mode, to the last byte.
SendingIsCurrent ==
  \A x \in Readers : reader[x].pc = "sending" =>
    /\ reader[x].content = page.content
    /\ IsGame(page.content) => Current(page.content)

\* "Read and send under one transaction, so revocation cannot race the send":
\* whoever is being sent the page is the owner, or the owner has made this
\* content public, or has invited that friend to it and not removed them.
SendingIsShared ==
  \A v \in Viewers : reader[v].pc = "sending" =>
    page.visibility = "public" \/ (page.visibility = "friends" /\ v \in guests)

\* A page is never shared with content the owner had not before their eyes
\* when they shared it, however publications and their devices interleave.
SharedContentWasSeen == page.visibility # "private" => sharedFrom = page.content

\* The revision names the page: a device whose change will be accepted shows
\* the page as it is, its content, its audience and its list of friends.
RevisionNamesThePage ==
  \A d \in Devices : page.content # 0 /\ seen[d].revision = page.revision =>
    /\ seen[d].content = page.content
    /\ seen[d].visibility = page.visibility
    /\ seen[d].guests = guests

\* A game generated in local debugging is seen by its owner only.
DebugGamesStayPrivate ==
  \A v \in Viewers : reader[v].pc = "sending" => contents[reader[v].content].kind # "debug"

\* A viewer is being sent only what the owner shares with them, which a game
\* of local debugging never is.
ViewersSeeWhatIsShared == SendingIsShared /\ DebugGamesStayPrivate

\* Sharing is decided with the page in view: a change that will be accepted is
\* made by a device that shows the page, and only seen content is shared.
SharingIsDecided == SharedContentWasSeen /\ RevisionNamesThePage
=============================================================================
