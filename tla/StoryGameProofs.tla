--------------------------- MODULE StoryGameProofs ---------------------------
(***************************************************************************)
(* For any workers, games, claims and faults, and for any viewers, devices *)
(* and publications: the safety properties of StoryGame and of             *)
(* StoryGamePage hold of their specifications.                             *)
(*                                                                         *)
(* The inductive invariant of StoryGame says, of each game, how its        *)
(* selection, its candidate and its attempts fit its phase, what the owner *)
(* confirmed and the claims there were, and that at most one game is       *)
(* current.  The invariant of StoryGamePage ties what a reader is being    *)
(* sent to the page under its lock, the invitations of the present content *)
(* to the owner's guests, and the revision a device shows to the page that *)
(* had it.                                                                 *)
(***************************************************************************)
EXTENDS StoryGames, TLAPS, FiniteSetTheorems, SequenceTheorems

\* A game with what the owner confirmed, its claims, and whether events are few.
GameOK(game, ch, cl, fw) ==
  /\ cl.scenes <= 3 /\ cl.build <= 3
  /\ game.state = "none" => ch = "none" /\ cl.scenes = 0 /\ cl.build = 0
  /\ game.state = "stale" =>
       /\ game.pool = 0 /\ game.selection = "none" /\ game.brief = 0
       /\ game.candidate = "none" /\ game.token = 0
  /\ game.state \notin {"none", "stale"} =>
       /\ game.selection = "none" => ch = "none"
       /\ game.selection # "none" =>
            IF ch = "none" THEN fw /\ game.selection = "all" ELSE game.selection = ch
       /\ game.phase = "scenes" =>
            /\ game.selection = "none" /\ cl.build = 0 /\ game.state # "published"
            /\ game.state # "selection_required" => cl.scenes <= game.attempts
            /\ game.state = "selection_required" => game.attempts = 0
       /\ game.phase = "build" =>
            game.selection # "none" /\ cl.build <= game.attempts /\ game.state # "selection_required"
       /\ game.state = "published" => game.candidate = game.selection

AllGamesOK == \A g \in GameIds : GameOK(games[g], chosen[g], claims[g], few)

IsCurrent(game) == game.state \in CurrentStates

AtMostOne == \A g, h \in GameIds : IsCurrent(games[g]) /\ IsCurrent(games[h]) => g = h

\* A worker that is not idle has a game; one that runs it has a token.
WorkersOK ==
  \A w \in Workers :
    /\ worker[w].pc # "idle" => worker[w].game \in GameIds
    /\ worker[w].pc \notin {"idle", "claim"} => worker[w].token \in 1..MaxTokens

\* Claims of one game are some of all.
ClaimsCounted == \A g \in GameIds : claims[g].scenes <= tokens /\ claims[g].build <= tokens

IInv == TypeOK /\ AllGamesOK /\ AtMostOne /\ WorkersOK /\ ClaimsCounted

-----------------------------------------------------------------------------
(* What the functions make of one game.                                    *)

Counted == [scenes : 0..MaxTokens, build : 0..MaxTokens]
Sane(game) == game.live => game.state = "running" /\ game.token # 0

LEMMA StaleOK ==
  ASSUME NEW game \in Game, NEW ch, NEW cl, NEW fw, NEW fw2, GameOK(game, ch, cl, fw),
         game.state # "none"
  PROVE  /\ Stale(game) \in Game /\ GameOK(Stale(game), ch, cl, fw2)
         /\ Stale(game).state = "stale" /\ Stale(game).authority = game.authority
         /\ Sane(Stale(game))
<1>1. PICK x : x = Stale(game)
  OBVIOUS
<1>2. 0 \in 0..MaxTokens
  BY BoundsAssumption
<1>3. /\ x \in Game /\ x.state = "stale" /\ x.candidate = "none" /\ x.pool = 0
      /\ x.selection = "none" /\ x.brief = 0 /\ x.token = 0 /\ ~x.live
      /\ x.authority = game.authority
  BY <1>1, <1>2 DEF Stale, Game, CurrentStates
<1>4. GameOK(x, ch, cl, fw2)
  BY <1>3 DEF GameOK
<1> QED  BY <1>1, <1>3, <1>4 DEF Sane

LEMMA AutoSelectedOK ==
  ASSUME NEW game \in Game, NEW ch, NEW cl \in Counted, GameOK(game, ch, cl, few), few \in BOOLEAN,
         Sane(game)
  PROVE  /\ AutoSelected(game) \in Game /\ GameOK(AutoSelected(game), ch, cl, few)
         /\ Sane(AutoSelected(game)) /\ AutoSelected(game).authority = game.authority
         /\ \/ AutoSelected(game) = game
            \/ game.state = "selection_required" /\ AutoSelected(game).state = "pending"
<1>1. CASE ~(few /\ game.state = "selection_required" /\ game.selection = "none")
  BY <1>1 DEF AutoSelected
<1>2. CASE few /\ game.state = "selection_required" /\ game.selection = "none"
  <2>1. PICK x : x = AutoSelected(game)
    OBVIOUS
  <2>2. x = [game EXCEPT !.selection = "all", !.phase = "build", !.state = "pending"]
    BY <1>2, <2>1 DEF AutoSelected
  <2>3. /\ x \in Game /\ x.selection = "all" /\ x.phase = "build" /\ x.state = "pending"
        /\ x.attempts = game.attempts /\ x.live = game.live /\ x.token = game.token
        /\ x.authority = game.authority
    BY <2>2 DEF Game, CurrentStates, Scenes
  <2>4. ch = "none" /\ cl.build = 0 /\ game.attempts = 0
    BY <1>2 DEF GameOK, Game
  <2>5. GameOK(x, ch, cl, few)
    BY <1>2, <2>3, <2>4 DEF GameOK
  <2> QED  BY <1>2, <2>1, <2>3, <2>5 DEF Sane
<1> QED  BY <1>1, <1>2

\* An accepted call finds its game running and leaves it in order.
LEMMA AfterOK ==
  ASSUME IInv, NEW call \in Call, Accepts(call)
  PROVE  /\ After(call) \in Game
         /\ GameOK(After(call), chosen[call.game], claims[call.game], few)
         /\ Sane(After(call)) /\ games[call.game].state = "running"
         /\ After(call).authority = games[call.game].authority
<1> DEFINE game == games[call.game]  ch == chosen[call.game]  cl == claims[call.game]
           free == Released(game)
<1>1. /\ call.game \in GameIds /\ call.token \in 1..MaxTokens
      /\ call.op \in {"pool", "brief", "stage", "fail"} /\ call.selection \in Scenes \cup {"none"}
  BY DEF Call
<1>2. /\ game \in Game /\ game.state = "running" /\ GameOK(game, ch, cl, few) /\ cl \in Counted
      /\ few \in BOOLEAN /\ game.token = call.token
  BY <1>1 DEF IInv, TypeOK, AllGamesOK, Accepts, Holds, Counted
<1>3. call.token \in 0..MaxTokens /\ call.token # 0 /\ 0 \in 0..MaxTokens
  BY <1>1, BoundsAssumption
<1> HIDE DEF game, ch, cl
<1>4. PICK r : r = free
  OBVIOUS
<1>5. /\ r \in Game /\ r.state = game.state /\ r.phase = game.phase /\ r.selection = game.selection
      /\ r.attempts = game.attempts /\ r.candidate = game.candidate /\ r.live = FALSE
      /\ r.authority = game.authority
  BY <1>2, <1>3, <1>4 DEF Released, Game
<1>6. CASE call.op = "pool"
  <2>1. game.phase = "scenes" /\ game.selection = "none"
    BY <1>6 DEF Accepts, game
  <2>2. PICK y : y = [r EXCEPT !.pool = call.token, !.attempts = 0, !.state = "selection_required"]
    OBVIOUS
  <2>3. /\ y \in Game /\ y.state = "selection_required" /\ y.phase = "scenes"
        /\ y.selection = "none" /\ y.attempts = 0 /\ y.live = FALSE
        /\ y.authority = game.authority
    <3>1. PICK a \in 0..3 : a = 0
      OBVIOUS
    <3>2. PICK k \in 0..MaxTokens : k = call.token
      BY <1>3
    <3>3. y = [r EXCEPT !.pool = k, !.attempts = a, !.state = "selection_required"]
      BY <2>2, <3>1, <3>2
    <3>4. /\ y \in Game /\ y.state = "selection_required" /\ y.phase = r.phase
          /\ y.selection = r.selection /\ y.attempts = a /\ y.live = r.live
          /\ y.authority = r.authority
      BY <1>5, <3>3 DEF Game, CurrentStates
    <3> QED  BY <1>5, <2>1, <3>1, <3>4
  <2>4. GameOK(y, ch, cl, few)
    BY <1>2, <2>1, <2>3 DEF GameOK
  <2>5. After(call) = AutoSelected(y)
    BY <1>4, <1>6, <2>2 DEF After, game
  <2> QED  BY <1>2, <2>3, <2>4, <2>5, AutoSelectedOK DEF Sane, game, ch, cl
<1>7. CASE call.op = "brief"
  <2>1. PICK y : y = [game EXCEPT !.brief = call.token]
    OBVIOUS
  <2>2. /\ y \in Game /\ y.state = "running" /\ y.phase = game.phase
        /\ y.selection = game.selection /\ y.attempts = game.attempts /\ y.token = game.token
        /\ y.authority = game.authority
    BY <1>2, <1>3, <2>1 DEF Game
  <2>3. GameOK(y, ch, cl, few)
    BY <1>2, <2>2 DEF GameOK
  <2>4. After(call) = y
    BY <1>7, <2>1 DEF After, game
  <2> QED  BY <1>2, <1>3, <2>2, <2>3, <2>4 DEF Sane, game, ch, cl
<1>8. CASE call.op = "stage"
  <2>1. game.phase = "build" /\ game.selection # "none" /\ game.selection = call.selection
    BY <1>8 DEF Accepts, game
  <2>2. PICK y : y = [r EXCEPT !.candidate = call.selection, !.state = "published"]
    OBVIOUS
  <2>3. /\ y \in Game /\ y.state = "published" /\ y.phase = "build"
        /\ y.selection = game.selection /\ y.attempts = game.attempts
        /\ y.candidate = call.selection /\ y.live = FALSE /\ y.authority = game.authority
    BY <1>1, <1>5, <2>1, <2>2 DEF Game, CurrentStates
  <2>4. GameOK(y, ch, cl, few)
    BY <1>2, <2>1, <2>3 DEF GameOK
  <2>5. After(call) = y
    BY <1>4, <1>8, <2>2 DEF After, game
  <2> QED  BY <1>2, <2>3, <2>4, <2>5 DEF Sane, game, ch, cl
<1>9. CASE call.op = "fail"
  <2>1. PICK y : y = [r EXCEPT !.state = "failed"]
    OBVIOUS
  <2>2. /\ y \in Game /\ y.state = "failed" /\ y.phase = game.phase /\ y.authority = game.authority
        /\ y.selection = game.selection /\ y.attempts = game.attempts /\ y.live = FALSE
    BY <1>5, <2>1 DEF Game, CurrentStates
  <2>3. GameOK(y, ch, cl, few)
    BY <1>2, <2>2 DEF GameOK
  <2>4. After(call) = y
    BY <1>4, <1>9, <2>1 DEF After, Failed, game
  <2> QED  BY <1>2, <2>2, <2>3, <2>4 DEF Sane, game, ch, cl
<1> QED  BY <1>1, <1>6, <1>7, <1>8, <1>9

-----------------------------------------------------------------------------
(* Steps.                                                                  *)

GamesTyped == games \in [GameIds -> Game] /\ \A g \in GameIds : Sane(games[g])

LEMMA GameFacts ==
  ASSUME IInv, NEW g \in GameIds
  PROVE  /\ games[g] \in Game /\ Sane(games[g]) /\ claims[g] \in Counted
         /\ GameOK(games[g], chosen[g], claims[g], few) /\ few \in BOOLEAN
         /\ chosen[g] \in Scenes \cup {"none"} /\ GamesTyped
         /\ games[g].attempts \in 0..3 /\ games[g].authority \in 0..MaxAuthority
<1>1. games[g] \in Game /\ claims[g] \in Counted /\ few \in BOOLEAN /\ Sane(games[g])
  BY DEF IInv, TypeOK, Counted, Sane
<1>2. games[g].attempts \in 0..3 /\ games[g].authority \in 0..MaxAuthority
  BY <1>1 DEF Game
<1>3. GamesTyped
  BY DEF IInv, TypeOK, Sane, GamesTyped
<1> QED  BY <1>1, <1>2, <1>3 DEF IInv, TypeOK, AllGamesOK

\* One game changes, and is current only if it was or no other is.
LEMMA OneGame ==
  ASSUME IInv, NEW g \in GameIds, NEW x \in Game, games' = [games EXCEPT ![g] = x],
         Sane(x), few' = few,
         \A h \in GameIds \ {g} : chosen'[h] = chosen[h] /\ claims'[h] = claims[h],
         GameOK(x, chosen'[g], claims'[g], few),
         IsCurrent(x) => IsCurrent(games[g]) \/ \A h \in GameIds \ {g} : ~IsCurrent(games[h])
  PROVE  GamesTyped' /\ AllGamesOK' /\ AtMostOne'
<1>1. \A h \in GameIds : games'[h] = IF h = g THEN x ELSE games[h]
  BY GameFacts DEF GamesTyped
<1>2. GamesTyped'
  BY <1>1, GameFacts DEF GamesTyped
<1>3. AllGamesOK'
  BY <1>1 DEF IInv, AllGamesOK
<1>4. AtMostOne'
  BY <1>1 DEF IInv, AtMostOne
<1> QED  BY <1>2, <1>3, <1>4

LEMMA SameGames ==
  ASSUME IInv, UNCHANGED <<games, few, chosen, claims>>
  PROVE  GamesTyped' /\ AllGamesOK' /\ AtMostOne'
  BY DEF IInv, TypeOK, GamesTyped, Sane, AllGamesOK, AtMostOne, GameOK, IsCurrent

\* What an accepted call does to the games.
LEMMA ExecuteStep ==
  ASSUME IInv, NEW call \in Call, Accepts(call), Execute(call), UNCHANGED <<few, chosen, claims>>
  PROVE  GamesTyped' /\ AllGamesOK' /\ AtMostOne'
<1>1. call.game \in GameIds
  BY DEF Call
<1>2. PICK x : x = After(call)
  OBVIOUS
<1>3. /\ x \in Game /\ GameOK(x, chosen[call.game], claims[call.game], few) /\ Sane(x)
      /\ games[call.game].state = "running"
  BY <1>2, AfterOK
<1>4. IsCurrent(games[call.game])
  BY <1>3 DEF IsCurrent, CurrentStates
<1>5. games' = [games EXCEPT ![call.game] = x]
  BY <1>2 DEF Execute
<1> QED  BY <1>1, <1>3, <1>4, <1>5, OneGame

\* The invariant from its parts.
LEMMA Parts ==
  ASSUME authority' \in 0..MaxAuthority, eligible' \in BOOLEAN, few' \in BOOLEAN,
         tokens' \in 0..MaxTokens, worker' \in [Workers -> Worker], late' \subseteq Call,
         faults' \in 0..MaxFaults, chosen' \in [GameIds -> Scenes \cup {"none"}],
         claims' \in [GameIds -> Counted],
         GamesTyped', AllGamesOK', AtMostOne', WorkersOK', ClaimsCounted'
  PROVE  IInv'
  BY DEF IInv, TypeOK, GamesTyped, Sane, Counted

\* One worker changes.
LEMMA OneWorker ==
  ASSUME IInv, NEW w \in Workers, NEW y \in Worker, worker' = [worker EXCEPT ![w] = y],
         y.pc # "idle" => y.game \in GameIds,
         y.pc \notin {"idle", "claim"} => y.token \in 1..MaxTokens
  PROVE  worker' \in [Workers -> Worker] /\ WorkersOK'
  BY DEF IInv, TypeOK, WorkersOK

LEMMA IdleFacts ==
  IdleWorker \in Worker /\ IdleWorker.pc = "idle"
  BY BoundsAssumption DEF IdleWorker, Worker

LEMMA WorkerFacts ==
  ASSUME IInv, NEW w \in Workers
  PROVE  /\ worker[w] \in Worker
         /\ worker[w].pc # "idle" => worker[w].game \in GameIds
         /\ worker[w].pc \notin {"idle", "claim"} => worker[w].token \in 1..MaxTokens
         /\ Calling(w) => Outgoing(w) \in Call
<1>1. /\ worker[w] \in Worker
      /\ worker[w].pc # "idle" => worker[w].game \in GameIds
      /\ worker[w].pc \notin {"idle", "claim"} => worker[w].token \in 1..MaxTokens
  BY DEF IInv, TypeOK, WorkersOK
<1>2. ASSUME Calling(w) PROVE Outgoing(w) \in Call
  <2>1. worker[w].pc \in {"pool", "brief", "stage", "fail"}
    BY <1>2 DEF Calling
  <2>2. worker[w].selection \in Scenes \cup {"none"}
    BY <1>1 DEF Worker
  <2> QED  BY <1>1, <2>1, <2>2 DEF Outgoing, Call
<1> QED  BY <1>1, <1>2

LEMMA GivesUpFacts ==
  ASSUME IInv, NEW w \in Workers, worker[w].pc \notin {"idle", "claim"}, GivesUp(w)
  PROVE  worker' \in [Workers -> Worker] /\ WorkersOK'
<1>1. CASE worker[w].pc = "fail"
  BY <1>1, IdleFacts, OneWorker DEF GivesUp
<1>2. CASE worker[w].pc # "fail"
  <2>1. PICK y : y = [worker[w] EXCEPT !.pc = "fail"]
    OBVIOUS
  <2>2. y \in Worker /\ y.game = worker[w].game /\ y.token = worker[w].token
    BY <2>1, WorkerFacts DEF Worker
  <2>3. worker' = [worker EXCEPT ![w] = y]
    BY <1>2, <2>1 DEF GivesUp
  <2> QED  BY <2>2, <2>3, WorkerFacts, OneWorker
<1> QED  BY <1>1, <1>2

-----------------------------------------------------------------------------
(* Authority and the owner.                                                *)

\* A step that leaves the workers and their calls alone.
LEMMA GamesStep ==
  ASSUME IInv, UNCHANGED <<tokens, worker, late, faults, claims>>,
         authority' \in 0..MaxAuthority, eligible' \in BOOLEAN, few' \in BOOLEAN,
         chosen' \in [GameIds -> Scenes \cup {"none"}],
         GamesTyped', AllGamesOK', AtMostOne'
  PROVE  IInv'
<1>1. WorkersOK' /\ ClaimsCounted'
  BY DEF IInv, WorkersOK, ClaimsCounted
<1>2. /\ tokens' \in 0..MaxTokens /\ worker' \in [Workers -> Worker] /\ late' \subseteq Call
      /\ faults' \in 0..MaxFaults /\ claims' \in [GameIds -> Counted]
  BY DEF IInv, TypeOK, Counted
<1> QED  BY <1>1, <1>2, Parts

LEMMA Frame ==
  ASSUME IInv
  PROVE  /\ authority \in 0..MaxAuthority /\ eligible \in BOOLEAN /\ few \in BOOLEAN
         /\ tokens \in 0..MaxTokens /\ worker \in [Workers -> Worker] /\ late \subseteq Call
         /\ faults \in 0..MaxFaults /\ chosen \in [GameIds -> Scenes \cup {"none"}]
         /\ claims \in [GameIds -> Counted]
  BY DEF IInv, TypeOK, Counted

LEMMA WithdrawStep ==
  ASSUME IInv, Withdraw
  PROVE  IInv'
<1>1. authority' \in 0..MaxAuthority /\ eligible' \in BOOLEAN /\ few' \in BOOLEAN
  BY Frame, BoundsAssumption DEF Withdraw, Moves
<1>2. \A g \in GameIds : games'[g] = IF g \in Begun THEN Stale(games[g]) ELSE games[g]
  BY DEF Withdraw
<1>3. ASSUME NEW g \in GameIds
      PROVE  /\ games'[g] \in Game /\ Sane(games'[g]) /\ ~IsCurrent(games'[g])
             /\ GameOK(games'[g], chosen[g], claims[g], few')
  <2>1. CASE g \in Begun
    <3>1. games[g].state # "none"
      BY <2>1 DEF Begun
    <3>2. games'[g] = Stale(games[g])
      BY <1>2, <2>1
    <3>3. Stale(games[g]).state = "stale"
      BY <3>1, GameFacts, StaleOK
    <3>4. ~IsCurrent(Stale(games[g]))
      BY <3>3 DEF IsCurrent, CurrentStates
    <3> QED  BY <3>1, <3>2, <3>4, GameFacts, StaleOK
  <2>2. CASE g \notin Begun
    <3>1. games[g].state = "none" /\ games'[g] = games[g]
      BY <1>2, <2>2 DEF Begun
    <3>2. ~IsCurrent(games[g])
      BY <3>1 DEF IsCurrent, CurrentStates
    <3> QED  BY <3>1, <3>2, GameFacts DEF GameOK
  <2> QED  BY <2>1, <2>2
<1>4. GamesTyped' /\ AllGamesOK' /\ AtMostOne'
  <2>1. games' = [g \in GameIds |-> games'[g]]
    BY DEF Withdraw
  <2>2. games' \in [GameIds -> Game]
    BY <1>3, <2>1
  <2> QED  BY <1>3, <2>2 DEF GamesTyped, AllGamesOK, AtMostOne, Withdraw
<1> QED  BY <1>1, <1>4, Frame, GamesStep DEF Withdraw

LEMMA RecomposeStep ==
  ASSUME IInv, Recompose
  PROVE  IInv'
<1>1. authority' \in 0..MaxAuthority
  BY Frame, BoundsAssumption DEF Recompose, Moves
<1> QED  BY <1>1, Frame, SameGames, GamesStep DEF Recompose

LEMMA ReadStatusStep ==
  ASSUME IInv, ReadStatus
  PROVE  IInv'
<1>1. PICK g \in Begun : games' = [games EXCEPT ![g] = Stale(@)]
  BY DEF ReadStatus
<1>2. g \in GameIds /\ games[g].state # "none"
  BY DEF Begun
<1>3. PICK x : x = Stale(games[g])
  OBVIOUS
<1>4. x \in Game /\ GameOK(x, chosen[g], claims[g], few) /\ x.state = "stale" /\ Sane(x)
  BY <1>2, <1>3, GameFacts, StaleOK
<1>5. ~IsCurrent(x)
  BY <1>4 DEF IsCurrent, CurrentStates
<1>6. games' = [games EXCEPT ![g] = x]
  BY <1>1, <1>2, <1>3, GameFacts DEF GamesTyped
<1>7. GamesTyped' /\ AllGamesOK' /\ AtMostOne'
  BY <1>2, <1>4, <1>5, <1>6, OneGame DEF ReadStatus
<1> QED  BY <1>7, Frame, GamesStep DEF ReadStatus

LEMMA RepeatStep ==
  ASSUME IInv, NEW g \in GameIds, Repeat(g)
  PROVE  IInv'
<1>1. PICK x : x = AutoSelected(games[g])
  OBVIOUS
<1>2. /\ x \in Game /\ GameOK(x, chosen[g], claims[g], few) /\ Sane(x)
      /\ x = games[g] \/ games[g].state = "selection_required"
  BY <1>1, GameFacts, AutoSelectedOK
<1>3. IsCurrent(x) => IsCurrent(games[g])
  BY <1>2 DEF IsCurrent, CurrentStates
<1>4. games' = [games EXCEPT ![g] = x]
  BY <1>1, GameFacts DEF Repeat, GamesTyped
<1>5. GamesTyped' /\ AllGamesOK' /\ AtMostOne'
  BY <1>2, <1>3, <1>4, OneGame DEF Repeat
<1> QED  BY <1>5, Frame, GamesStep DEF Repeat

LEMMA ConfirmStep ==
  ASSUME IInv, NEW g \in GameIds, Confirm(g)
  PROVE  IInv'
<1>1. PICK scenes \in Scenes :
        /\ games' = [games EXCEPT ![g] = [@ EXCEPT !.selection = scenes, !.phase = "build",
                                                   !.state = "pending", !.attempts = 0]]
        /\ chosen' = [chosen EXCEPT ![g] = scenes]
  BY DEF Confirm
<1>2. games[g].selection = "none" /\ games[g].state = "selection_required"
  BY DEF Confirm, Selectable
<1>3. PICK a \in 0..3 : a = 0
  OBVIOUS
<1>4. PICK x : x = [games[g] EXCEPT !.selection = scenes, !.phase = "build",
                                    !.state = "pending", !.attempts = a]
  OBVIOUS
<1>5. /\ x \in Game /\ x.selection = scenes /\ x.phase = "build" /\ x.state = "pending"
      /\ x.attempts = a /\ x.live = games[g].live /\ x.token = games[g].token
  BY <1>4, GameFacts DEF Game, CurrentStates
<1>6. games' = [games EXCEPT ![g] = x]
  BY <1>1, <1>3, <1>4, GameFacts DEF GamesTyped
<1>7. chosen'[g] = scenes /\ chosen' \in [GameIds -> Scenes \cup {"none"}]
      /\ \A h \in GameIds \ {g} : chosen'[h] = chosen[h]
  BY <1>1, Frame
<1>8. claims[g].build = 0
  BY <1>2, GameFacts DEF GameOK, Game
<1>9. GameOK(x, chosen'[g], claims[g], few)
  <2>1. scenes # "none"
    BY DEF Scenes
  <2>2. 0 <= a
    BY <1>3
  <2>3. claims[g].scenes <= 3 /\ claims[g].build <= 3
    BY GameFacts DEF GameOK
  <2> QED  BY <1>3, <1>5, <1>7, <1>8, <2>1, <2>2, <2>3 DEF GameOK
<1>10. IsCurrent(games[g]) /\ Sane(x)
  BY <1>2, <1>5, GameFacts DEF IsCurrent, CurrentStates, Sane
<1>11. GamesTyped' /\ AllGamesOK' /\ AtMostOne'
  BY <1>5, <1>6, <1>7, <1>9, <1>10, OneGame DEF Confirm
<1> QED  BY <1>7, <1>11, Frame, GamesStep DEF Confirm

LEMMA LapseStep ==
  ASSUME IInv, NEW g \in GameIds, Lapse(g)
  PROVE  IInv'
<1>1. PICK x : x = [games[g] EXCEPT !.live = FALSE]
  OBVIOUS
<1>2. /\ x \in Game /\ x.selection = games[g].selection /\ x.phase = games[g].phase
      /\ x.state = games[g].state /\ x.attempts = games[g].attempts /\ x.live = FALSE
      /\ x.token = games[g].token /\ x.pool = games[g].pool /\ x.brief = games[g].brief
      /\ x.candidate = games[g].candidate
  BY <1>1, GameFacts DEF Game
<1>3. GameOK(x, chosen[g], claims[g], few)
  BY <1>2, GameFacts DEF GameOK
<1>4. games' = [games EXCEPT ![g] = x]
  BY <1>1, GameFacts DEF Lapse, GamesTyped
<1>5. GamesTyped' /\ AllGamesOK' /\ AtMostOne'
  BY <1>2, <1>3, <1>4, OneGame DEF Lapse, Sane, IsCurrent
<1> QED  BY <1>5, Frame, GamesStep DEF Lapse

\* The games as begin_story_game keeps them: none current that is outdated.
Kept == [g \in GameIds |-> IF Outdated(g) THEN Stale(games[g]) ELSE games[g]]

LEMMA KeptFacts ==
  ASSUME IInv, NEW g \in GameIds
  PROVE  /\ Kept[g] \in Game /\ Sane(Kept[g]) /\ GameOK(Kept[g], chosen[g], claims[g], few)
         /\ IsCurrent(Kept[g]) =>
              IsCurrent(games[g]) /\ Kept[g].authority = authority /\ ~Outdated(g)
<1>1. CASE Outdated(g)
  <2>1. games[g].state # "none"
    BY <1>1 DEF Outdated, CurrentStates
  <2>2. Kept[g] = Stale(games[g])
    BY <1>1 DEF Kept
  <2>3. Stale(games[g]).state = "stale"
    BY <2>1, GameFacts, StaleOK
  <2>4. ~IsCurrent(Stale(games[g]))
    BY <2>3 DEF IsCurrent, CurrentStates
  <2> QED  BY <2>1, <2>2, <2>4, GameFacts, StaleOK
<1>2. CASE ~Outdated(g)
  <2>1. Kept[g] = games[g]
    BY <1>2 DEF Kept
  <2> QED  BY <1>2, <2>1, GameFacts DEF Outdated, IsCurrent
<1> QED  BY <1>1, <1>2

LEMMA BeginStep ==
  ASSUME IInv, Begin
  PROVE  IInv'
<1> DEFINE current == {g \in GameIds : /\ Kept[g].state \in CurrentStates
                                       /\ Kept[g].authority = authority}
<1>1. CASE games' = [g \in GameIds |-> IF g \in current THEN AutoSelected(Kept[g]) ELSE Kept[g]]
  <2>1. ASSUME NEW g \in GameIds
        PROVE  /\ games'[g] \in Game /\ Sane(games'[g])
               /\ GameOK(games'[g], chosen[g], claims[g], few)
               /\ IsCurrent(games'[g]) => IsCurrent(games[g])
    <3>1. CASE g \in current
      <4>1. games'[g] = AutoSelected(Kept[g])
        BY <1>1, <3>1
      <4>2. IsCurrent(games[g])
        BY <3>1, KeptFacts DEF IsCurrent
      <4> QED  BY <4>1, <4>2, KeptFacts, GameFacts, AutoSelectedOK
    <3>2. CASE g \notin current
      <4>1. games'[g] = Kept[g]
        BY <1>1, <3>2
      <4> QED  BY <4>1, KeptFacts
    <3> QED  BY <3>1, <3>2
  <2>2. games' = [g \in GameIds |-> games'[g]]
    BY <1>1
  <2>3. games' \in [GameIds -> Game]
    BY <2>1, <2>2
  <2>4. GamesTyped' /\ AllGamesOK' /\ AtMostOne'
    BY <2>1, <2>3 DEF GamesTyped, AllGamesOK, AtMostOne, Begin, IInv
  <2> QED  BY <2>4, Frame, GamesStep DEF Begin
<1>2. ASSUME current = {}, NEW g \in GameIds \ Begun,
             games' = [Kept EXCEPT ![g] = [NoGame EXCEPT !.state = "pending",
                                                         !.authority = authority]]
      PROVE  IInv'
  <2>1. PICK x : x = [NoGame EXCEPT !.state = "pending", !.authority = authority]
    OBVIOUS
  <2>2. /\ x \in Game /\ x.state = "pending" /\ x.selection = "none" /\ x.phase = "scenes"
        /\ x.attempts = 0 /\ x.live = FALSE
    <3>1. NoGame \in Game /\ NoGame.selection = "none" /\ NoGame.phase = "scenes"
            /\ NoGame.attempts = 0 /\ NoGame.live = FALSE
      BY BoundsAssumption DEF NoGame, Game
    <3> QED  BY <2>1, <3>1, Frame DEF Game, CurrentStates
  <2>3. games[g].state = "none"
    BY DEF Begun
  <2>4. chosen[g] = "none" /\ claims[g].scenes = 0 /\ claims[g].build = 0
    BY <2>3, GameFacts DEF GameOK
  <2>5. GameOK(x, chosen[g], claims[g], few)
    BY <2>2, <2>4 DEF GameOK
  <2>6. \A h \in GameIds : ~IsCurrent(Kept[h])
    BY <1>2, KeptFacts DEF IsCurrent
  <2>7. Kept \in [GameIds -> Game]
    <3>1. Kept = [h \in GameIds |-> Kept[h]]
      BY DEF Kept
    <3> QED  BY <3>1, KeptFacts
  <2>8. games' = [Kept EXCEPT ![g] = x]
    BY <1>2, <2>1
  <2>9. \A h \in GameIds : games'[h] = IF h = g THEN x ELSE Kept[h]
    BY <2>7, <2>8
  <2>10. games' \in [GameIds -> Game]
    BY <2>2, <2>7, <2>8
  <2>11. \A h \in GameIds : Sane(games'[h])
    BY <2>2, <2>9, KeptFacts DEF Sane
  <2>12. \A h \in GameIds : GameOK(games'[h], chosen[h], claims[h], few)
    BY <2>5, <2>9, KeptFacts
  <2>13. GamesTyped' /\ AllGamesOK' /\ AtMostOne'
    BY <2>6, <2>9, <2>10, <2>11, <2>12 DEF GamesTyped, AllGamesOK, AtMostOne, Begin
  <2> QED  BY <2>13, Frame, GamesStep DEF Begin
<1> QED  BY <1>1, <1>2 DEF Begin, Kept

-----------------------------------------------------------------------------
(* The workers.                                                            *)

\* A step of a worker that leaves the owner's side and the claims alone.
LEMMA WorkStep ==
  ASSUME IInv, UNCHANGED <<authority, eligible, few, tokens, chosen, claims>>,
         late' \subseteq Call, faults' \in 0..MaxFaults,
         worker' \in [Workers -> Worker], WorkersOK', GamesTyped', AllGamesOK', AtMostOne'
  PROVE  IInv'
<1>1. ClaimsCounted'
  BY DEF IInv, ClaimsCounted
<1>2. /\ authority' \in 0..MaxAuthority /\ eligible' \in BOOLEAN /\ few' \in BOOLEAN
      /\ tokens' \in 0..MaxTokens /\ chosen' \in [GameIds -> Scenes \cup {"none"}]
      /\ claims' \in [GameIds -> Counted]
  BY Frame
<1> QED  BY <1>1, <1>2, Parts

LEMMA ClaimStep ==
  ASSUME IInv, NEW w \in Workers, Claim(w)
  PROVE  IInv'
<1>1. PICK g \in Begun :
        /\ Locks(g) /\ MayRun(g) /\ OnlyCurrent(g)
        /\ games' = [games EXCEPT ![g] = [@ EXCEPT !.state = "running", !.token = tokens + 1,
                                                   !.live = TRUE,
                                                   !.attempts = games[g].attempts + 1]]
        /\ worker' = [worker EXCEPT ![w] = [IdleWorker EXCEPT !.pc = "read", !.game = g,
                                            !.token = tokens + 1, !.phase = games[g].phase]]
        /\ claims' = [claims EXCEPT ![g][games[g].phase] = @ + 1]
  BY DEF Claim
<1>2. PICK k \in 1..MaxTokens : k = tokens + 1 /\ tokens \in Nat
  BY Frame, BoundsAssumption DEF Claim
<1>3. g \in GameIds
  BY DEF Begun
<1>4. PICK n \in 1..3 : n = games[g].attempts + 1
  BY <1>1, <1>3, GameFacts DEF MayRun
<1>5. k \in 0..MaxTokens /\ k # 0 /\ n \in 0..3
  BY BoundsAssumption
<1>6. PICK x : x = [games[g] EXCEPT !.state = "running", !.token = k, !.live = TRUE, !.attempts = n]
  OBVIOUS
<1>7. /\ x \in Game /\ x.state = "running" /\ x.token = k /\ x.attempts = n
      /\ x.selection = games[g].selection /\ x.phase = games[g].phase
  BY <1>3, <1>5, <1>6, GameFacts DEF Game, CurrentStates
<1>8. games' = [games EXCEPT ![g] = x]
  <2>1. x = [games[g] EXCEPT !.state = "running", !.token = tokens + 1, !.live = TRUE,
                             !.attempts = games[g].attempts + 1]
    BY <1>2, <1>4, <1>6
  <2> QED  BY <1>1, <1>3, <2>1, GameFacts DEF GamesTyped
<1>9. games[g].phase \in {"scenes", "build"} /\ games[g].state \in {"pending", "running", "failed"}
  BY <1>1, <1>3, GameFacts DEF Game, MayRun
<1>10. /\ claims[g].scenes \in Nat /\ claims[g].build \in Nat
       /\ claims[g].scenes + 1 \in 0..MaxTokens /\ claims[g].build + 1 \in 0..MaxTokens
       /\ claims[g].scenes <= tokens /\ claims[g].build <= tokens
  <2>1. claims[g].scenes \in 0..MaxTokens /\ claims[g].build \in 0..MaxTokens
    BY <1>3, GameFacts DEF Counted
  <2>2. claims[g].scenes <= tokens /\ claims[g].build <= tokens /\ tokens + 1 \in 0..MaxTokens
    BY <1>2, <1>3, <1>5 DEF IInv, ClaimsCounted
  <2> QED  BY <1>2, <2>1, <2>2, BoundsAssumption
<1>11. PICK sc \in 0..MaxTokens : sc = claims[g].scenes + 1
  BY <1>10
<1>12. PICK bc \in 0..MaxTokens : bc = claims[g].build + 1
  BY <1>10
<1>13. PICK cl : cl = [claims[g] EXCEPT ![games[g].phase] = claims[g][games[g].phase] + 1]
  OBVIOUS
<1>14. claims[g] \in Counted /\ DOMAIN claims = GameIds
  BY <1>3, GameFacts, Frame
<1>15. /\ cl \in Counted
       /\ games[g].phase = "scenes" => cl.scenes = sc /\ cl.build = claims[g].build
       /\ games[g].phase = "build" => cl.build = bc /\ cl.scenes = claims[g].scenes
  <2>1. CASE games[g].phase = "scenes"
    <3>1. cl = [claims[g] EXCEPT !.scenes = sc]
      BY <1>11, <1>13, <1>14, <2>1 DEF Counted
    <3> QED  BY <1>14, <2>1, <3>1 DEF Counted
  <2>2. CASE games[g].phase = "build"
    <3>1. cl = [claims[g] EXCEPT !.build = bc]
      BY <1>12, <1>13, <1>14, <2>2 DEF Counted
    <3> QED  BY <1>14, <2>2, <3>1 DEF Counted
  <2> QED  BY <1>9, <2>1, <2>2
<1>16. claims' = [claims EXCEPT ![g] = cl]
  BY ONLY <1>1, <1>13
<1>17. claims' \in [GameIds -> Counted] /\ claims'[g] = cl
       /\ \A h \in GameIds \ {g} : claims'[h] = claims[h]
  BY <1>3, <1>15, <1>16, Frame
<1>18. GameOK(x, chosen'[g], claims'[g], few)
  <2>1. GameOK(games[g], chosen[g], claims[g], few) /\ games[g].attempts \in 0..3
    BY <1>3, GameFacts
  <2>2. games[g].phase = "scenes" => claims[g].scenes <= games[g].attempts
    BY <1>9, <2>1 DEF GameOK
  <2>3. games[g].phase = "build" => claims[g].build <= games[g].attempts
    BY <1>9, <2>1 DEF GameOK
  <2>4. games[g].phase = "scenes" => sc <= n /\ sc <= 3
    BY <1>4, <1>10, <1>11, <2>1, <2>2
  <2>5. games[g].phase = "build" => bc <= n /\ bc <= 3
    BY <1>4, <1>10, <1>12, <2>1, <2>3
  <2>6. claims[g].scenes <= 3 /\ claims[g].build <= 3
    BY <2>1 DEF GameOK
  <2>7. cl.scenes <= 3 /\ cl.build <= 3
    BY <1>9, <1>15, <2>4, <2>5, <2>6
  <2>8. chosen'[g] = chosen[g]
    BY DEF Claim
  <2> QED  BY <1>7, <1>9, <1>15, <1>17, <2>1, <2>4, <2>5, <2>7, <2>8 DEF GameOK
<1>19. \A h \in GameIds \ {g} : ~IsCurrent(games[h])
  BY <1>1 DEF OnlyCurrent, IsCurrent
<1>20. GamesTyped' /\ AllGamesOK' /\ AtMostOne'
  BY <1>3, <1>5, <1>7, <1>8, <1>17, <1>18, <1>19, OneGame DEF Claim, Sane
<1>21. PICK y : y = [IdleWorker EXCEPT !.pc = "read", !.game = g, !.token = k,
                                       !.phase = games[g].phase]
  OBVIOUS
<1>22. y \in Worker /\ y.game = g /\ y.token = k
  <2>1. IdleWorker \in Worker /\ g \in 0..MaxGames
    BY <1>3, IdleFacts, BoundsAssumption DEF GameIds
  <2> QED  BY <1>5, <1>9, <1>21, <2>1 DEF Worker
<1>23. worker' = [worker EXCEPT ![w] = y]
  BY <1>1, <1>2, <1>21
<1>24. worker' \in [Workers -> Worker] /\ WorkersOK'
  BY <1>3, <1>22, <1>23, OneWorker
<1>25. ClaimsCounted'
  <2>1. tokens' = k
    BY <1>2 DEF Claim
  <2>2. sc <= k /\ bc <= k
    BY <1>2, <1>10, <1>11, <1>12
  <2>3. cl.scenes <= k /\ cl.build <= k
    BY <1>2, <1>9, <1>10, <1>15, <2>2
  <2>4. \A h \in GameIds : claims[h].scenes \in Nat /\ claims[h].build \in Nat
    BY GameFacts, BoundsAssumption DEF Counted
  <2>5. \A h \in GameIds \ {g} : claims[h].scenes <= k /\ claims[h].build <= k
    BY <1>2, <2>4 DEF IInv, ClaimsCounted
  <2> QED  BY <1>17, <2>1, <2>3, <2>5 DEF ClaimsCounted
<1>26. tokens' \in 0..MaxTokens
  BY <1>2, <1>5 DEF Claim
<1> QED  BY <1>17, <1>20, <1>24, <1>25, <1>26, Frame, Parts DEF Claim

LEMMA NothingToClaimStep ==
  ASSUME IInv, NEW w \in Workers, NothingToClaim(w)
  PROVE  IInv'
<1>1. worker' \in [Workers -> Worker] /\ WorkersOK'
  BY IdleFacts, OneWorker DEF NothingToClaim, Idle
<1> QED  BY <1>1, Frame, SameGames, WorkStep DEF NothingToClaim

LEMMA ReadStep ==
  ASSUME IInv, NEW w \in Workers, Read(w)
  PROVE  IInv'
<1>1. /\ worker[w] \in Worker /\ worker[w].pc = "read" /\ worker[w].game \in GameIds
      /\ worker[w].token \in 1..MaxTokens
  BY WorkerFacts DEF Read
<1>2. PICK pc \in {"pool", "brief", "stage"} :
        pc = CASE worker[w].phase = "scenes" -> "pool"
               [] games[worker[w].game].brief = 0 -> "brief"
               [] OTHER -> "stage"
  <2>1. CASE worker[w].phase = "scenes"
    BY <2>1
  <2>2. CASE worker[w].phase # "scenes" /\ games[worker[w].game].brief = 0
    BY <2>2
  <2>3. CASE worker[w].phase # "scenes" /\ games[worker[w].game].brief # 0
    BY <2>3
  <2> QED  BY <2>1, <2>2, <2>3
<1>3. games[worker[w].game].selection \in Scenes \cup {"none"}
  BY <1>1, GameFacts DEF Game
<1>4. CASE Holds(worker[w].game, worker[w].token)
  <2>1. PICK sel \in Scenes \cup {"none"} : sel = games[worker[w].game].selection
    BY <1>3
  <2>2. PICK y : y = [worker[w] EXCEPT !.selection = sel, !.pc = pc]
    OBVIOUS
  <2>3. y \in Worker /\ y.game = worker[w].game /\ y.token = worker[w].token
    BY <1>1, <2>2 DEF Worker
  <2>4. worker' = [worker EXCEPT ![w].selection = games[worker[w].game].selection,
               ![w].pc = CASE worker[w].phase = "scenes" -> "pool"
                           [] games[worker[w].game].brief = 0 -> "brief"
                           [] OTHER -> "stage"]
    BY <1>4 DEF Read
  <2>5. worker' = [worker EXCEPT ![w] = y]
    BY <1>2, <2>1, <2>2, <2>4, Frame
  <2>6. worker' \in [Workers -> Worker] /\ WorkersOK'
    BY <1>1, <2>3, <2>5, OneWorker
  <2> QED  BY <2>6, Frame, SameGames, WorkStep DEF Read
<1>5. CASE ~Holds(worker[w].game, worker[w].token)
  <2>1. PICK y : y = [worker[w] EXCEPT !.pc = "fail"]
    OBVIOUS
  <2>2. y \in Worker /\ y.game = worker[w].game /\ y.token = worker[w].token
    BY <1>1, <2>1 DEF Worker
  <2>3. worker' = [worker EXCEPT ![w] = y]
    BY <1>5, <2>1, Frame DEF Read
  <2>4. worker' \in [Workers -> Worker] /\ WorkersOK'
    BY <1>1, <2>2, <2>3, OneWorker
  <2> QED  BY <2>4, Frame, SameGames, WorkStep DEF Read
<1> QED  BY <1>4, <1>5

LEMMA SucceedsStep ==
  ASSUME IInv, NEW w \in Workers, Succeeds(w)
  PROVE  IInv'
<1>1. /\ Outgoing(w) \in Call /\ Accepts(Outgoing(w)) /\ Execute(Outgoing(w))
      /\ worker[w].pc \in {"pool", "brief", "stage", "fail"}
  BY WorkerFacts DEF Succeeds, Calling
<1>2. GamesTyped' /\ AllGamesOK' /\ AtMostOne'
  BY <1>1, ExecuteStep DEF Succeeds
<1>3. worker[w] \in Worker /\ worker[w].game \in GameIds /\ worker[w].token \in 1..MaxTokens
  BY <1>1, WorkerFacts
<1>4. PICK y : y = GoesOn(w)
  OBVIOUS
<1>5. /\ y \in Worker
      /\ y.pc # "idle" => y.game \in GameIds
      /\ y.pc \notin {"idle", "claim"} => y.token \in 1..MaxTokens
  <2>1. CASE worker[w].pc = "brief"
    <3>1. y = [worker[w] EXCEPT !.pc = "stage"]
      BY <1>4, <2>1 DEF GoesOn
    <3> QED  BY <1>3, <3>1 DEF Worker
  <2>2. CASE worker[w].pc = "pool" /\ After(Outgoing(w)).state = "pending"
    <3>1. y = [IdleWorker EXCEPT !.pc = "claim", !.game = worker[w].game]
      BY <1>4, <2>2 DEF GoesOn
    <3>2. IdleWorker \in Worker /\ worker[w].game \in 0..MaxGames
      BY <1>3, IdleFacts DEF Worker
    <3> QED  BY <1>3, <3>1, <3>2 DEF Worker
  <2>3. CASE y = IdleWorker
    BY <2>3, IdleFacts
  <2> QED  BY <1>4, <2>1, <2>2, <2>3 DEF GoesOn
<1>6. worker' = [worker EXCEPT ![w] = y]
  BY <1>4 DEF Succeeds
<1>7. worker' \in [Workers -> Worker] /\ WorkersOK'
  BY <1>5, <1>6, OneWorker
<1> QED  BY <1>2, <1>7, Frame, WorkStep DEF Succeeds

LEMMA RefusedStep ==
  ASSUME IInv, NEW w \in Workers, Refused(w)
  PROVE  IInv'
<1>1. worker' \in [Workers -> Worker] /\ WorkersOK'
  BY GivesUpFacts DEF Refused, Calling
<1> QED  BY <1>1, Frame, SameGames, WorkStep DEF Refused

LEMMA UnansweredStep ==
  ASSUME IInv, NEW w \in Workers, Unanswered(w)
  PROVE  IInv'
<1>1. Outgoing(w) \in Call
  BY WorkerFacts DEF Unanswered
<1>2. worker' \in [Workers -> Worker] /\ WorkersOK'
  BY GivesUpFacts DEF Unanswered, Calling
<1>3. faults' \in 0..MaxFaults
  BY Frame, BoundsAssumption DEF Unanswered
<1>4. CASE Accepts(Outgoing(w)) /\ Execute(Outgoing(w)) /\ late' = late
  <2>1. GamesTyped' /\ AllGamesOK' /\ AtMostOne'
    BY <1>1, <1>4, ExecuteStep DEF Unanswered
  <2> QED  BY <1>2, <1>3, <1>4, <2>1, Frame, WorkStep DEF Unanswered
<1>5. CASE late' = late \cup {Outgoing(w)} /\ games' = games
  <2>1. late' \subseteq Call
    BY <1>1, <1>5, Frame
  <2> QED  BY <1>2, <1>3, <1>5, <2>1, SameGames, WorkStep DEF Unanswered
<1> QED  BY <1>4, <1>5 DEF Unanswered

LEMMA DeliverStep ==
  ASSUME IInv, Deliver
  PROVE  IInv'
<1>1. PICK call \in late :
        /\ late' = late \ {call}
        /\ IF Accepts(call) THEN Execute(call) ELSE games' = games
  BY DEF Deliver
<1>2. call \in Call /\ late' \subseteq Call /\ worker' \in [Workers -> Worker] /\ faults' \in 0..MaxFaults
  BY <1>1, Frame DEF Deliver
<1>3. WorkersOK'
  BY DEF Deliver, IInv, WorkersOK
<1>4. GamesTyped' /\ AllGamesOK' /\ AtMostOne'
  <2>1. CASE Accepts(call)
    BY <1>1, <1>2, <2>1, ExecuteStep DEF Deliver
  <2>2. CASE ~Accepts(call)
    BY <1>1, <2>2, SameGames DEF Deliver
  <2> QED  BY <2>1, <2>2
<1> QED  BY <1>2, <1>3, <1>4, WorkStep DEF Deliver

LEMMA InterruptStep ==
  ASSUME IInv, NEW w \in Workers, Interrupt(w)
  PROVE  IInv'
<1>1. worker' \in [Workers -> Worker] /\ WorkersOK'
  BY GivesUpFacts DEF Interrupt
<1>2. faults' \in 0..MaxFaults
  BY Frame, BoundsAssumption DEF Interrupt
<1> QED  BY <1>1, <1>2, Frame, SameGames, WorkStep DEF Interrupt

LEMMA DieStep ==
  ASSUME IInv, NEW w \in Workers, Die(w)
  PROVE  IInv'
<1>1. worker' \in [Workers -> Worker] /\ WorkersOK'
  BY IdleFacts, OneWorker DEF Die, Idle
<1>2. faults' \in 0..MaxFaults
  BY Frame, BoundsAssumption DEF Die
<1> QED  BY <1>1, <1>2, Frame, SameGames, WorkStep DEF Die

-----------------------------------------------------------------------------
(* The invariant.                                                          *)

LEMMA InitIInv == Init => IInv
<1> SUFFICES ASSUME Init PROVE IInv
  OBVIOUS
<1>1. /\ NoGame \in Game /\ NoGame.state = "none" /\ ~NoGame.live
  BY BoundsAssumption DEF NoGame, Game
<1>2. PICK cl : cl = [scenes |-> 0, build |-> 0]
  OBVIOUS
<1>3. cl \in Counted /\ cl.scenes = 0 /\ cl.build = 0 /\ claims = [g \in GameIds |-> cl]
  BY <1>2, BoundsAssumption DEF Counted, Init
<1>4. TypeOK
  <2>1. games \in [GameIds -> Game] /\ \A g \in GameIds : ~games[g].live
    BY <1>1 DEF Init
  <2>2. worker \in [Workers -> Worker]
    BY IdleFacts DEF Init
  <2>3. claims \in [GameIds -> Counted]
    BY <1>3
  <2> QED  BY <2>1, <2>2, <2>3, BoundsAssumption DEF Init, TypeOK, Counted
<1>5. AllGamesOK
  BY <1>1, <1>3 DEF Init, AllGamesOK, GameOK
<1>6. AtMostOne
  BY <1>1 DEF Init, AtMostOne, IsCurrent, CurrentStates
<1>7. WorkersOK
  BY IdleFacts DEF Init, WorkersOK
<1>8. ClaimsCounted
  BY <1>3 DEF Init, ClaimsCounted
<1> QED  BY <1>4, <1>5, <1>6, <1>7, <1>8 DEF IInv

LEMMA NextIInv == IInv /\ [Next]_vars => IInv'
<1> SUFFICES ASSUME IInv, [Next]_vars PROVE IInv'
  OBVIOUS
<1>1. CASE UNCHANGED vars
  BY <1>1 DEF vars, IInv, TypeOK, AllGamesOK, AtMostOne, WorkersOK, ClaimsCounted, GameOK,
     IsCurrent
<1>2. CASE Next
  BY <1>2, WithdrawStep, RecomposeStep, ReadStatusStep, BeginStep, DeliverStep, RepeatStep,
     ConfirmStep, LapseStep, ClaimStep, NothingToClaimStep, ReadStep, SucceedsStep, RefusedStep,
     UnansweredStep, InterruptStep, DieStep DEF Next
<1> QED  BY <1>1, <1>2

(* The inductive invariant, for any workers and bounds.                    *)
THEOREM Invariance == Spec => []IInv
<1> QED  BY InitIInv, NextIInv, PTL DEF Spec

(* Type correctness; a lease is held only by a running game with a token.  *)
THEOREM TypesHold == Spec => []TypeOK
<1>1. IInv => TypeOK
  BY DEF IInv
<1> QED  BY Invariance, <1>1, PTL

(* What the owner withdrew is erased and stays erased, and what is         *)
(* published is what they confirmed, whatever calls of workers long        *)
(* replaced are executed late (save_story_game_pool, stage_story_game,     *)
(* auto_select_story_game).                                                *)
THEOREM OwnersDecisionsStand == Spec => []OwnerDecides
<1>1. ASSUME IInv PROVE OwnerDecides
  <2>1. ASSUME NEW g \in GameIds, games[g].state = "stale"
        PROVE  /\ games[g].pool = 0 /\ games[g].selection = "none" /\ games[g].brief = 0
               /\ games[g].candidate = "none" /\ games[g].token = 0
    BY <1>1, <2>1, GameFacts DEF GameOK
  <2>2. ASSUME NEW g \in GameIds, games[g].state = "published"
        PROVE  IF chosen[g] = "none" THEN few /\ games[g].candidate = "all"
               ELSE games[g].candidate = chosen[g]
    <3>1. games[g].phase \in {"scenes", "build"} /\ GameOK(games[g], chosen[g], claims[g], few)
      BY <1>1, GameFacts DEF Game
    <3>2. games[g].selection # "none" /\ games[g].candidate = games[g].selection
      BY <2>2, <3>1 DEF GameOK
    <3> QED  BY <2>2, <3>1, <3>2 DEF GameOK
  <2> QED  BY <2>1, <2>2 DEF OwnerDecides, StaleGamesAreErased, PublishedIsWhatWasChosen
<1> QED  BY Invariance, <1>1, PTL

(* At most one game of the memoir is current: the unique index never       *)
(* stops begin_story_game.                                                 *)
THEOREM CurrentGamesExclude == Spec => []OneCurrentGame
<1>1. ASSUME IInv PROVE OneCurrentGame
  <2> DEFINE S == {g \in GameIds : games[g].state \in CurrentStates}
  <2>1. CASE S = {}
    BY <2>1, FS_EmptySet DEF OneCurrentGame
  <2>2. ASSUME NEW g \in S PROVE OneCurrentGame
    <3>1. S = {g}
      BY <1>1, <2>2 DEF IInv, AtMostOne, IsCurrent
    <3>2. Cardinality(S) = 1
      BY <3>1, FS_Singleton
    <3>3. Cardinality(S) <= 1
      BY <3>2
    <3> QED  BY <3>3 DEF OneCurrentGame
  <2> QED  BY <2>1, <2>2
<1> QED  BY Invariance, <1>1, PTL

(* Each phase of a game is run three times at most, however often it is    *)
(* retried and whatever fails (claim_story_game).                          *)
THEOREM RunsAreBounded == Spec => []AttemptsAreBounded
<1>1. IInv => AttemptsAreBounded
  BY DEF IInv, AllGamesOK, GameOK, AttemptsAreBounded
<1> QED  BY Invariance, <1>1, PTL

(* Both: one game is current, and no phase of a game runs a fourth time.   *)
THEOREM WorkBounded == Spec => []WorkIsBounded
<1>1. OneCurrentGame /\ AttemptsAreBounded => WorkIsBounded
  BY DEF WorkIsBounded
<1> QED  BY <1>1, CurrentGamesExclude, RunsAreBounded, PTL

-----------------------------------------------------------------------------
(* What becomes of a published game.                                       *)

\* A game that no worker has and that waits for nobody.
AtRest(game) == game.state \in {"none", "published", "stale"}

\* From one state of a game to another: staleness and publication last, and so
\* does what the game is bound to.
Lasting(old, new) ==
  /\ old.state = "stale" => new.state = "stale"
  /\ old.state = "published" =>
       \/ new.state = "stale"
       \/ new.state = "published" /\ new.candidate = old.candidate
  /\ old.state \in {"published", "stale"} => new.authority = old.authority

LEMMA RestingOwner ==
  ASSUME IInv, NEW g \in GameIds, AtRest(games[g]),
         NEW h \in GameIds, Repeat(h) \/ Confirm(h) \/ Lapse(h)
  PROVE  games'[g] = games[g]
<1>1. CASE Repeat(h)
  <2>1. games'[g] = IF g = h THEN AutoSelected(games[g]) ELSE games[g]
    BY <1>1, GameFacts DEF Repeat, GamesTyped
  <2>2. AutoSelected(games[g]) = games[g]
    BY DEF AutoSelected, AtRest
  <2> QED  BY <2>1, <2>2
<1>2. CASE Confirm(h)
  <2>1. games[h].state = "selection_required"
    BY <1>2 DEF Confirm, Selectable
  <2>2. g # h => games'[g] = games[g]
    BY <1>2, GameFacts DEF Confirm, GamesTyped
  <2> QED  BY <2>1, <2>2 DEF AtRest
<1>3. CASE Lapse(h)
  <2>1. games[h].state = "running"
    BY <1>3, GameFacts DEF Lapse, Sane
  <2>2. g # h => games'[g] = games[g]
    BY <1>3, GameFacts DEF Lapse, GamesTyped
  <2> QED  BY <2>1, <2>2 DEF AtRest
<1> QED  BY <1>1, <1>2, <1>3

LEMMA RestingCall ==
  ASSUME IInv, NEW g \in GameIds, AtRest(games[g]), NEW call \in Call, Accepts(call), Execute(call)
  PROVE  games'[g] = games[g]
<1>1. call.game \in GameIds /\ games[call.game].state = "running"
  BY AfterOK DEF Call
<1>2. g # call.game => games'[g] = games[g]
  BY <1>1, GameFacts DEF Execute, GamesTyped
<1> QED  BY <1>1, <1>2 DEF AtRest

\* The steps of workers and their late calls that change a game.
LEMMA WorkerCalls ==
  ASSUME IInv, NEW w \in Workers, Succeeds(w) \/ Unanswered(w) \/ Deliver
  PROVE  games' = games \/ \E call \in Call : Accepts(call) /\ Execute(call)
<1>1. CASE Succeeds(w)
  BY <1>1, WorkerFacts DEF Succeeds
<1>2. CASE Unanswered(w)
  BY <1>2, WorkerFacts DEF Unanswered
<1>3. CASE Deliver
  BY <1>3, Frame DEF Deliver
<1> QED  BY <1>1, <1>2, <1>3

LEMMA RestingClaim ==
  ASSUME IInv, NEW g \in GameIds, AtRest(games[g]), NEW w \in Workers, Claim(w)
  PROVE  games'[g] = games[g]
<1>1. PICK h \in Begun :
        /\ MayRun(h)
        /\ games' = [games EXCEPT ![h] = [@ EXCEPT !.state = "running", !.token = tokens + 1,
                                                   !.live = TRUE,
                                                   !.attempts = games[h].attempts + 1]]
  BY DEF Claim
<1>2. ~AtRest(games[h])
  BY <1>1 DEF MayRun, AtRest
<1>3. g # h => games'[g] = games[g]
  BY <1>1, GameFacts DEF GamesTyped
<1> QED  BY <1>2, <1>3

\* Only what concerns its authority changes a game at rest, or begins one.
LEMMA RestingStep ==
  ASSUME IInv, [Next]_vars, ~Withdraw, ~ReadStatus, ~Begin
  PROVE  \A g \in GameIds : AtRest(games[g]) => games'[g] = games[g]
<1> SUFFICES ASSUME NEW g \in GameIds, AtRest(games[g]), games' # games PROVE games'[g] = games[g]
  OBVIOUS
<1>1. ~Recompose /\ ~UNCHANGED vars
  BY DEF Recompose, vars
<1>2. \A w \in Workers :
        ~NothingToClaim(w) /\ ~Read(w) /\ ~Refused(w) /\ ~Interrupt(w) /\ ~Die(w)
  BY DEF NothingToClaim, Read, Refused, Interrupt, Die
<1>3. CASE \E h \in GameIds : Repeat(h) \/ Confirm(h) \/ Lapse(h)
  BY <1>3, RestingOwner
<1>4. CASE Deliver
  BY <1>4, RestingCall, Frame DEF Deliver
<1>5. ASSUME NEW w \in Workers, Claim(w) PROVE games'[g] = games[g]
  BY <1>5, RestingClaim
<1>6. ASSUME NEW w \in Workers, Succeeds(w) \/ Unanswered(w) PROVE games'[g] = games[g]
  BY <1>6, WorkerCalls, RestingCall
<1> QED  BY <1>1, <1>2, <1>3, <1>4, <1>5, <1>6 DEF Next

\* What begin_story_game makes of a game that was begun before.
LEMMA BeginGames ==
  ASSUME IInv, Begin, NEW g \in Begun
  PROVE  games'[g] \in {Kept[g], AutoSelected(Kept[g])}
<1> DEFINE current == {h \in GameIds : Kept[h].state \in CurrentStates
                                       /\ Kept[h].authority = authority}
<1>1. CASE games' = [h \in GameIds |-> IF h \in current THEN AutoSelected(Kept[h]) ELSE Kept[h]]
  BY <1>1 DEF Begun
<1>2. ASSUME NEW h \in GameIds \ Begun,
             games' = [Kept EXCEPT ![h] = [NoGame EXCEPT !.state = "pending",
                                                         !.authority = authority]]
      PROVE  games'[g] = Kept[g]
  BY <1>2 DEF Kept, Begun
<1> QED  BY <1>1, <1>2 DEF Begin, Kept

LEMMA BeginAtRest ==
  ASSUME IInv, Begin, NEW g \in GameIds, games[g].state \in {"published", "stale"}
  PROVE  games'[g] = IF Outdated(g) THEN Stale(games[g]) ELSE games[g]
<1>1. g \in Begun
  BY DEF Begun
<1>2. Kept[g] = IF Outdated(g) THEN Stale(games[g]) ELSE games[g]
  BY DEF Kept
<1>3. Kept[g].state \in {"published", "stale"}
  BY <1>2, GameFacts, StaleOK
<1>4. AutoSelected(Kept[g]) = Kept[g]
  BY <1>3 DEF AutoSelected
<1> QED  BY <1>1, <1>2, <1>4, BeginGames

LEMMA LastingStep ==
  ASSUME IInv, [Next]_vars, NEW g \in GameIds
  PROVE  Lasting(games[g], games'[g])
<1> SUFFICES ASSUME games[g].state \in {"published", "stale"} PROVE Lasting(games[g], games'[g])
  BY DEF Lasting
<1>1. Stale(games[g]).state = "stale" /\ Stale(games[g]).authority = games[g].authority
  BY GameFacts, StaleOK
<1>2. games'[g] \in {games[g], Stale(games[g])} => Lasting(games[g], games'[g])
  BY <1>1 DEF Lasting
<1>3. CASE Withdraw
  BY <1>2, <1>3 DEF Withdraw, Begun
<1>4. CASE ReadStatus
  <2>1. PICK h \in Begun : games' = [games EXCEPT ![h] = Stale(@)]
    BY <1>4 DEF ReadStatus
  <2> QED  BY <1>2, <2>1, GameFacts DEF GamesTyped, Begun
<1>5. CASE Begin
  BY <1>2, <1>5, BeginAtRest
<1>6. CASE ~Withdraw /\ ~ReadStatus /\ ~Begin
  BY <1>2, <1>6, RestingStep DEF AtRest
<1> QED  BY <1>3, <1>4, <1>5, <1>6

(* A published game stays, with its candidate, until it is made stale: no  *)
(* worker that never learnt of its publication, nor a late call, a retry   *)
(* or a repeated request takes it back (stage_story_game,                  *)
(* claim_story_game, fail_story_game).                                     *)
THEOREM PublicationLasts == Spec => PublishedStays
<1>1. IInv /\ [Next]_vars =>
        [\A g \in GameIds : games[g].state = "published" =>
           \/ games'[g].state = "stale"
           \/ games'[g].state = "published" /\ games'[g].candidate = games[g].candidate]_vars
  BY LastingStep DEF Lasting
<1> QED  BY Invariance, <1>1, PTL DEF Spec, PublishedStays

-----------------------------------------------------------------------------
(* The page that shows the games.                                          *)

\* A request goes on with what it looked up; a response is of the page as it is.
RequestsOK ==
  \A x \in Readers :
    /\ reader[x].pc # "idle" =>
         reader[x].content # 0 /\ reader[x].content_revision = reader[x].content
    /\ reader[x].pc = "sending" =>
         /\ reader[x].content = page.content
         /\ IsGame(page.content) => Current(page.content)
         /\ Allowed(x)

\* Contents to come have no invitation; who may use one now is a guest.
InvitationsOK ==
  \A v \in Viewers :
    /\ \A c \in 1..MaxContents :
         /\ invitations[v][c].accepted => invitations[v][c].sent
         /\ c > page.content => ~invitations[v][c].sent
    /\ page.content # 0 /\ invitations[v][page.content].sent
         /\ ~invitations[v][page.content].revoked => v \in guests

SharedOK ==
  page.visibility # "private" =>
    page.content # 0 /\ sharedFrom = page.content /\ contents[page.content].kind # "debug"

SeenOK ==
  \A d \in Devices :
    /\ seen[d].revision <= page.revision
    /\ page.content # 0 /\ seen[d].revision = page.revision =>
         /\ seen[d].content = page.content /\ seen[d].visibility = page.visibility
         /\ seen[d].guests = guests

PageIInv == PageTypeOK /\ RequestsOK /\ InvitationsOK /\ SharedOK /\ SeenOK

-----------------------------------------------------------------------------
(* Contents.                                                               *)

LEMMA ContentFacts ==
  ASSUME PageTypeOK
  PROVE  /\ Len(contents) \in 0..MaxContents /\ DOMAIN contents = 1..Len(contents)
         /\ page.content = Len(contents) /\ page.content_revision = Len(contents)
         /\ page.content \in Nat /\ page.revision \in Nat
         /\ \A c \in 1..Len(contents) : contents[c] \in Content
  BY PageBoundsAssumption DEF PageTypeOK, Page

\* Making games stale changes nothing but their state.
LEMMA StaleFacts ==
  ASSUME PageTypeOK, NEW S
  PROVE  /\ StaleContents(S) \in Seq(Content) /\ Len(StaleContents(S)) = Len(contents)
         /\ \A c \in 1..Len(contents) :
              /\ StaleContents(S)[c].kind = contents[c].kind
              /\ StaleContents(S)[c].authority = contents[c].authority
              /\ c \notin S => StaleContents(S)[c] = contents[c]
<1>1. DOMAIN contents = 1..Len(contents) /\ Len(contents) \in Nat
  BY ContentFacts, PageBoundsAssumption
<1>2. ASSUME NEW c \in 1..Len(contents)
      PROVE  LET x == IF c \in S THEN [contents[c] EXCEPT !.state = "stale"] ELSE contents[c]
             IN  /\ x \in Content /\ x.kind = contents[c].kind
                 /\ x.authority = contents[c].authority
                 /\ c \notin S => x = contents[c]
  <2>1. contents[c] \in Content
    BY ContentFacts
  <2>2. CASE c \in S
    BY <2>1, <2>2 DEF Content
  <2>3. CASE c \notin S
    BY <2>1, <2>3
  <2> QED  BY <2>2, <2>3
<1>3. StaleContents(S) = [c \in 1..Len(contents) |->
        IF c \in S THEN [contents[c] EXCEPT !.state = "stale"] ELSE contents[c]]
  BY <1>1 DEF StaleContents
<1>4. StaleContents(S) \in [1..Len(contents) -> Content]
  BY <1>2, <1>3
<1>5. StaleContents(S) \in Seq(Content) /\ Len(StaleContents(S)) = Len(contents)
  BY <1>1, <1>4
<1> QED  BY <1>2, <1>3, <1>5

\* A step that makes contents stale, and may move the authority, while no game
\* is being sent, and leaves the rest as it is.
LEMMA StaleStep ==
  ASSUME PageIInv, NEW S, contents' = StaleContents(S) \/ contents' = contents, ~ProjectLocked,
         authority' \in 0..MaxAuthority,
         UNCHANGED <<page, invitations, seen, reader, guests, sharedFrom>>
  PROVE  PageIInv'
<1>1. PageTypeOK
  BY DEF PageIInv
<1>2. /\ contents' \in Seq(Content) /\ Len(contents') = Len(contents)
      /\ \A c \in 1..Len(contents) : contents'[c].kind = contents[c].kind
  BY <1>1, StaleFacts DEF PageTypeOK
<1>3. PageTypeOK'
  BY <1>1, <1>2 DEF PageTypeOK
<1>4. RequestsOK'
  <2>1. \A x \in Readers : Allowed(x) => Allowed(x)'
    BY DEF Allowed
  <2>2. \A x \in Readers : reader[x].pc = "sending" => ~IsGame(reader[x].content)
    BY DEF ProjectLocked
  <2>3. page.content # 0 => page.content \in 1..Len(contents)
    BY <1>1, ContentFacts
  <2>4. IsGame(page.content)' => IsGame(page.content)
    BY <1>2, <2>3 DEF IsGame
  <2> QED  BY <2>1, <2>2, <2>4 DEF PageIInv, RequestsOK
<1>5. InvitationsOK'
  BY DEF PageIInv, InvitationsOK
<1>6. SharedOK'
  BY <1>1, <1>2, ContentFacts DEF PageIInv, SharedOK
<1>7. SeenOK'
  BY DEF PageIInv, SeenOK
<1> QED  BY <1>3, <1>4, <1>5, <1>6, <1>7 DEF PageIInv

LEMMA PageWithdrawStep ==
  ASSUME PageIInv, PageWithdraw
  PROVE  PageIInv'
  BY StaleStep, PageBoundsAssumption DEF PageWithdraw, Moves, PageIInv, PageTypeOK

LEMMA ShiftStep ==
  ASSUME PageIInv, Shift
  PROVE  PageIInv'
  BY StaleStep, PageBoundsAssumption DEF Shift, Moves, PageIInv, PageTypeOK

LEMMA PageBeginStep ==
  ASSUME PageIInv, PageBegin
  PROVE  PageIInv'
  BY StaleStep DEF PageBegin, PageIInv, PageTypeOK

\* Nothing is being sent while the page changes, and a change of its revision
\* is one no device shows.
LEMMA Unlocked ==
  ASSUME PageIInv, ~PageLocked, UNCHANGED <<reader, seen>>, page'.revision > page.revision,
         page'.revision \in Nat
  PROVE  RequestsOK' /\ SeenOK'
<1>1. \A x \in Readers : reader[x].pc # "sending"
  BY DEF PageLocked
<1>2. RequestsOK'
  BY <1>1 DEF PageIInv, RequestsOK
<1>3. \A d \in Devices : seen[d].revision \in Nat
  BY PageBoundsAssumption DEF PageIInv, PageTypeOK, Shown
<1>4. page.revision \in Nat
  BY ContentFacts DEF PageIInv
<1>5. SeenOK'
  BY <1>3, <1>4 DEF PageIInv, SeenOK
<1> QED  BY <1>2, <1>5

LEMMA PublishStep ==
  ASSUME PageIInv, NEW kind \in {"game", "debug", "example"}, Publish(kind)
  PROVE  PageIInv'
<1> DEFINE n == Len(contents)
           new == [kind |-> kind, authority |-> authority, state |-> "published"]
<1>1. PageTypeOK
  BY DEF PageIInv
<1>2. n \in Nat /\ n + 1 \in 0..MaxContents /\ page.content = n /\ page.content_revision = n
  BY <1>1, ContentFacts, PageBoundsAssumption DEF Publish
<1>3. new \in Content
  BY <1>1 DEF Content, PageTypeOK
<1>4. contents' = Append(contents, new) /\ contents \in Seq(Content)
  BY <1>1 DEF Publish, PageTypeOK
<1>5. contents' \in Seq(Content) /\ Len(contents') = n + 1
  BY <1>3, <1>4
<1>6. page.revision \in Nat /\ page.revision + 1 \in 0..MaxRevision
  BY <1>1, ContentFacts, PageBoundsAssumption DEF Publish
<1>7. page' = [content |-> n + 1, visibility |-> "private", revision |-> page.revision + 1,
               content_revision |-> n + 1]
  BY <1>2, <1>5 DEF Publish, Linked
<1>8. /\ page'.content = n + 1 /\ page'.visibility = "private"
      /\ page'.revision = page.revision + 1 /\ page'.content_revision = n + 1
  BY <1>7
<1>9. page' \in Page
  BY <1>2, <1>6, <1>7 DEF Page, Visibility
<1>10. PageTypeOK'
  <2>1. \A x \in Readers : reader'[x].content \in 0..Len(contents')
    BY <1>1, <1>2, <1>5 DEF Publish, PageTypeOK
  <2>2. sharedFrom' \in 0..Len(contents')
    BY <1>1, <1>2, <1>5 DEF Publish, PageTypeOK
  <2> QED  BY <1>1, <1>2, <1>5, <1>8, <1>9, <2>1, <2>2 DEF Publish, PageTypeOK
<1>11. RequestsOK' /\ SeenOK'
  BY <1>6, <1>8, Unlocked DEF Publish
<1>12. InvitationsOK'
  <2> SUFFICES ASSUME NEW v \in Viewers
               PROVE  /\ \A c \in 1..MaxContents :
                           /\ invitations[v][c].accepted => invitations[v][c].sent
                           /\ c > n + 1 => ~invitations[v][c].sent
                      /\ ~invitations[v][n + 1].sent
    BY <1>8 DEF InvitationsOK, Publish
  <2>1. \A c \in 1..MaxContents : c > n + 1 => c > n
    BY <1>2, PageBoundsAssumption
  <2>2. n + 1 \in 1..MaxContents /\ n + 1 > n
    BY <1>2, PageBoundsAssumption
  <2> QED  BY <1>2, <2>1, <2>2 DEF PageIInv, InvitationsOK
<1>13. SharedOK'
  BY <1>8 DEF SharedOK
<1> QED  BY <1>10, <1>11, <1>12, <1>13 DEF PageIInv

-----------------------------------------------------------------------------
(* Reading.                                                                *)

\* A step of one request that changes nothing else.
LEMMA RequestStep ==
  ASSUME PageIInv, NEW x \in Readers, NEW r \in Request,
         reader' = [reader EXCEPT ![x] = r],
         UNCHANGED <<authority, contents, page, invitations, guests, sharedFrom>>,
         r.content \in 0..Len(contents),
         r.pc # "idle" => r.content # 0 /\ r.content_revision = r.content,
         r.pc = "sending" => /\ r.content = page.content
                             /\ IsGame(page.content) => Current(page.content)
                             /\ Allowed(x),
         seen' \in [Devices -> Shown], SeenOK'
  PROVE  PageIInv'
<1>1. PageTypeOK'
  BY DEF PageIInv, PageTypeOK
<1>2. RequestsOK'
  BY DEF PageIInv, PageTypeOK, RequestsOK, Allowed, IsGame, Current
<1>3. InvitationsOK' /\ SharedOK'
  BY DEF PageIInv, InvitationsOK, SharedOK
<1> QED  BY <1>1, <1>2, <1>3 DEF PageIInv

LEMMA PeekStep ==
  ASSUME PageIInv, NEW x \in Readers, Peek(x)
  PROVE  PageIInv'
<1>1. PageTypeOK
  BY DEF PageIInv
<1>2. PICK r : r = [pc |-> "peeked", content |-> page.content,
                    content_revision |-> page.content_revision]
  OBVIOUS
<1>3. page.content = Len(contents) /\ page.content_revision = Len(contents) /\ Len(contents) \in Nat
  BY <1>1, ContentFacts, PageBoundsAssumption
<1>4. /\ r.pc = "peeked" /\ r.content = page.content /\ r.content_revision = page.content
      /\ r \in Request /\ r.content \in 0..Len(contents)
  BY <1>1, <1>2, <1>3, ContentFacts DEF Request
<1>5. seen' \in [Devices -> Shown] /\ SeenOK'
  BY <1>1 DEF Peek, PageTypeOK, PageIInv, SeenOK
<1>6. reader' = [reader EXCEPT ![x] = r] /\ page.content # 0
  BY <1>2 DEF Peek
<1> QED  BY <1>4, <1>5, <1>6, RequestStep DEF Peek

LEMMA LeaveStep ==
  ASSUME PageIInv, NEW x \in Readers, Leave(x)
  PROVE  PageIInv'
<1>1. PageTypeOK
  BY DEF PageIInv
<1>2. IdleReader \in Request /\ IdleReader.pc = "idle" /\ IdleReader.content \in 0..Len(contents)
  BY <1>1, ContentFacts, PageBoundsAssumption DEF IdleReader, Request
<1>3. seen' \in [Devices -> Shown] /\ SeenOK'
  BY <1>1 DEF Leave, PageTypeOK, PageIInv, SeenOK
<1> QED  BY <1>2, <1>3, RequestStep DEF Leave

LEMMA ServeStep ==
  ASSUME PageIInv, NEW x \in Readers, Serve(x)
  PROVE  PageIInv'
<1>1. PageTypeOK
  BY DEF PageIInv
<1>2. reader[x] \in Request /\ reader[x].content \in 0..Len(contents)
  BY <1>1 DEF PageTypeOK
<1>3. reader[x].pc = "peeked" /\ reader[x].content = reader[x].content_revision
  BY DEF Serve, PageIInv, RequestsOK
<1>4. reader[x].content = page.content
  BY <1>1, <1>3, ContentFacts DEF Serve, StillServed
<1>5. PICK r : r = [reader[x] EXCEPT !.pc = "sending", !.content = page.content]
  OBVIOUS
<1>6. /\ r \in Request /\ r.pc = "sending" /\ r.content = page.content
      /\ r.content_revision = reader[x].content_revision
  BY <1>2, <1>4, <1>5 DEF Request
<1>7. reader' = [reader EXCEPT ![x] = r]
  BY <1>1, <1>4, <1>5 DEF Serve, PageTypeOK
<1>8. /\ IsGame(page.content) => Current(page.content)
      /\ Allowed(x) /\ r.content # 0
  BY <1>3, <1>4, <1>6 DEF Serve, StillServed, PageIInv, RequestsOK
<1>9. seen' \in [Devices -> Shown] /\ SeenOK'
  BY <1>1 DEF Serve, PageTypeOK, PageIInv, SeenOK
<1> QED  BY <1>2, <1>3, <1>4, <1>6, <1>7, <1>8, <1>9, RequestStep DEF Serve

LEMMA ShowStep ==
  ASSUME PageIInv, NEW d \in Devices, Show(d)
  PROVE  PageIInv'
<1>1. PageTypeOK
  BY DEF PageIInv
<1>2. d \in Readers
  BY DEF Readers
<1>3. reader[d].content = page.content
  BY <1>2 DEF Show, PageIInv, RequestsOK
<1>4. IdleReader \in Request /\ IdleReader.pc = "idle" /\ IdleReader.content \in 0..Len(contents)
  BY <1>1, ContentFacts, PageBoundsAssumption DEF IdleReader, Request
<1>5. PICK s : s = [content |-> page.content, guests |-> guests,
                    visibility |-> page.visibility, revision |-> page.revision]
  OBVIOUS
<1>6. /\ s \in Shown /\ s.content = page.content /\ s.guests = guests
      /\ s.visibility = page.visibility /\ s.revision = page.revision
  BY <1>1, <1>5 DEF PageTypeOK, Page, Shown
<1>7. seen' = [seen EXCEPT ![d] = s]
  BY <1>3, <1>5 DEF Show
<1>8. seen' \in [Devices -> Shown]
  BY <1>1, <1>6, <1>7 DEF PageTypeOK
<1>9. SeenOK'
  <2>1. page.revision <= page.revision
    BY <1>1, ContentFacts
  <2>2. \A e \in Devices : seen'[e] = IF e = d THEN s ELSE seen[e]
    BY <1>1, <1>7 DEF PageTypeOK
  <2> QED  BY <1>6, <2>1, <2>2 DEF Show, PageIInv, SeenOK
<1> QED  BY <1>2, <1>4, <1>8, <1>9, RequestStep DEF Show

-----------------------------------------------------------------------------
(* Sharing.                                                                *)

\* What a change the page accepts from a device finds.
LEMMA ManagesFacts ==
  ASSUME PageIInv, NEW d \in Devices, Manages(d)
  PROVE  /\ page.content \in 1..Len(contents) /\ page.content \in 1..MaxContents
         /\ page.content_revision = page.content
         /\ page.revision \in Nat /\ page.revision + 1 \in 0..MaxRevision
         /\ seen[d].content = page.content /\ seen[d].visibility = page.visibility
         /\ seen[d].guests = guests
<1>1. PageTypeOK
  BY DEF PageIInv
<1>2. page.content # 0 /\ seen[d].revision = page.revision /\ page.revision < MaxRevision
  BY DEF Manages
<1>3. page.revision + 1 \in 0..MaxRevision
  BY <1>1, <1>2, ContentFacts, PageBoundsAssumption
<1> QED  BY <1>1, <1>2, <1>3, ContentFacts, PageBoundsAssumption DEF PageIInv, SeenOK

\* The page with its next revision, and perhaps another audience.
LEMMA NextRevision ==
  ASSUME PageIInv, NEW d \in Devices, Manages(d), NEW visibility \in Visibility
  PROVE  LET q == [page EXCEPT !.visibility = visibility, !.revision = @ + 1]
         IN  /\ q \in Page /\ q.visibility = visibility /\ q.revision = page.revision + 1
             /\ q.content = page.content /\ q.content_revision = page.content_revision
<1>1. page \in Page
  BY DEF PageIInv, PageTypeOK
<1>2. PICK w \in 0..MaxRevision : w = page.revision + 1
  BY ManagesFacts
<1>3. PICK q : q = [page EXCEPT !.visibility = visibility, !.revision = w]
  OBVIOUS
<1>4. /\ q \in Page /\ q.visibility = visibility /\ q.revision = w
      /\ q.content = page.content /\ q.content_revision = page.content_revision
  BY <1>1, <1>2, <1>3 DEF Page
<1>5. q = [page EXCEPT !.visibility = visibility, !.revision = @ + 1]
  BY <1>1, <1>2, <1>3
<1> QED  BY <1>2, <1>4, <1>5

LEMMA SetVisibilityStep ==
  ASSUME PageIInv, NEW d \in Devices, NEW visibility \in Visibility, SetVisibility(d, visibility)
  PROVE  PageIInv'
<1>1. PageTypeOK /\ Manages(d) /\ ~PageLocked
  BY DEF PageIInv, SetVisibility, Manages
<1>2. /\ page' \in Page /\ page'.visibility = visibility /\ page'.revision = page.revision + 1
      /\ page'.content = page.content /\ page'.content_revision = page.content_revision
  BY <1>1, NextRevision DEF SetVisibility
<1>3. /\ page.content \in 1..Len(contents) /\ sharedFrom' = page.content
      /\ page.revision \in Nat /\ page.revision + 1 \in Nat
  BY <1>1, ManagesFacts, PageBoundsAssumption DEF SetVisibility
<1>4. sharedFrom' \in 0..Len(contents) /\ page.content # 0
  BY <1>1, <1>3, ContentFacts, PageBoundsAssumption
<1>5. PageTypeOK'
  BY <1>1, <1>2, <1>4 DEF SetVisibility, PageTypeOK
<1>6. RequestsOK' /\ SeenOK'
  BY <1>1, <1>2, <1>3, Unlocked DEF SetVisibility
<1>7. InvitationsOK'
  BY <1>2 DEF SetVisibility, PageIInv, InvitationsOK
<1>8. SharedOK'
  BY <1>2, <1>3, <1>4 DEF SetVisibility, Shareable, SharedOK
<1> QED  BY <1>5, <1>6, <1>7, <1>8 DEF PageIInv

\* A change of one invitation to the present content, of who is a guest and
\* perhaps of the revision, that no response runs beside.
LEMMA InvitationStep ==
  ASSUME PageIInv, NEW v \in Viewers, NEW i \in Invitation, page.content # 0,
         invitations' = [invitations EXCEPT ![v] = [@ EXCEPT ![page.content] = i]],
         UNCHANGED <<authority, contents, seen, reader, sharedFrom>>,
         page' \in Page, page'.content = page.content,
         page'.content_revision = page.content_revision, page'.visibility = page.visibility,
         guests' \in {guests, guests \cup {v}, guests \ {v}},
         i.accepted => i.sent, i.sent /\ ~i.revoked => v \in guests',
         RequestsOK', SeenOK'
  PROVE  PageIInv'
<1>1. PageTypeOK
  BY DEF PageIInv
<1>2. page.content \in 1..MaxContents
  BY <1>1, ContentFacts, PageBoundsAssumption
<1>3. invitations' \in [Viewers -> [1..MaxContents -> Invitation]]
  BY <1>1, <1>2 DEF PageTypeOK
<1>4. PageTypeOK'
  BY <1>1, <1>3 DEF PageTypeOK
<1>5. \A u \in Viewers, c \in 1..MaxContents :
        invitations'[u][c] = IF u = v /\ c = page.content THEN i ELSE invitations[u][c]
  BY <1>1, <1>2 DEF PageTypeOK
<1>6. ~(page.content > page.content)
  BY <1>1, ContentFacts
<1>7. InvitationsOK'
  <2> SUFFICES ASSUME NEW u \in Viewers
               PROVE  /\ \A c \in 1..MaxContents :
                           /\ invitations'[u][c].accepted => invitations'[u][c].sent
                           /\ c > page.content => ~invitations'[u][c].sent
                      /\ invitations'[u][page.content].sent
                           /\ ~invitations'[u][page.content].revoked => u \in guests'
    BY DEF InvitationsOK
  <2>1. CASE u = v
    BY <1>2, <1>5, <1>6, <2>1 DEF PageIInv, InvitationsOK
  <2>2. CASE u # v
    BY <1>2, <1>5, <2>2 DEF PageIInv, InvitationsOK
  <2> QED  BY <2>1, <2>2
<1>8. SharedOK'
  BY DEF PageIInv, SharedOK
<1> QED  BY <1>4, <1>7, <1>8 DEF PageIInv

\* The same page under its next revision.
LEMMA SameAudience ==
  ASSUME PageIInv, NEW d \in Devices, Manages(d)
  PROVE  LET q == [page EXCEPT !.revision = @ + 1]
         IN  /\ q \in Page /\ q.visibility = page.visibility /\ q.revision = page.revision + 1
             /\ q.content = page.content /\ q.content_revision = page.content_revision
<1>1. page \in Page
  BY DEF PageIInv, PageTypeOK
<1>2. PICK w \in 0..MaxRevision : w = page.revision + 1
  BY ManagesFacts
<1>3. PICK q : q = [page EXCEPT !.revision = w]
  OBVIOUS
<1>4. /\ q \in Page /\ q.visibility = page.visibility /\ q.revision = w
      /\ q.content = page.content /\ q.content_revision = page.content_revision
  BY <1>1, <1>2, <1>3 DEF Page
<1>5. q = [page EXCEPT !.revision = @ + 1]
  BY <1>1, <1>2, <1>3
<1> QED  BY <1>2, <1>4, <1>5

LEMMA InviteStep ==
  ASSUME PageIInv, NEW d \in Devices, NEW v \in Viewers, Invite(d, v)
  PROVE  PageIInv'
<1>1. PageTypeOK /\ Manages(d) /\ ~PageLocked
  BY DEF PageIInv, Invite, Manages
<1>2. /\ page.content \in 1..MaxContents /\ page.content # 0
      /\ page.content_revision = page.content
      /\ page.revision \in Nat /\ page.revision + 1 \in Nat
  BY <1>1, ManagesFacts, PageBoundsAssumption
<1>3. /\ page' \in Page /\ page'.visibility = page.visibility
      /\ page'.revision = page.revision + 1
      /\ page'.content = page.content /\ page'.content_revision = page.content_revision
  BY <1>1, SameAudience DEF Invite
<1>4. PICK i : i = [NoInvitation EXCEPT !.sent = TRUE]
  OBVIOUS
<1>5. i \in Invitation /\ i.sent /\ ~i.accepted /\ ~i.revoked
  BY <1>4 DEF NoInvitation, Invitation
<1>6. invitations' = [invitations EXCEPT ![v] = [@ EXCEPT ![page.content] = i]]
  BY <1>1, <1>2, <1>4 DEF Invite, PageTypeOK
<1>7. RequestsOK' /\ SeenOK'
  BY <1>1, <1>2, <1>3, Unlocked DEF Invite
<1>8. guests' = guests \cup {v}
  BY DEF Invite
<1> QED  BY <1>2, <1>3, <1>5, <1>6, <1>7, <1>8, InvitationStep DEF Invite

LEMMA RevokeStep ==
  ASSUME PageIInv, NEW d \in Devices, NEW v \in Viewers, Revoke(d, v)
  PROVE  PageIInv'
<1>1. PageTypeOK /\ Manages(d) /\ ~PageLocked
  BY DEF PageIInv, Revoke, Manages
<1>2. /\ page.content \in 1..MaxContents /\ page.content # 0
      /\ page.content_revision = page.content
      /\ page.revision \in Nat /\ page.revision + 1 \in Nat
  BY <1>1, ManagesFacts, PageBoundsAssumption
<1>3. /\ page' \in Page /\ page'.visibility = page.visibility
      /\ page'.revision = page.revision + 1
      /\ page'.content = page.content /\ page'.content_revision = page.content_revision
  BY <1>1, SameAudience DEF Revoke, RevokedPage
<1>4. PICK old : old = invitations[v][page.content]
  OBVIOUS
<1>5. old \in Invitation /\ (old.accepted => old.sent)
  BY <1>1, <1>2, <1>4 DEF PageTypeOK, PageIInv, InvitationsOK
<1>6. PICK i : i = [old EXCEPT !.revoked = TRUE]
  OBVIOUS
<1>7. i \in Invitation /\ i.sent = old.sent /\ i.accepted = old.accepted /\ i.revoked
  BY <1>5, <1>6 DEF Invitation
<1>8. invitations' = [invitations EXCEPT ![v] = [@ EXCEPT ![page.content] = i]]
  BY <1>1, <1>2, <1>4, <1>6 DEF Revoke, PageTypeOK
<1>9. RequestsOK' /\ SeenOK'
  BY <1>1, <1>2, <1>3, Unlocked DEF Revoke
<1>10. guests' = guests \ {v}
  BY DEF Revoke
<1> QED  BY <1>2, <1>3, <1>5, <1>7, <1>8, <1>9, <1>10, InvitationStep DEF Revoke

LEMMA AcceptStep ==
  ASSUME PageIInv, NEW v \in Viewers, Accept(v)
  PROVE  PageIInv'
<1>1. PageTypeOK /\ ~PageLocked /\ page.content # 0
  BY DEF PageIInv, Accept
<1>2. page.content \in 1..MaxContents /\ page.content_revision = page.content
  BY <1>1, ContentFacts, PageBoundsAssumption
<1>3. PICK old : old = invitations[v][page.content]
  OBVIOUS
<1>4. old \in Invitation /\ old.sent /\ ~old.revoked /\ v \in guests
  BY <1>1, <1>2, <1>3 DEF PageTypeOK, Accept, PageIInv, InvitationsOK
<1>5. PICK i : i = [old EXCEPT !.accepted = TRUE]
  OBVIOUS
<1>6. i \in Invitation /\ i.sent /\ ~i.revoked
  BY <1>4, <1>5 DEF Invitation
<1>7. invitations' = [invitations EXCEPT ![v] = [@ EXCEPT ![page.content] = i]]
  BY <1>1, <1>2, <1>3, <1>5 DEF Accept, PageTypeOK
<1>8. RequestsOK'
  <2>1. \A x \in Readers : reader[x].pc # "sending"
    BY <1>1 DEF PageLocked
  <2> QED  BY <2>1 DEF Accept, PageIInv, RequestsOK
<1>9. SeenOK'
  BY DEF Accept, PageIInv, SeenOK
<1>10. page' \in Page
  BY <1>1 DEF Accept, PageTypeOK
<1> QED  BY <1>1, <1>4, <1>6, <1>7, <1>8, <1>9, <1>10, InvitationStep DEF Accept

LEMMA ExpireStep ==
  ASSUME PageIInv, NEW v \in Viewers, Expire(v)
  PROVE  PageIInv'
<1>1. PageTypeOK /\ page.content # 0
  BY DEF PageIInv, Expire
<1>2. page.content \in 1..MaxContents /\ page.content_revision = page.content
  BY <1>1, ContentFacts, PageBoundsAssumption
<1>3. PICK old : old = invitations[v][page.content]
  OBVIOUS
<1>4. old \in Invitation /\ old.sent /\ (old.sent /\ ~old.revoked => v \in guests)
  BY <1>1, <1>2, <1>3 DEF PageTypeOK, Expire, PageIInv, InvitationsOK
<1>5. PICK i : i = [old EXCEPT !.expired = TRUE]
  OBVIOUS
<1>6. i \in Invitation /\ i.sent /\ i.revoked = old.revoked /\ i.accepted = old.accepted
  BY <1>4, <1>5 DEF Invitation
<1>7. invitations' = [invitations EXCEPT ![v] = [@ EXCEPT ![page.content] = i]]
  BY <1>1, <1>2, <1>3, <1>5 DEF Expire, PageTypeOK
<1>8. \A x \in Readers : Allowed(x) => Allowed(x)'
  BY <1>1, <1>2, <1>3, <1>6, <1>7 DEF Allowed, Expire, PageTypeOK
<1>9. RequestsOK'
  BY <1>8 DEF Expire, PageIInv, RequestsOK, IsGame, Current
<1>10. SeenOK'
  BY DEF Expire, PageIInv, SeenOK
<1>11. page' \in Page
  BY <1>1 DEF Expire, PageTypeOK
<1> QED  BY <1>1, <1>4, <1>6, <1>7, <1>9, <1>10, <1>11, InvitationStep DEF Expire

-----------------------------------------------------------------------------
(* The invariant.                                                          *)

LEMMA PageInitIInv == PageInit => PageIInv
<1> SUFFICES ASSUME PageInit PROVE PageIInv
  OBVIOUS
<1>1. /\ NoPage.content = 0 /\ NoPage.content_revision = 0 /\ NoPage.visibility = "private"
      /\ NoPage.revision = 0 /\ NoPage \in Page
  BY PageBoundsAssumption DEF NoPage, Page, Visibility
<1>2. NoInvitation \in Invitation /\ ~NoInvitation.sent /\ ~NoInvitation.accepted
  BY DEF NoInvitation, Invitation
<1>3. IdleReader \in Request /\ IdleReader.pc = "idle" /\ IdleReader.content = 0
  BY PageBoundsAssumption DEF IdleReader, Request
<1>4. contents \in Seq(Content) /\ Len(contents) = 0
  BY DEF PageInit
<1>5. PICK s : s = [content |-> 0, visibility |-> "private", revision |-> 0, guests |-> {}]
  OBVIOUS
<1>6. s \in Shown /\ s.revision = 0
  BY <1>5, PageBoundsAssumption DEF Shown, Visibility
<1>7. seen = [d \in Devices |-> s]
  BY <1>5 DEF PageInit
<1>8. PageTypeOK
  <2>1. invitations \in [Viewers -> [1..MaxContents -> Invitation]]
    BY <1>2 DEF PageInit
  <2>2. seen \in [Devices -> Shown]
    BY <1>6, <1>7
  <2>3. reader \in [Readers -> Request] /\ \A x \in Readers : reader[x].content = 0
    BY <1>3 DEF PageInit
  <2>4. 0 \in 0..Len(contents) /\ Len(contents) <= MaxContents /\ 0 \in 0..MaxAuthority
    BY <1>4, PageBoundsAssumption
  <2>5. page \in Page /\ page.content = Len(contents) /\ page.content_revision = Len(contents)
    BY <1>1, <1>4 DEF PageInit
  <2>6. authority = 0 /\ guests = {} /\ sharedFrom = 0
    BY DEF PageInit
  <2> QED  BY <1>4, <2>1, <2>2, <2>3, <2>4, <2>5, <2>6 DEF PageTypeOK
<1>9. RequestsOK
  BY <1>3 DEF PageInit, RequestsOK
<1>10. InvitationsOK
  BY <1>1, <1>2 DEF PageInit, InvitationsOK
<1>11. SharedOK /\ SeenOK
  BY <1>1, <1>6, <1>7 DEF PageInit, SharedOK, SeenOK
<1> QED  BY <1>8, <1>9, <1>10, <1>11 DEF PageIInv

LEMMA PageNextIInv == PageIInv /\ [PageNext]_pageVars => PageIInv'
<1> SUFFICES ASSUME PageIInv, [PageNext]_pageVars PROVE PageIInv'
  OBVIOUS
<1>1. CASE UNCHANGED pageVars
  BY <1>1 DEF pageVars, PageIInv, PageTypeOK, RequestsOK, InvitationsOK, SharedOK, SeenOK, Allowed, IsGame,
     Current
<1>2. CASE PageNext
  BY <1>2, PageWithdrawStep, ShiftStep, PageBeginStep, PublishStep, PeekStep, ServeStep, LeaveStep,
     ShowStep, SetVisibilityStep, InviteStep, RevokeStep, AcceptStep, ExpireStep DEF PageNext, Uses
<1> QED  BY <1>1, <1>2

(* The inductive invariant, for any viewers, devices and bounds.           *)
THEOREM PageInvariance == PageSpec => []PageIInv
<1> QED  BY PageInitIInv, PageNextIInv, PTL DEF PageSpec

(* Type correctness: the page's content is always the last one published.  *)
THEOREM PageTypesHold == PageSpec => []PageTypeOK
<1>1. PageIInv => PageTypeOK
  BY DEF PageIInv
<1> QED  BY PageInvariance, <1>1, PTL

(* What any reader is being sent is what the page shows, current to the    *)
(* last byte (read_story_game_page under the locks of StoryGameResponse).  *)
THEOREM ResponsesAreCurrent == PageSpec => []SendingIsCurrent
<1>1. PageIInv => SendingIsCurrent
  BY DEF PageIInv, RequestsOK, SendingIsCurrent
<1> QED  BY PageInvariance, <1>1, PTL

(* No viewer is being sent what the owner does not share with them, or a   *)
(* game of local debugging (story_game_page_allowed, and the check of      *)
(* share_story_game_page), however sharing and publication interleave.     *)
THEOREM ViewersAreAllowed == PageSpec => []ViewersSeeWhatIsShared
<1>1. ASSUME PageIInv PROVE ViewersSeeWhatIsShared
  <2> SUFFICES ASSUME NEW v \in Viewers, reader[v].pc = "sending"
               PROVE  /\ page.visibility = "public" \/ (page.visibility = "friends" /\ v \in guests)
                      /\ contents[reader[v].content].kind # "debug"
    BY DEF ViewersSeeWhatIsShared, SendingIsShared, DebugGamesStayPrivate
  <2>1. PageTypeOK /\ v \in Readers
    BY <1>1 DEF PageIInv, Readers
  <2>2. reader[v].content = page.content /\ Allowed(v) /\ page.content # 0
    BY <1>1, <2>1 DEF PageIInv, RequestsOK
  <2>3. page.content \in 1..MaxContents /\ page.content_revision = page.content
    BY <2>1, <2>2, ContentFacts, PageBoundsAssumption
  <2>4. v \notin Devices
    BY ReadersAssumption
  <2>5. page.visibility = "public" \/ (page.visibility = "friends" /\ v \in guests)
    BY <1>1, <2>2, <2>3, <2>4 DEF Allowed, PageIInv, InvitationsOK
  <2>6. contents[page.content].kind # "debug"
    BY <1>1, <2>5 DEF PageIInv, SharedOK
  <2> QED  BY <2>2, <2>5, <2>6
<1> QED  BY PageInvariance, <1>1, PTL

(* The owner shares only what they saw, and a device whose change will be  *)
(* accepted shows the page as it is (the expected revision of every call). *)
THEOREM SharingIsInformed == PageSpec => []SharingIsDecided
<1>1. PageIInv => SharingIsDecided
  BY DEF PageIInv, SharedOK, SeenOK, SharingIsDecided, SharedContentWasSeen, RevisionNamesThePage
<1> QED  BY PageInvariance, <1>1, PTL

-----------------------------------------------------------------------------
(* Games and their page together (StoryGames).                             *)

\* What holds a game back from being stale holds: edition and consent.
EligibleOK == \A g \in GameIds : games[g].state \notin {"none", "stale"} => eligible

\* A content with an origin shows the row of that game.
OriginOK ==
  /\ origin \in Seq(0..MaxGames) /\ Len(origin) = Len(contents)
  /\ \A c \in 1..Len(contents) :
       /\ contents[c].kind = IF origin[c] = 0 THEN "example" ELSE "game"
       /\ origin[c] # 0 =>
            /\ games[origin[c]].state \in {"published", "stale"}
            /\ contents[c].state = games[origin[c]].state
            /\ contents[c].authority = games[origin[c]].authority

JointIInv == IInv /\ PageIInv /\ EligibleOK /\ OriginOK

LEMMA OriginFacts ==
  ASSUME JointIInv, NEW c \in 1..Len(contents)
  PROVE  /\ origin[c] \in 0..MaxGames /\ contents[c] \in Content
         /\ origin[c] # 0 => origin[c] \in GameIds
         /\ IsGame(c) <=> origin[c] # 0
         /\ c \in Games <=> origin[c] # 0
         /\ DOMAIN contents = 1..Len(contents) /\ Len(contents) \in Nat
<1>1. Len(contents) \in Nat /\ DOMAIN contents = 1..Len(contents) /\ contents[c] \in Content
  BY ContentFacts, PageBoundsAssumption DEF JointIInv, PageIInv
<1>2. origin[c] \in 0..MaxGames
  <2> DEFINE ids == 0..MaxGames
  <2>1. origin \in Seq(ids) /\ c \in 1..Len(origin)
    BY DEF JointIInv, OriginOK
  <2> HIDE DEF ids
  <2>2. origin[c] \in ids
    BY <2>1
  <2> QED  BY <2>2 DEF ids
<1>3. origin[c] # 0 => origin[c] \in GameIds
  BY <1>2, BoundsAssumption DEF GameIds
<1>4. c # 0
  BY <1>1
<1>5. IsGame(c) <=> origin[c] # 0
  BY <1>4 DEF IsGame, JointIInv, OriginOK
<1> QED  BY <1>1, <1>2, <1>3, <1>5 DEF Games

\* Of two linked games one at most is published, and nothing else is current.
LEMMA OnePublished ==
  ASSUME JointIInv, NEW g \in GameIds, IsCurrent(games[g]),
         NEW c \in 1..Len(contents), origin[c] # 0, origin[c] # g
  PROVE  contents[c].state = "stale"
<1>1. games[origin[c]].state \in {"published", "stale"} /\ contents[c].state = games[origin[c]].state
  BY DEF JointIInv, OriginOK
<1>2. ~IsCurrent(games[origin[c]])
  BY OriginFacts DEF JointIInv, IInv, AtMostOne
<1> QED  BY <1>1, <1>2 DEF IsCurrent, CurrentStates

-----------------------------------------------------------------------------
(* The contents follow their games.                                        *)

LEMMA FollowedFacts ==
  ASSUME JointIInv, [Next]_vars
  PROVE  /\ Followed(games') \in Seq(Content) /\ Len(Followed(games')) = Len(contents)
         /\ \A c \in 1..Len(contents) :
              /\ Followed(games')[c].kind = contents[c].kind
              /\ Followed(games')[c].authority = contents[c].authority
              /\ Followed(games')[c].state =
                   IF origin[c] = 0 THEN contents[c].state ELSE games'[origin[c]].state
              /\ origin[c] # 0 => games'[origin[c]].state \in {"published", "stale"}
<1>1. Len(contents) \in Nat /\ DOMAIN contents = 1..Len(contents)
  BY ContentFacts, PageBoundsAssumption DEF JointIInv, PageIInv
<1>2. ASSUME NEW c \in 1..Len(contents), origin[c] # 0
      PROVE  /\ games'[origin[c]].state \in {"published", "stale"}
             /\ games'[origin[c]].state = "published" => contents[c].state = "published"
  <2>1. games[origin[c]].state \in {"published", "stale"} /\ contents[c].state = games[origin[c]].state
    BY <1>2 DEF JointIInv, OriginOK
  <2>2. Lasting(games[origin[c]], games'[origin[c]])
    BY <1>2, OriginFacts, LastingStep DEF JointIInv
  <2> QED  BY <2>1, <2>2 DEF Lasting
<1> DEFINE x(c) == IF origin[c] # 0 /\ games'[origin[c]].state # "published"
                   THEN [contents[c] EXCEPT !.state = "stale"] ELSE contents[c]
<1>3. ASSUME NEW c \in 1..Len(contents)
      PROVE  /\ x(c) \in Content /\ x(c).kind = contents[c].kind
             /\ x(c).authority = contents[c].authority
             /\ x(c).state = IF origin[c] = 0 THEN contents[c].state ELSE games'[origin[c]].state
  <2>1. contents[c] \in Content
    BY OriginFacts
  <2>2. CASE origin[c] # 0 /\ games'[origin[c]].state # "published"
    BY <2>1, <2>2, <1>2 DEF Content
  <2>3. CASE ~(origin[c] # 0 /\ games'[origin[c]].state # "published")
    BY <2>1, <2>3, <1>2
  <2> QED  BY <2>2, <2>3
<1>4. Followed(games') = [c \in 1..Len(contents) |-> x(c)]
  BY <1>1 DEF Followed
<1> HIDE DEF x
<1>5. Followed(games') \in [1..Len(contents) -> Content]
  BY <1>3, <1>4
<1>6. Followed(games') \in Seq(Content) /\ Len(Followed(games')) = Len(contents)
  BY <1>1, <1>5
<1> QED  BY <1>2, <1>3, <1>4, <1>6

\* What following comes to, if S are the contents made stale.
LEMMA FollowedIs ==
  ASSUME JointIInv, NEW S, \A c \in S : origin[c] # 0,
         \A c \in 1..Len(contents) : origin[c] # 0 =>
           (games'[origin[c]].state # "published" <=> c \in S \/ contents[c].state = "stale")
  PROVE  Followed(games') = StaleContents(S)
<1>1. DOMAIN contents = 1..Len(contents)
  BY ContentFacts DEF JointIInv, PageIInv
<1>2. ASSUME NEW c \in 1..Len(contents)
      PROVE  (IF origin[c] # 0 /\ games'[origin[c]].state # "published"
              THEN [contents[c] EXCEPT !.state = "stale"] ELSE contents[c])
             = (IF c \in S THEN [contents[c] EXCEPT !.state = "stale"] ELSE contents[c])
  <2>1. contents[c] \in Content
    BY OriginFacts
  <2>2. contents[c].state = "stale" => [contents[c] EXCEPT !.state = "stale"] = contents[c]
    BY <2>1 DEF Content
  <2> QED  BY <2>2
<1> QED  BY <1>1, <1>2 DEF Followed, StaleContents

LEMMA FollowedSame ==
  ASSUME JointIInv,
         \A c \in 1..Len(contents) : origin[c] # 0 => games'[origin[c]] = games[origin[c]]
  PROVE  Followed(games') = contents
<1>1. \A c \in 1..Len(contents) : origin[c] # 0 =>
        (games'[origin[c]].state # "published" <=> c \in {} \/ contents[c].state = "stale")
  BY DEF JointIInv, OriginOK
<1>2. Followed(games') = StaleContents({})
  BY <1>1, FollowedIs
<1>3. contents \in Seq(Content)
  BY DEF JointIInv, PageIInv, PageTypeOK
<1>4. StaleContents({}) = contents
  BY <1>3 DEF StaleContents
<1> QED  BY <1>2, <1>4

-----------------------------------------------------------------------------
(* Staging: the step that publishes a game.                                *)

\* A call that is accepted publishes the game it names, or none.
LEMMA StagingCall ==
  ASSUME IInv, NEW g \in GameIds, games[g].state # "published", games'[g].state = "published",
         NEW call \in Call, Accepts(call), Execute(call)
  PROVE  /\ Locks(g) /\ games[g].state = "running" /\ games'[g].authority = games[g].authority
         /\ \A h \in GameIds \ {g} : games'[h] = games[h]
<1>1. call.game \in GameIds
  BY DEF Call
<1>2. games' = [games EXCEPT ![call.game] = After(call)] /\ games \in [GameIds -> Game]
  BY GameFacts DEF Execute, GamesTyped
<1>3. call.game = g
  BY <1>1, <1>2
<1>4. games'[g] = After(call) /\ \A h \in GameIds \ {g} : games'[h] = games[h]
  BY <1>2, <1>3
<1>5. Locks(g) /\ games[g].state = "running"
  BY <1>3 DEF Accepts, Holds
<1>6. After(call).authority = games[g].authority
  BY <1>3, AfterOK
<1> QED  BY <1>4, <1>5, <1>6

LEMMA StagingWithdraw ==
  ASSUME IInv, NEW g \in GameIds, games[g].state # "published", Withdraw
  PROVE  games'[g].state # "published"
<1>1. games'[g] = IF g \in Begun THEN Stale(games[g]) ELSE games[g]
  BY DEF Withdraw
<1>2. g \in Begun => Stale(games[g]).state = "stale"
  BY GameFacts, StaleOK DEF Begun
<1> QED  BY <1>1, <1>2

LEMMA StagingReadStatus ==
  ASSUME IInv, NEW g \in GameIds, games[g].state # "published", ReadStatus
  PROVE  games'[g].state # "published"
<1>1. PICK h \in Begun : games' = [games EXCEPT ![h] = Stale(@)]
  BY DEF ReadStatus
<1>2. games'[g] = IF g = h THEN Stale(games[g]) ELSE games[g]
  BY <1>1, GameFacts DEF GamesTyped
<1>3. g \in Begun => Stale(games[g]).state = "stale"
  BY GameFacts, StaleOK DEF Begun
<1> QED  BY <1>2, <1>3

LEMMA StagingBegin ==
  ASSUME IInv, NEW g \in GameIds, games[g].state # "published", Begin
  PROVE  games'[g].state # "published"
<1>1. Kept[g].state # "published" /\ AutoSelected(Kept[g]).state # "published"
  <2>1. Kept[g] = IF Outdated(g) THEN Stale(games[g]) ELSE games[g]
    BY DEF Kept
  <2>2. Outdated(g) => Stale(games[g]).state = "stale"
    BY GameFacts, StaleOK DEF Outdated, CurrentStates
  <2>3. Kept[g].state # "published"
    BY <2>1, <2>2
  <2>4. Kept[g] \in Game
    BY KeptFacts
  <2> QED  BY <2>3, <2>4, KeptFacts, GameFacts, AutoSelectedOK
<1>2. CASE g \in Begun
  BY <1>1, <1>2, BeginGames
<1>3. CASE g \notin Begun
  <2>1. Kept[g] = games[g] /\ games[g].state = "none"
    BY <1>3 DEF Kept, Outdated, Begun, CurrentStates
  <2> DEFINE current == {h \in GameIds : Kept[h].state \in CurrentStates
                                         /\ Kept[h].authority = authority}
  <2>2. CASE games' = [h \in GameIds |-> IF h \in current THEN AutoSelected(Kept[h]) ELSE Kept[h]]
    BY <1>1, <2>2
  <2>3. ASSUME NEW h \in GameIds \ Begun,
               games' = [Kept EXCEPT ![h] = [NoGame EXCEPT !.state = "pending",
                                                           !.authority = authority]]
        PROVE  games'[g].state # "published"
    BY <1>1, <2>3 DEF Kept, NoGame
  <2> QED  BY <2>2, <2>3 DEF Begin, Kept
<1> QED  BY <1>2, <1>3

LEMMA StagingOwner ==
  ASSUME IInv, NEW g \in GameIds, games[g].state # "published",
         NEW h \in GameIds, Repeat(h) \/ Confirm(h) \/ Lapse(h)
  PROVE  games'[g].state # "published"
<1>1. games \in [GameIds -> Game] /\ games[g] \in Game /\ games[h] \in Game
  BY GameFacts DEF GamesTyped
<1>2. CASE Repeat(h)
  <2>1. games'[g] = IF g = h THEN AutoSelected(games[g]) ELSE games[g]
    BY <1>1, <1>2 DEF Repeat
  <2>2. AutoSelected(games[g]).state # "published"
    BY GameFacts, AutoSelectedOK
  <2> QED  BY <2>1, <2>2
<1>3. CASE Confirm(h)
  <2>1. PICK scenes \in Scenes :
          games' = [games EXCEPT ![h] = [@ EXCEPT !.selection = scenes, !.phase = "build",
                                                  !.state = "pending", !.attempts = 0]]
    BY <1>3 DEF Confirm
  <2> QED  BY <1>1, <2>1 DEF Game
<1>4. CASE Lapse(h)
  BY <1>1, <1>4 DEF Lapse, Game
<1> QED  BY <1>2, <1>3, <1>4

LEMMA StagingClaim ==
  ASSUME IInv, NEW g \in GameIds, games[g].state # "published", NEW w \in Workers, Claim(w)
  PROVE  games'[g].state # "published"
<1>1. games \in [GameIds -> Game] /\ games[g] \in Game
  BY GameFacts DEF GamesTyped
<1>2. PICK h \in GameIds :
        games' = [games EXCEPT ![h] = [@ EXCEPT !.state = "running", !.token = tokens + 1,
                                                !.live = TRUE,
                                                !.attempts = games[h].attempts + 1]]
  BY DEF Claim, Begun
<1> QED  BY <1>1, <1>2 DEF Game

\* A game is published by a call that holds it, bound to the present authority;
\* the rest of what the page shows is left alone.
LEMMA StagedStep ==
  ASSUME IInv, Next, NEW g \in Staged
  PROVE  /\ Locks(g) /\ games[g].state = "running" /\ games'[g].authority = games[g].authority
         /\ \A h \in GameIds \ {g} : games'[h] = games[h]
         /\ authority' = authority /\ eligible' = eligible
<1>1. g \in GameIds /\ games[g].state # "published" /\ games'[g].state = "published"
  BY DEF Staged
<1>2. ~Withdraw /\ ~ReadStatus /\ ~Begin
  BY <1>1, StagingWithdraw, StagingReadStatus, StagingBegin
<1>3. games' # games /\ ~Recompose
  BY <1>1 DEF Recompose
<1>4. \A w \in Workers :
        ~NothingToClaim(w) /\ ~Read(w) /\ ~Refused(w) /\ ~Interrupt(w) /\ ~Die(w) /\ ~Claim(w)
  BY <1>1, <1>3, StagingClaim DEF NothingToClaim, Read, Refused, Interrupt, Die
<1>5. \A h \in GameIds : ~Repeat(h) /\ ~Confirm(h) /\ ~Lapse(h)
  BY <1>1, StagingOwner
<1>6. Deliver \/ \E w \in Workers : Succeeds(w) \/ Unanswered(w)
  BY <1>2, <1>3, <1>4, <1>5 DEF Next
<1>7. authority' = authority /\ eligible' = eligible
  BY <1>6 DEF Deliver, Succeeds, Unanswered
<1>8. \E call \in Call : Accepts(call) /\ Execute(call)
  BY <1>3, <1>6, WorkerCalls, Frame DEF Deliver
<1> QED  BY <1>1, <1>7, <1>8, StagingCall

-----------------------------------------------------------------------------
(* Every step of the two together is a step of the page, or none.          *)

\* Which locks Follows asks for: contents that change were a published game's.
LEMMA FollowsLocks ==
  ASSUME JointIInv, [Next]_vars, Followed(games') # contents
  PROVE  TakesLock
<1>1. PICK c \in 1..Len(contents) : origin[c] # 0 /\ games'[origin[c]] # games[origin[c]]
  BY FollowedSame
<1>2. origin[c] \in GameIds /\ games[origin[c]].state \in {"published", "stale"}
  BY <1>1, OriginFacts DEF JointIInv, OriginOK
<1>3. ~games[origin[c]].live /\ games[origin[c]] \in Game
  BY <1>2, GameFacts DEF JointIInv, Sane
<1>4. [games[origin[c]] EXCEPT !.live = FALSE] = games[origin[c]]
  BY <1>3 DEF Game
<1> QED  BY <1>1, <1>2, <1>4 DEF TakesLock

Rest == <<page, invitations, seen, reader, guests, sharedFrom>>

LEMMA WithdrawIs ==
  ASSUME JointIInv, Withdraw, TakesLock => ~ProjectLocked, Follows, UNCHANGED Rest
  PROVE  PageWithdraw
<1>1. \A c \in 1..Len(contents) : origin[c] # 0 => games'[origin[c]].state = "stale"
  <2> SUFFICES ASSUME NEW c \in 1..Len(contents), origin[c] # 0
               PROVE  games'[origin[c]].state = "stale"
    OBVIOUS
  <2>1. origin[c] \in Begun
    BY OriginFacts DEF Begun, JointIInv, OriginOK
  <2>2. games'[origin[c]] = Stale(games[origin[c]])
    BY <2>1 DEF Withdraw, Begun
  <2>3. Stale(games[origin[c]]).state = "stale"
    BY <2>1, GameFacts, StaleOK DEF JointIInv, Begun
  <2> QED  BY <2>2, <2>3
<1>2. \A c \in Games : c \in 1..Len(contents) /\ origin[c] # 0
  BY OriginFacts, ContentFacts DEF Games, JointIInv, PageIInv
<1>3. Followed(games') = StaleContents(Games)
  BY <1>1, <1>2, FollowedIs, OriginFacts
<1>4. authority' # authority
  BY Frame, BoundsAssumption DEF Withdraw, Moves, JointIInv
<1> QED  BY <1>3, <1>4 DEF Follows, Withdraw, TakesLock, PageWithdraw, Rest

LEMMA RecomposeIs ==
  ASSUME JointIInv, Recompose, TakesLock => ~ProjectLocked, Follows, UNCHANGED Rest
  PROVE  Shift
<1>1. Followed(games') = contents
  BY FollowedSame DEF Recompose
<1>2. authority' # authority
  BY Frame, BoundsAssumption DEF Recompose, Moves, JointIInv
<1> QED  BY <1>1, <1>2 DEF Follows, Recompose, TakesLock, Shift, Rest

\* Games bound to something else become stale, by whichever call.
LEMMA OutdatedIs ==
  ASSUME JointIInv, [Next]_vars, TakesLock => ~ProjectLocked, Follows, UNCHANGED Rest,
         authority' = authority,
         \A c \in 1..Len(contents) : origin[c] # 0 =>
           (games'[origin[c]].state # "published"
              <=> contents[c].authority # authority \/ contents[c].state = "stale")
  PROVE  PageBegin \/ UNCHANGED pageVars
<1> DEFINE S == {c \in Games : contents[c].authority # authority}
<1>1. \A c \in S : c \in 1..Len(contents) /\ origin[c] # 0
  BY OriginFacts, ContentFacts DEF Games, JointIInv, PageIInv
<1>2. \A c \in 1..Len(contents) : origin[c] # 0 =>
        (games'[origin[c]].state # "published" <=> c \in S \/ contents[c].state = "stale")
  BY OriginFacts
<1>3. Followed(games') = StaleContents(S)
  BY <1>1, <1>2, FollowedIs
<1>4. S = {c \in Games : contents[c].authority # authority
                          \/ (FALSE /\ contents[c].kind = "debug")}
  OBVIOUS
<1>5. CASE contents' = contents
  BY <1>5 DEF Follows, Rest, pageVars
<1>6. CASE contents' # contents
  <2>1. ~ProjectLocked
    BY <1>6, FollowsLocks DEF Follows
  <2>2. \E alsoDebug \in BOOLEAN :
          contents' = StaleContents({c \in Games :
            contents[c].authority # authority \/ (alsoDebug /\ contents[c].kind = "debug")})
    BY <1>3, <1>4 DEF Follows
  <2> QED  BY <2>1, <2>2 DEF Follows, Rest, PageBegin
<1> QED  BY <1>5, <1>6

LEMMA BeginIs ==
  ASSUME JointIInv, Begin, TakesLock => ~ProjectLocked, Follows, UNCHANGED Rest
  PROVE  PageBegin \/ UNCHANGED pageVars
<1>1. ASSUME NEW c \in 1..Len(contents), origin[c] # 0
      PROVE  games'[origin[c]].state # "published"
               <=> contents[c].authority # authority \/ contents[c].state = "stale"
  <2>1. /\ games[origin[c]].state \in {"published", "stale"} /\ origin[c] \in GameIds
        /\ contents[c].state = games[origin[c]].state
        /\ contents[c].authority = games[origin[c]].authority
    BY <1>1, OriginFacts DEF JointIInv, OriginOK
  <2>2. games'[origin[c]] =
          IF Outdated(origin[c]) THEN Stale(games[origin[c]]) ELSE games[origin[c]]
    BY <2>1, BeginAtRest DEF JointIInv
  <2>3. Stale(games[origin[c]]).state = "stale"
    BY <2>1, GameFacts, StaleOK DEF JointIInv
  <2>4. Outdated(origin[c]) <=>
          games[origin[c]].state = "published" /\ games[origin[c]].authority # authority
    BY <2>1 DEF Outdated, CurrentStates
  <2> QED  BY <2>1, <2>2, <2>3, <2>4
<1>2. [Next]_vars /\ authority' = authority
  BY DEF Next, Begin
<1> QED  BY <1>1, <1>2, OutdatedIs

LEMMA ReadStatusIs ==
  ASSUME JointIInv, ReadStatus, TakesLock => ~ProjectLocked, Follows, UNCHANGED Rest
  PROVE  PageBegin \/ UNCHANGED pageVars
<1>1. [Next]_vars /\ authority' = authority
  BY DEF Next, ReadStatus
<1>2. PICK g \in Begun : /\ games[g].state # "stale" /\ games[g].authority # authority
                         /\ games' = [games EXCEPT ![g] = Stale(@)]
  BY DEF ReadStatus
<1>3. g \in GameIds /\ games'[g] = Stale(games[g]) /\ Stale(games[g]).state = "stale"
      /\ \A h \in GameIds \ {g} : games'[h] = games[h]
  BY <1>2, GameFacts, StaleOK DEF JointIInv, GamesTyped, Begun
<1>4. CASE games[g].state = "published"
  <2>1. ASSUME NEW c \in 1..Len(contents), origin[c] # 0
        PROVE  games'[origin[c]].state # "published"
                 <=> contents[c].authority # authority \/ contents[c].state = "stale"
    <3>1. CASE origin[c] = g
      BY <1>2, <1>3, <2>1, <3>1 DEF JointIInv, OriginOK
    <3>2. CASE origin[c] # g
      <4>1. contents[c].state = "stale"
        BY <1>3, <1>4, <2>1, <3>2, OnePublished DEF IsCurrent, CurrentStates
      <4>2. games'[origin[c]] = games[origin[c]]
        BY <1>3, <2>1, <3>2, OriginFacts
      <4> QED  BY <2>1, <4>1, <4>2 DEF JointIInv, OriginOK
    <3> QED  BY <3>1, <3>2
  <2> QED  BY <1>1, <2>1, OutdatedIs
<1>5. CASE games[g].state # "published"
  <2>1. \A c \in 1..Len(contents) : origin[c] # 0 => games'[origin[c]] = games[origin[c]]
    BY <1>2, <1>3, <1>5, OriginFacts DEF JointIInv, OriginOK
  <2>2. Followed(games') = contents
    BY <2>1, FollowedSame
  <2> QED  BY <1>1, <2>2 DEF Follows, Rest, pageVars
<1> QED  BY <1>4, <1>5

LEMMA OtherIs ==
  ASSUME JointIInv, Next, ~Withdraw, ~Recompose, ~ReadStatus, ~Begin, Follows, UNCHANGED Rest
  PROVE  UNCHANGED pageVars
<1>1. \A c \in 1..Len(contents) : origin[c] # 0 => games'[origin[c]] = games[origin[c]]
  BY OriginFacts, RestingStep DEF JointIInv, OriginOK, AtRest
<1>2. Followed(games') = contents
  BY <1>1, FollowedSame
<1>3. authority' = authority
  BY DEF Next, Deliver, Repeat, Confirm, Lapse, Claim, NothingToClaim, Read, Succeeds, Refused,
     Unanswered, Interrupt, Die
<1> QED  BY <1>2, <1>3 DEF Follows, Rest, pageVars

LEMMA LinksIs ==
  ASSUME JointIInv, Next, NEW g \in Staged, Links(g),
         UNCHANGED <<invitations, seen, reader, sharedFrom>>
  PROVE  Publish("game")
<1>1. /\ Locks(g) /\ games[g].state = "running" /\ g \in GameIds
      /\ \A h \in GameIds \ {g} : games'[h] = games[h]
      /\ authority' = authority
  BY StagedStep DEF JointIInv, Staged
<1>2. \A c \in 1..Len(contents) : origin[c] # 0 => origin[c] \in GameIds \ {g}
  BY <1>1, OriginFacts DEF JointIInv, OriginOK
<1>3. Followed(games') = contents
  BY <1>1, <1>2, FollowedSame
<1>4. \A c \in Games : contents[c].state = "stale"
  <2> SUFFICES ASSUME NEW c \in Games PROVE contents[c].state = "stale"
    OBVIOUS
  <2>1. c \in 1..Len(contents) /\ origin[c] # 0
    BY OriginFacts, ContentFacts DEF Games, JointIInv, PageIInv
  <2> QED  BY <1>1, <1>2, <2>1, OnePublished DEF IsCurrent, CurrentStates
<1>5. contents' = Append(contents, [kind |-> "game", authority |-> authority,
                                    state |-> "published"])
  BY <1>1, <1>3 DEF Links, Locks
<1> QED  BY <1>1, <1>4, <1>5 DEF Links, Publish

\* What the page is used for changes neither the contents nor what they are
\* bound to.
LEMMA UsesKeep ==
  ASSUME Uses
  PROVE  UNCHANGED <<authority, contents>>
BY DEF Uses, Peek, Serve, Leave, Show, SetVisibility, Invite, Revoke, Accept, Expire

LEMMA PageSteps ==
  ASSUME JointIInv, [JointNext]_jointVars
  PROVE  [PageNext]_pageVars
<1>1. CASE Generates
  <2>1. Next /\ (TakesLock => ~ProjectLocked) /\ UNCHANGED <<invitations, seen, reader, sharedFrom>>
    BY <1>1 DEF Generates
  <2>2. CASE Staged = {}
    <3>1. Follows
      BY <1>1, <2>2 DEF Generates
    <3>2. UNCHANGED Rest
      BY <2>1, <3>1 DEF Follows, Rest
    <3> QED  BY <2>1, <3>1, <3>2, WithdrawIs, RecomposeIs, BeginIs, ReadStatusIs, OtherIs
             DEF PageNext
  <2>3. ASSUME NEW g \in Staged, Links(g)
        PROVE  Publish("game")
    BY <2>1, <2>3, LinksIs
  <2> QED  BY <1>1, <2>2, <2>3 DEF Generates, PageNext
<1>2. CASE ShowsExample
  BY <1>2 DEF ShowsExample, PageNext
<1>3. CASE UsesPage
  BY <1>3 DEF UsesPage, PageNext
<1>4. CASE UNCHANGED jointVars
  BY <1>4 DEF jointVars, pageVars
<1> QED  BY <1>1, <1>2, <1>3, <1>4 DEF JointNext

\* And a step of the games, or none.
LEMMA GameSteps ==
  ASSUME [JointNext]_jointVars
  PROVE  [Next]_vars
BY DEF JointNext, Generates, ShowsExample, UsesPage, jointVars, vars

-----------------------------------------------------------------------------
(* The invariant of the two together.                                      *)

LEMMA JointInitIInv == JointInit => JointIInv
<1> SUFFICES ASSUME JointInit PROVE JointIInv
  OBVIOUS
<1>1. IInv /\ PageIInv
  BY InitIInv, PageInitIInv DEF JointInit
<1>2. EligibleOK
  BY DEF JointInit, Init, EligibleOK
<1>3. contents = <<>> /\ origin = <<>>
  BY DEF JointInit, PageInit
<1>4. OriginOK
  BY <1>3 DEF OriginOK
<1> QED  BY <1>1, <1>2, <1>4 DEF JointIInv

LEMMA EligibleStep ==
  ASSUME IInv, EligibleOK, [Next]_vars
  PROVE  EligibleOK'
<1> SUFFICES ASSUME NEW g \in GameIds, games'[g].state \notin {"none", "stale"} PROVE eligible'
  BY DEF EligibleOK
<1>1. CASE Withdraw
  <2>1. games'[g] = IF g \in Begun THEN Stale(games[g]) ELSE games[g]
    BY <1>1 DEF Withdraw
  <2>2. g \in Begun => Stale(games[g]).state = "stale"
    BY GameFacts, StaleOK DEF Begun
  <2> QED  BY <2>1, <2>2 DEF Begun
<1>2. CASE Begin
  BY <1>2, Frame DEF Begin
<1>3. CASE ~Withdraw /\ ~Begin
  <2>1. games[g].state # "stale"
    BY LastingStep DEF Lasting
  <2>2. games[g].state # "none"
    <3>1. CASE ReadStatus
      <4>1. PICK h \in Begun : games' = [games EXCEPT ![h] = Stale(@)]
        BY <3>1 DEF ReadStatus
      <4>2. games'[g] = IF g = h THEN Stale(games[g]) ELSE games[g]
        BY <4>1, GameFacts DEF GamesTyped
      <4> QED  BY <4>1, <4>2 DEF Begun
    <3>2. CASE ~ReadStatus
      BY <1>3, <3>2, RestingStep DEF AtRest
    <3> QED  BY <3>1, <3>2
  <2>3. eligible' = eligible
    BY <1>3 DEF Next, vars, Recompose, ReadStatus, Deliver, Repeat, Confirm, Lapse, Claim,
       NothingToClaim, Read, Succeeds, Refused, Unanswered, Interrupt, Die
  <2> QED  BY <2>1, <2>2, <2>3 DEF EligibleOK
<1> QED  BY <1>1, <1>2, <1>3

LEMMA FollowsOrigin ==
  ASSUME JointIInv, [Next]_vars, contents' = Followed(games'), origin' = origin
  PROVE  OriginOK'
<1>1. origin' \in Seq(0..MaxGames) /\ Len(origin') = Len(contents')
  BY FollowedFacts DEF JointIInv, OriginOK
<1>2. Len(contents') = Len(contents)
  BY FollowedFacts
<1>3. ASSUME NEW c \in 1..Len(contents), origin[c] # 0
      PROVE  games'[origin[c]].authority = games[origin[c]].authority
  BY <1>3, OriginFacts, LastingStep DEF JointIInv, OriginOK, Lasting
<1>4. \A c \in 1..Len(contents) :
        /\ contents'[c].kind = IF origin'[c] = 0 THEN "example" ELSE "game"
        /\ origin'[c] # 0 =>
             /\ games'[origin'[c]].state \in {"published", "stale"}
             /\ contents'[c].state = games'[origin'[c]].state
             /\ contents'[c].authority = games'[origin'[c]].authority
  BY <1>3, FollowedFacts DEF JointIInv, OriginOK
<1> QED  BY <1>1, <1>2, <1>4 DEF OriginOK

\* One more content, of the game g or an example, while linked games stay.
LEMMA AppendOrigin ==
  ASSUME JointIInv, NEW g \in 0..MaxGames, NEW x,
         contents' = Append(contents, x), origin' = Append(origin, g),
         x.kind = IF g = 0 THEN "example" ELSE "game",
         g # 0 => /\ games'[g].state = "published" /\ x.state = "published"
                  /\ x.authority = games'[g].authority,
         \A c \in 1..Len(contents) : origin[c] # 0 => games'[origin[c]] = games[origin[c]]
  PROVE  OriginOK'
<1> DEFINE ids == 0..MaxGames
           n == Len(contents)
<1>1. contents \in Seq(Content) /\ origin \in Seq(ids) /\ Len(origin) = n /\ n \in Nat
  BY DEF JointIInv, PageIInv, PageTypeOK, OriginOK
<1> HIDE DEF ids, n
<1>2. g \in ids
  BY DEF ids
<1>3. /\ origin' \in Seq(ids) /\ Len(origin') = n + 1 /\ origin'[n + 1] = g
      /\ \A c \in 1..n : origin'[c] = origin[c]
  BY <1>1, <1>2
<1>4. /\ Len(contents') = n + 1 /\ contents'[n + 1] = x
      /\ \A c \in 1..n : contents'[c] = contents[c]
  BY <1>1 DEF n
<1>5. ASSUME NEW c \in 1..(n + 1)
      PROVE  /\ contents'[c].kind = IF origin'[c] = 0 THEN "example" ELSE "game"
             /\ origin'[c] # 0 =>
                  /\ games'[origin'[c]].state \in {"published", "stale"}
                  /\ contents'[c].state = games'[origin'[c]].state
                  /\ contents'[c].authority = games'[origin'[c]].authority
  <2>1. CASE c = n + 1
    BY <1>3, <1>4, <2>1
  <2>2. CASE c # n + 1
    <3>1. c \in 1..n
      BY <1>1, <2>2
    <3> QED  BY <1>3, <1>4, <3>1 DEF JointIInv, OriginOK, n
  <2> QED  BY <2>1, <2>2
<1> QED  BY <1>3, <1>4, <1>5 DEF OriginOK, ids

LEMMA OriginStep ==
  ASSUME JointIInv, [JointNext]_jointVars
  PROVE  OriginOK'
<1>1. [Next]_vars
  BY GameSteps
<1>2. CASE Generates
  <2>1. CASE Staged = {}
    BY <1>1, <1>2, <2>1, FollowsOrigin DEF Generates, Follows
  <2>2. ASSUME NEW g \in Staged, Links(g) PROVE OriginOK'
    <3>1. Next /\ UNCHANGED <<invitations, seen, reader, sharedFrom>>
      BY <1>2 DEF Generates
    <3>2. /\ g \in GameIds /\ games[g].state = "running" /\ games'[g].state = "published"
          /\ games'[g].authority = games[g].authority
          /\ \A h \in GameIds \ {g} : games'[h] = games[h]
      BY <3>1, StagedStep DEF JointIInv, Staged
    <3>3. \A c \in 1..Len(contents) : origin[c] # 0 => games'[origin[c]] = games[origin[c]]
      BY <3>2, OriginFacts DEF JointIInv, OriginOK
    <3>4. contents' = Append(contents, [kind |-> "game", authority |-> games[g].authority,
                                        state |-> "published"])
      BY <2>2, <3>3, FollowedSame DEF Links
    <3>5. g \in 0..MaxGames /\ g # 0
      BY <3>2, BoundsAssumption DEF GameIds
    <3>6. origin' = Append(origin, g)
      BY <2>2 DEF Links
    <3> QED  BY <3>2, <3>3, <3>4, <3>5, <3>6, AppendOrigin
  <2> QED  BY <1>2, <2>1, <2>2 DEF Generates
<1>3. CASE ShowsExample
  <2>1. contents' = Append(contents, [kind |-> "example", authority |-> authority,
                                      state |-> "published"])
        /\ origin' = Append(origin, 0) /\ games' = games
    BY <1>3 DEF ShowsExample, Publish, vars
  <2>2. 0 \in 0..MaxGames
    BY BoundsAssumption
  <2> QED  BY <2>1, <2>2, AppendOrigin
<1>4. CASE UsesPage \/ UNCHANGED jointVars
  <2>1. UNCHANGED <<games, contents, origin>>
    BY <1>4, UsesKeep DEF UsesPage, jointVars, vars, pageVars
  <2> QED  BY <2>1 DEF JointIInv, OriginOK
<1> QED  BY <1>2, <1>3, <1>4 DEF JointNext

LEMMA JointNextIInv == JointIInv /\ [JointNext]_jointVars => JointIInv'
<1> SUFFICES ASSUME JointIInv, [JointNext]_jointVars PROVE JointIInv'
  OBVIOUS
<1>1. IInv' /\ EligibleOK'
  BY GameSteps, NextIInv, EligibleStep DEF JointIInv
<1>2. PageIInv'
  BY PageSteps, PageNextIInv DEF JointIInv
<1>3. OriginOK'
  BY OriginStep
<1> QED  BY <1>1, <1>2, <1>3 DEF JointIInv

(* The inductive invariant of a memoir's games and their page.             *)
THEOREM JointInvariance == JointSpec => []JointIInv
<1> QED  BY JointInitIInv, JointNextIInv, PTL DEF JointSpec

(* Together they implement both specifications.  Generation goes on as     *)
(* StoryGame says, and what it does to its games is, to the page, one of   *)
(* the steps of StoryGamePage or none: a game appears complete, bound to   *)
(* what holds at that moment (link_story_game_page, which stage_story_game *)
(* calls), and leaves only when it is made stale.                          *)
THEOREM GamesReachTheirPage == JointSpec => Spec /\ PublicationHolds
<1>1. JointInit => Init /\ PageInit
  BY DEF JointInit
<1>2. JointIInv /\ [JointNext]_jointVars => [PageNext]_pageVars
  BY PageSteps
<1>3. [JointNext]_jointVars => [Next]_vars
  BY GameSteps
<1>4. JointSpec => Spec /\ PageSpec
  BY <1>1, <1>2, <1>3, JointInvariance, PTL DEF JointSpec, Spec, PageSpec
<1> QED  BY <1>4, PublicationLasts DEF PublicationHolds

(* The last byte a reader is sent of a game is one of the scenes its owner *)
(* confirmed, of the active edition and with consent (lock_story_game in   *)
(* read_story_game_page, against withdrawals, retries and late calls).     *)
THEOREM DecisionsReachReaders == JointSpec => []SentAsDecided
<1>1. ASSUME JointIInv PROVE SentAsDecided
  <2> SUFFICES ASSUME NEW x \in Readers, reader[x].pc = "sending", IsGame(reader[x].content)
               PROVE  LET g == origin[reader[x].content]
                      IN /\ Locks(g) /\ games[g].state = "published"
                         /\ games[g].candidate = IF chosen[g] = "none" THEN "all" ELSE chosen[g]
    BY DEF SentAsDecided
  <2>1. reader[x].content = page.content /\ Current(page.content)
    BY <1>1 DEF JointIInv, PageIInv, RequestsOK
  <2>2. page.content \in 1..Len(contents)
    BY <1>1, <2>1, ContentFacts DEF JointIInv, PageIInv, IsGame
  <2> DEFINE g == origin[page.content]
  <2>3. g # 0 /\ g \in GameIds
    BY <1>1, <2>1, <2>2, OriginFacts
  <2>4. games[g].state = "published" /\ games[g].authority = authority
    BY <1>1, <2>1, <2>2, <2>3 DEF JointIInv, OriginOK, Current
  <2>5. eligible
    BY <1>1, <2>3, <2>4 DEF JointIInv, EligibleOK
  <2>6. /\ games[g].candidate = games[g].selection /\ games[g].selection # "none"
        /\ IF chosen[g] = "none" THEN games[g].selection = "all" ELSE games[g].selection = chosen[g]
    <3>1. GameOK(games[g], chosen[g], claims[g], few) /\ games[g] \in Game
      BY <1>1, <2>3, GameFacts DEF JointIInv
    <3> QED  BY <2>4, <3>1 DEF GameOK, Game
  <2> QED  BY <2>1, <2>3, <2>4, <2>5, <2>6 DEF Locks
<1> QED  BY <1>1, JointInvariance, PTL

=============================================================================
