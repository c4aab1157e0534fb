----------------------------- MODULE StoryGame -----------------------------
(***************************************************************************)
(* The generation of story games from a memoir: the table user_story_game  *)
(* and its functions, and the background task that runs                    *)
(* generate_story_game (story_game_runtime.py): scene pool, the owner's    *)
(* selection, brief, build.                                                *)
(*                                                                         *)
(* A game is bound to the edition, consent, draft and mode it was begun    *)
(* under.  A worker works under the token of its claim for at most an      *)
(* hour; its calls can fail, be executed without an answer, or be executed *)
(* when the worker has long given up.                                      *)
(***************************************************************************)
EXTENDS StoryContext, FiniteSets

CONSTANTS
  Workers,       \* background tasks
  MaxGames,      \* bound: games begun
  MaxTokens,     \* bound: claims
  MaxFaults      \* bound: lost calls, interruptions and deaths

ASSUME BoundsAssumption ==
  MaxGames \in Nat /\ MaxTokens \in Nat /\ MaxAuthority \in Nat /\ MaxFaults \in Nat

VARIABLES
  eligible,   \* an active edition, with consent to adapt it
  few,        \* one to four events: every scene is taken
  games,      \* in the order they were begun
  tokens,     \* claims so far
  worker,
  late,       \* calls that were sent and may still execute
  faults,
  chosen,     \* what the owner confirmed, by game
  claims      \* claims of each game, by phase

vars == <<authority, eligible, few, games, tokens, worker, late, faults, chosen, claims>>

-----------------------------------------------------------------------------
GameIds == 1..MaxGames
Scenes == {"all", "some"}
CurrentStates == {"pending", "running", "selection_required", "published"}

Game == [state : CurrentStates \cup {"none", "failed", "stale"},
         phase : {"scenes", "build"}, authority : 0..MaxAuthority,
         pool : 0..MaxTokens,                 \* the claim it was saved under, 0 if none
         selection : Scenes \cup {"none"}, brief : 0..MaxTokens,
         token : 0..MaxTokens, live : BOOLEAN, attempts : 0..3,
         candidate : Scenes \cup {"none"}]

NoGame == [state |-> "none", phase |-> "scenes", authority |-> 0, pool |-> 0,
           selection |-> "none", brief |-> 0, token |-> 0, live |-> FALSE, attempts |-> 0,
           candidate |-> "none"]

Worker == [pc : {"idle", "claim", "read", "pool", "brief", "stage", "fail"},
           game : 0..MaxGames, token : 0..MaxTokens, phase : {"scenes", "build"},
           selection : Scenes \cup {"none"}]

IdleWorker == [pc |-> "idle", game |-> 0, token |-> 0, phase |-> "scenes", selection |-> "none"]

Call == [op : {"pool", "brief", "stage", "fail"}, game : GameIds, token : 1..MaxTokens,
         selection : Scenes \cup {"none"}]

Init ==
  /\ authority = 0
  /\ eligible = TRUE
  /\ few \in BOOLEAN
  /\ games = [g \in GameIds |-> NoGame]
  /\ tokens = 0
  /\ worker = [w \in Workers |-> IdleWorker]
  /\ late = {}
  /\ faults = 0
  /\ chosen = [g \in GameIds |-> "none"]
  /\ claims = [g \in GameIds |-> [scenes |-> 0, build |-> 0]]

-----------------------------------------------------------------------------
(* Authority.                                                              *)

\* Mutant: the pool outlives the consent it was made under.
Stale_KeepsPool(game) ==
  [game EXCEPT !.state = "stale", !.candidate = "none", !.brief = 0, !.token = 0, !.live = FALSE]

\* A stale game keeps nothing of the memoir.
Stale(game) ==
  [game EXCEPT !.state = "stale", !.candidate = "none", !.pool = 0, !.selection = "none",
               !.brief = 0, !.token = 0, !.live = FALSE]

Begun == {g \in GameIds : games[g].state # "none"}

\* The edition is retired or replaced, or consent is withdrawn or renewed: the
\* trigger invalidate_story_games.
Withdraw ==
  /\ Moves
  /\ eligible' \in BOOLEAN
  /\ few' \in BOOLEAN
  /\ games' = [g \in GameIds |-> IF g \in Begun THEN Stale(games[g]) ELSE games[g]]
  /\ UNCHANGED <<tokens, worker, late, faults, chosen, claims>>

\* The private draft is composed anew: games keep their state.
Recompose ==
  /\ Moves
  /\ UNCHANGED <<eligible, few, games, tokens, worker, late, faults, chosen, claims>>

\* Reading the status makes the latest game stale if the draft has changed.
ReadStatus ==
  /\ \E g \in Begun :
       /\ \A h \in Begun : h <= g
       /\ games[g].state # "stale"
       /\ games[g].authority # authority
       /\ games' = [games EXCEPT ![g] = Stale(@)]
  /\ UNCHANGED <<authority, eligible, few, tokens, worker, late, faults, chosen, claims>>

\* lock_story_game
Locks(g) ==
  /\ eligible
  /\ games[g].state \notin {"none", "stale"}
  /\ games[g].authority = authority

-----------------------------------------------------------------------------
(* The owner.                                                              *)

\* Mutant: nobody is asked.
AutoSelected_Unasked(game) ==
  IF game.state = "selection_required" /\ game.selection = "none"
  THEN [game EXCEPT !.selection = "all", !.phase = "build", !.state = "pending"]
  ELSE game

\* auto_select_story_game
AutoSelected(game) ==
  IF few /\ game.state = "selection_required" /\ game.selection = "none"
  THEN [game EXCEPT !.selection = "all", !.phase = "build", !.state = "pending"]
  ELSE game

\* Mutant: only a published game is replaced when the authority has moved on.
Outdated_Published(g) ==
  games[g].state = "published" /\ games[g].authority # authority

Outdated(g) ==
  games[g].state \in CurrentStates /\ games[g].authority # authority

\* begin_story_game with a new request: the current game, or a new one.
Begin ==
  /\ eligible
  /\ LET kept == [g \in GameIds |-> IF Outdated(g) THEN Stale(games[g]) ELSE games[g]]
         current == {g \in GameIds : /\ kept[g].state \in CurrentStates
                                     /\ kept[g].authority = authority}
     IN IF current # {}
        THEN games' = [g \in GameIds |-> IF g \in current THEN AutoSelected(kept[g]) ELSE kept[g]]
        ELSE \E g \in GameIds \ Begun :
               /\ \A h \in GameIds : h < g => h \in Begun
               /\ games' = [kept EXCEPT ![g] = [NoGame EXCEPT !.state = "pending",
                                                              !.authority = authority]]
  /\ UNCHANGED <<authority, eligible, few, tokens, worker, late, faults, chosen, claims>>

\* begin_story_game with a request that began this game.
Repeat(g) ==
  /\ Locks(g)
  /\ games' = [games EXCEPT ![g] = AutoSelected(@)]
  /\ UNCHANGED <<authority, eligible, few, tokens, worker, late, faults, chosen, claims>>

\* Once made, a selection can only be repeated.
Selectable(g) == games[g].selection = "none" /\ games[g].state = "selection_required"

\* confirm_story_game_scenes
Confirm(g) ==
  /\ Locks(g)
  /\ games[g].pool # 0
  /\ Selectable(g)
  /\ \E scenes \in Scenes :
       /\ games' = [games EXCEPT ![g] = [@ EXCEPT !.selection = scenes, !.phase = "build",
                                                  !.state = "pending", !.attempts = 0]]
       /\ chosen' = [chosen EXCEPT ![g] = scenes]
  /\ UNCHANGED <<authority, eligible, few, tokens, worker, late, faults, claims>>

-----------------------------------------------------------------------------
(* The calls of a worker.                                                  *)

\* lock_story_game with p_require_token
Holds(g, token) ==
  /\ Locks(g)
  /\ games[g].state = "running"
  /\ games[g].token = token
  /\ games[g].live

\* Mutant: a failure is recorded whoever reports it.
Accepts_AnyFailure(call) ==
  LET game == games[call.game]
  IN /\ IF call.op = "fail" THEN Locks(call.game) ELSE Holds(call.game, call.token)
     /\ call.op = "pool" => game.phase = "scenes" /\ game.selection = "none"
     /\ call.op = "brief" =>
          game.phase = "build" /\ game.selection # "none" /\ game.brief \in {0, call.token}
     /\ call.op = "stage" =>
          /\ game.phase = "build" /\ game.brief # 0
          /\ game.selection # "none" /\ game.selection = call.selection

\* save_story_game_pool, save_story_game_brief, stage_story_game and
\* fail_story_game: what they accept, and the game they leave.
Accepts(call) ==
  LET game == games[call.game]
  IN /\ Holds(call.game, call.token)
     /\ call.op = "pool" => game.phase = "scenes" /\ game.selection = "none"
     /\ call.op = "brief" =>
          game.phase = "build" /\ game.selection # "none" /\ game.brief \in {0, call.token}
     /\ call.op = "stage" =>
          /\ game.phase = "build" /\ game.brief # 0
          /\ game.selection # "none" /\ game.selection = call.selection

\* Mutant: the lease is kept.
Released_KeepsLease(game) == game

Released(game) == [game EXCEPT !.token = 0, !.live = FALSE]

\* Mutant: attempts of the selection count for nothing once a build fails.
Failed_Anew(game) == [Released(game) EXCEPT !.state = "failed", !.attempts = 0]

Failed(game) == [Released(game) EXCEPT !.state = "failed"]

After(call) ==
  LET game == games[call.game]
  IN CASE call.op = "pool" ->
            AutoSelected([Released(game) EXCEPT !.pool = call.token, !.attempts = 0,
                                                !.state = "selection_required"])
       [] call.op = "brief" -> [game EXCEPT !.brief = call.token]
       [] call.op = "stage" ->
            [Released(game) EXCEPT !.candidate = call.selection, !.state = "published"]
       [] call.op = "fail" -> Failed(game)

Execute(call) == games' = [games EXCEPT ![call.game] = After(call)]

\* The lease runs out: 900 s for the scenes, an hour for the build.
Lapse(g) ==
  /\ games[g].live
  /\ games' = [games EXCEPT ![g].live = FALSE]
  /\ UNCHANGED <<authority, eligible, few, tokens, worker, late, faults, chosen, claims>>

-----------------------------------------------------------------------------
(* The worker.                                                             *)

MayRun(g) ==
  /\ games[g].state \in {"pending", "running", "failed"}
  /\ games[g].phase = "build" => games[g].selection # "none"
  /\ ~(games[g].state = "running" /\ games[g].live)
  /\ games[g].attempts < 3

\* The unique index on current games.
OnlyCurrent(g) == \A h \in GameIds \ {g} : games[h].state \notin CurrentStates

\* claim_story_game, at the owner's request or after a pool that needs no choice.
Claim(w) ==
  /\ tokens < MaxTokens
  /\ \E g \in Begun :
       /\ worker[w].pc = "idle" \/ (worker[w].pc = "claim" /\ worker[w].game = g)
       /\ Locks(g)
       /\ MayRun(g)
       /\ OnlyCurrent(g)
       /\ games' = [games EXCEPT ![g] = [@ EXCEPT !.state = "running", !.token = tokens + 1,
                                                  !.live = TRUE,
                                                  !.attempts = games[g].attempts + 1]]
       /\ worker' = [worker EXCEPT ![w] = [IdleWorker EXCEPT !.pc = "read", !.game = g,
                                           !.token = tokens + 1, !.phase = games[g].phase]]
       /\ claims' = [claims EXCEPT ![g][games[g].phase] = @ + 1]
  /\ tokens' = tokens + 1
  /\ UNCHANGED <<authority, eligible, few, late, faults, chosen>>

Idle(w) == worker' = [worker EXCEPT ![w] = IdleWorker]

\* claim_story_game raises, or answers that there is nothing to run.
NothingToClaim(w) ==
  /\ worker[w].pc = "claim"
  /\ LET g == worker[w].game IN ~(Locks(g) /\ MayRun(g) /\ OnlyCurrent(g))
  /\ Idle(w)
  /\ UNCHANGED <<authority, eligible, few, games, tokens, late, faults, chosen, claims>>

\* read_story_game_input: what the worker goes on from.
Read(w) ==
  /\ worker[w].pc = "read"
  /\ LET game == games[worker[w].game]
     IN IF Holds(worker[w].game, worker[w].token)
        THEN worker' = [worker EXCEPT ![w].selection = game.selection,
               ![w].pc = CASE worker[w].phase = "scenes" -> "pool"
                           [] game.brief = 0 -> "brief"
                           [] OTHER -> "stage"]
        ELSE worker' = [worker EXCEPT ![w].pc = "fail"]
  /\ UNCHANGED <<authority, eligible, few, games, tokens, late, faults, chosen, claims>>

Outgoing(w) == [op |-> worker[w].pc, game |-> worker[w].game, token |-> worker[w].token,
                selection |-> worker[w].selection]

Calling(w) == worker[w].pc \in {"pool", "brief", "stage", "fail"}

\* After a call that succeeded: generate_story_game goes on by itself if the
\* pool needed no choice.
GoesOn(w) ==
  CASE worker[w].pc = "brief" -> [worker[w] EXCEPT !.pc = "stage"]
    [] worker[w].pc = "pool" /\ After(Outgoing(w)).state = "pending" ->
         [IdleWorker EXCEPT !.pc = "claim", !.game = worker[w].game]
    [] OTHER -> IdleWorker

Succeeds(w) ==
  /\ Calling(w)
  /\ Accepts(Outgoing(w))
  /\ Execute(Outgoing(w))
  /\ worker' = [worker EXCEPT ![w] = GoesOn(w)]
  /\ UNCHANGED <<authority, eligible, few, tokens, late, faults, chosen, claims>>

\* Whatever goes wrong, the worker calls fail_story_game, once.
GivesUp(w) ==
  worker' = [worker EXCEPT ![w] = IF @.pc = "fail" THEN IdleWorker ELSE [@ EXCEPT !.pc = "fail"]]

Refused(w) ==
  /\ Calling(w)
  /\ ~Accepts(Outgoing(w))
  /\ GivesUp(w)
  /\ UNCHANGED <<authority, eligible, few, games, tokens, late, faults, chosen, claims>>

\* No answer: the call was executed, or will be, or never is.
Unanswered(w) ==
  /\ Calling(w)
  /\ faults < MaxFaults
  /\ faults' = faults + 1
  /\ GivesUp(w)
  /\ \/ Accepts(Outgoing(w)) /\ Execute(Outgoing(w)) /\ late' = late
     \/ late' = late \cup {Outgoing(w)} /\ games' = games
  /\ UNCHANGED <<authority, eligible, few, tokens, chosen, claims>>

Deliver ==
  /\ \E call \in late :
       /\ late' = late \ {call}
       /\ IF Accepts(call) THEN Execute(call) ELSE games' = games
  /\ UNCHANGED <<authority, eligible, few, tokens, worker, faults, chosen, claims>>

\* The model fails, or the time is up (840 s, 3480 s).
Interrupt(w) ==
  /\ worker[w].pc \in {"read", "pool", "brief", "stage"}
  /\ faults < MaxFaults
  /\ faults' = faults + 1
  /\ GivesUp(w)
  /\ UNCHANGED <<authority, eligible, few, games, tokens, late, chosen, claims>>

\* The process dies.
Die(w) ==
  /\ worker[w].pc # "idle"
  /\ faults < MaxFaults
  /\ faults' = faults + 1
  /\ Idle(w)
  /\ UNCHANGED <<authority, eligible, few, games, tokens, late, chosen, claims>>

-----------------------------------------------------------------------------
Next ==
  \/ Withdraw \/ Recompose \/ ReadStatus \/ Begin \/ Deliver
  \/ \E g \in GameIds : Repeat(g) \/ Confirm(g) \/ Lapse(g)
  \/ \E w \in Workers :
       \/ Claim(w) \/ NothingToClaim(w) \/ Read(w) \/ Succeeds(w) \/ Refused(w)
       \/ Unanswered(w) \/ Interrupt(w) \/ Die(w)

Spec == Init /\ [][Next]_vars

-----------------------------------------------------------------------------
(* Properties.                                                             *)

TypeOK ==
  /\ authority \in 0..MaxAuthority
  /\ eligible \in BOOLEAN /\ few \in BOOLEAN
  /\ games \in [GameIds -> Game]
  /\ tokens \in 0..MaxTokens
  /\ worker \in [Workers -> Worker]
  /\ late \subseteq Call
  /\ faults \in 0..MaxFaults
  /\ chosen \in [GameIds -> Scenes \cup {"none"}]
  /\ claims \in [GameIds -> [scenes : 0..MaxTokens, build : 0..MaxTokens]]
  /\ \A g \in GameIds : games[g].live => games[g].state = "running" /\ games[g].token # 0

\* Once stale a game holds nothing of the memoir, and no call that was under
\* way when the owner withdrew, nor one delivered later, brings anything back.
StaleGamesAreErased ==
  \A g \in GameIds : games[g].state = "stale" =>
    /\ games[g].pool = 0 /\ games[g].selection = "none" /\ games[g].brief = 0
    /\ games[g].candidate = "none" /\ games[g].token = 0

\* What is published holds the scenes the owner confirmed, or all of them if
\* nobody was asked, and that only when the events are few.
PublishedIsWhatWasChosen ==
  \A g \in GameIds : games[g].state = "published" =>
    IF chosen[g] = "none" THEN few /\ games[g].candidate = "all"
    ELSE games[g].candidate = chosen[g]

\* The owner's decisions stand: what they withdrew is erased, and what is
\* published is what they chose.
OwnerDecides == StaleGamesAreErased /\ PublishedIsWhatWasChosen

\* The unique index is never what stops begin_story_game: it leaves no game
\* current that is bound to anything but the present authority.
OneCurrentGame ==
  Cardinality({g \in GameIds : games[g].state \in CurrentStates}) <= 1

\* "No provider work is automatically repeated": each phase of a game is run
\* three times at most, whatever fails and however often the owner retries.
AttemptsAreBounded ==
  \A g \in GameIds : claims[g].scenes <= 3 /\ claims[g].build <= 3

\* Of the games of a memoir one at most is at work or shown, and no history of
\* retries, restarts and late calls gives a phase of it more than three runs.
WorkIsBounded == OneCurrentGame /\ AttemptsAreBounded

\* A published game is not lost to a worker that never learnt of it: it goes
\* only when it is made stale.
PublishedStays ==
  [][\A g \in GameIds : games[g].state = "published" =>
       \/ games'[g].state = "stale"
       \/ games'[g].state = "published" /\ games'[g].candidate = games[g].candidate]_vars

\* "The same durable job can be retried explicitly": a job the status calls
\* retryable can be claimed.
RetryableCanBeClaimed ==
  \A g \in GameIds : Locks(g) /\ games[g].state = "running" /\ ~games[g].live => MayRun(g)
=============================================================================
