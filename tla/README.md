# CopyMe2: specifications, model checking and proofs

CopyMe2 interviews a narrator, keeps what they say as testimony, turns it in the
background into a timeline and a private memoir draft, publishes a *formal
memoir* (an edition) from it, and from an edition a *story game* that can be
shared. The API is a FastAPI application (`apps/api`), its state machines are
PL/pgSQL functions and triggers in one migration
(`supabase/migrations/202610180001_initial_schema.sql`, "SQL" below), the
clients are a Next.js application and an Expo application.

Nearly everything that is hard here follows one pattern. A row in PostgreSQL is
the state machine. Workers and requests in any number of processes hold fenced
leases on it and call it over HTTP, with time limits after which the call may
still execute. And the owner can at any moment correct, withdraw, restrict or
delete what the work is based on. The specifications model that pattern, one
module per state machine, with the calls, their callers and their failures.

Contents: 1 the system, 2 hazards, 3 the modules, 4 the runs, 5 fairness,
6 proofs, 7 disagreements with the documentation, 8 what is not modelled,
9 order of the work.

## 1. The system

| component | state it keeps | operations | who else touches it |
|---|---|---|---|
| conversation turn lease (`agent_lock.py`) | `user_agent_turn_lease`: token, expiry | acquire, renew, release; every turn write is fenced by it | heartbeat task, client disconnects |
| reply turn (`lifetime_memory_runtime.py`, `parallel_reply.py`, `lifetime_memory_transport.py`; `accept_two_lane_interview_*`, `complete_lifetime_policy_review`, `commit_lifetime_turn`) | source, pending reviews, the one reply of a turn, delivery receipts; per request an emitter, a queue, two tasks | accept, review, generate, stream, save, replay, record delivery | owner's changes, the page that reads the stream |
| mobile outbox (`turn-controller.ts`, `packages/memoir-domain`) | rows in an encrypted vault, acknowledgments, tombstones, one run per turn | enqueue, send, retry, check, cancel, discard | the API, restarts of the app |
| background memoir (`memory_event_worker.py`, `memoir_background_agent.py`; `user_memoir_lane`, `user_memoir_background_agent`) | two lanes, a coordinator with a frozen batch, attempts | dispatch, claim, page commits, complete, fail, finish, retry | turns, corrections, restrictions |
| formal memoir (`formal_memoir.py`; `begin_`, `claim_`, `stage_`, `complete_`, `release_formal_memoir`) | run, staged chapters, edition, head, consent | begin, claim, stage, complete, release, invalidate, grant and withdraw consent | corrections and preferences by triggers; delivered replies by the mode they set; story games by consent |
| story game (`story_game_runtime.py`; `begin_`, `claim_`, `stage_`, `fail_story_game`) | game with phase, attempts, lease, pool, selection, candidate | begin, claim, pool, confirm, brief, stage, fail | edition and consent triggers, page |
| page and sharing (`story_game_pages.py`; the reading and sharing functions of `user_story_game_page`) | page with revision, visibility, invitations | read, set visibility, invite, revoke, accept | workers that publish, other devices |
| original recordings (`original_recordings.py`; `recording_server_operation`) | row, object in a bucket, tombstones of uploads | preserve, read, transcribe, discard, cancel, delete, clean up | acceptance, consent, withdrawal |
| memory obligations (`lifetime_memory_outbox.py`; `claim_`, `complete_`, `fail_lifetime_memory_obligation`) | obligation rows with a lease | claim, complete, fail, cancel | turns |
| collection jobs (`lifetime_memory_collection_jobs.py`) | paged job with a lease | claim, commit page, defer, release, retry | policy review |
| task queue, previews, private drafts (`task_queue.py`, `preview_jobs.py`, `private_draft_jobs.py`) | SQLite tasks with a lease and three attempts, receipts | enqueue, claim, finish | Temporal activities, outbox |
| guest transfer (`auth/client.ts`, `supabase_routes.py`, `workspace_merge.py`, `task_queue.py`; `prepare_`, `attach_guest_conversation`) | the capability and its snapshot, what was imported; a recovery record and the session on the phone | prepare, sign in, attach, retry, sign out | both accounts, the guest's turns and background work |
| checkout (`story_payments.py`) | entitlement by owner | create session, Stripe events | Stripe, which repeats and reorders |
| codex worker, news, photos, places, speech | leases on files, selections, caches | external calls | providers |
| web client, other parts of the mobile client | drafts, media, polling | send, repeat, discard | all of the above |

How they interact. A phone queues a turn durably and sends it until the server
has it. A turn is accepted under the turn lease; its testimony is reviewed while
a reply is already generated and streamed, and the reply is saved only if it
rests on what the owner says and permits at that moment; acceptance inserts
a source, which advances the sequences that editions pin (so a trigger
invalidates the formal memoir), leaves a receipt for the dispatcher, and
attaches the recording of what was said. The dispatcher wakes the lanes; the
coordinator's batch extracts the sources into events and composes them. A run
of the formal memoir freezes those events into a plan. A published edition,
with a consent to adapt it, admits story games; a published game is linked to
the page. A change below takes everything above it back in the same
transaction.

What makes each component correct:

* *turn lease*: turns of one owner do not interleave, a turn that reports
  success was alone, no cancellation strands a lease or is misattributed;
* *background memoir*: no testimony or correction is lost from the work to be
  done, whatever order receipts, claims and completions come in;
* *formal memoir*: what can be read is complete and rests on what the owner
  says now; consent covers the edition it was given for;
* *story game*: what is published is what the owner chose from the current
  edition; attempts stay bounded; a failure reported late destroys nothing;
* *page*: nothing stale or unshared is sent to its last byte, nothing is shared
  unseen;
* *recordings*: "deleted" is never claimed while bytes exist or can come back,
  "saved" never without them, and nothing is read without permission;
* *reply turn*: no page is shown a draft or reply the owner has overtaken, nor an
opening that was not reviewed for what it answers; one reply is saved, what a page
received is that reply, and a retry is answered;
* *mobile outbox*: no queued turn is lost, none that was discarded returns, and
  nothing settled at the server is sent again;
* *guest transfer*: one owner gets the guest's work, all of it, as it is at the
  hand-over; until then the phone can still ask for it, unless the guest signs out;
* *obligations, jobs, queue*: each piece of work has one effective completion;
* *checkout*: an entitlement is written once, in the order it was meant.

## 2. Hazards

`PROJECT.json` lists them, each at its line. They fall into these groups:

* a call that its caller gave up executes later, after another worker took
  over or the data changed (formal memoir, story game, lease, uploads);
* a holder stalls past its lease and goes on beside its successor;
* a correction or a withdrawal lands between two calls of a worker, between a
  look-up and its locks, or while a body is being sent;
* a process dies between two steps, in its last attempt, or with a batch half
  done;
* counters of attempts that are reset apart; a frontier frozen while targets
  move on;
* several devices of the owner act on a page, an edition or a draft that is no
  longer what they show;
* text that is generated, queued or half sent when the review or the owner
  overtakes it;
* an application that is killed, cancelled or loses its storage between two
  awaits, or changes its account while requests of the old one are under way.

Three of them have no property, for reasons noted there: repeated checkout events,
the order of row locks, and a turn whose testimony was edited before its reply
was saved, which `ReplyTurn` contains and section 7 describes.

## 3. The modules

| module | models | instance |
|---|---|---|
| `FormalMemoir` | runs, chapters, editions, consent, and their workers and readers | `MCFormalMemoir` |
| `MemoirPublication` | what the formal memoir promises, abstractly | refined by `FormalMemoir` |
| `FormalMemoirProofs` | theorems about `FormalMemoir` | |
| `TurnLease` | the lease around a turn, task by task | `MCTurnLease` |
| `TurnLeaseProofs` | theorems about `TurnLease` | |
| `StoryContext` | what a memoir's games are bound to, shared by the next three | |
| `StoryGame` | generation of a game | `MCStoryGame` |
| `StoryGamePage` | the page that shows and shares it | `MCStoryGamePage` |
| `StoryGames` | both together, in one database | `MCStoryGames` |
| `StoryGameProofs` | theorems about `StoryGame`, `StoryGamePage` and `StoryGames` | |
| `MemoirLanes` | the two lanes and their coordinator | `MCMemoirLanes` |
| `MemoirLanesProofs` | theorems about `MemoirLanes` | |
| `OriginalRecordings` | one recording: row, object, requests | `MCOriginalRecordings` |
| `OriginalRecordingsProofs` | theorems about `OriginalRecordings` | |
| `ReplyTurn` | one narrator turn in the API: review, generation, stream, commit | `MCReplyTurn` |
| `ReplyTurnProofs` | theorems about `ReplyTurn` | |
| `MobileTurns` | the phone's outbox of turns and what it can tell of the server | `MCMobileTurns` |
| `MobileTurnsProofs` | theorems about `MobileTurns` | |
| `GuestTransfer` | the phone, the API and the database hand a guest's work over | `MCGuestTransfer` |
| `GuestTransferProofs` | theorems about `GuestTransfer` | |

`PROJECT.json` maps each definition to the lines it stands for. Definitions with
a suffix (`Settled_AnyWriter`) are plausible bugs of the definition without it;
each property fails when one of them takes its place, and nothing else uses
them.

**What is one step.** A call of a PL/pgSQL function, with the triggers it fires,
is one atomic action, because every function takes its row locks in one order
(project, profile, identity, then the rows of the component) before it reads
what it decides on; where a function reads before it locks, the model has two
actions (`OpenEdition`/`ServeChapter`, `Peek`/`Serve`), and where a transaction
is kept open over other work its locks are state (`reader` in `StoryGamePage`,
the guard in `OriginalRecordings`). Everything between two calls is a separate
action: a worker that computes, a thread, an HTTP request under way. In the
phone a step is what JavaScript runs between two awaits; in the API's asynchronous
code it is what runs between two awaits that matter to another task.

**What may go wrong.** Each module with remote calls gives a call four fates: it
executes and answers, it executes and the answer is lost, it is lost, or its
caller gives up and it executes later (`late`). Processes die between any two
steps. Leases run out while their holder runs. Each of these counts against
`MaxFaults`; a lease that expires because its holder is gone does not.

**FormalMemoir.** `authority` is the tuple of counters a run pins, kept as two
halves: `policy`, which consent is bound to, and `content`, the others. `open` is
the gate (policy ready, privacy answers complete, no topic excluded), `shaping` the
mode of the conversation (`read_lifetime_current_mode` answers "shape"): a reply
that is delivered, or the rollout, turns it (`TurnMode`), and what advances the
authority it was answered under ends it. An edition is `Permitted` for adaptation by consent and
by being current, and `Eligible` if the mode is shape besides. The number of a plan's
chapters is chosen when it is begun. `run`,
`staged`, `edition`, `head` and `consent` are the tables; a token is the fence it
was issued at, and `live` says whether the lease is unexpired. `worker` is the
local state of `advance_formal_memoir`: the run and token it claimed, the next
ordinal, where its quantum stops. `Invalidate` is the trigger and part of every
action that changes the authority. The refinement maps an edition, the open
request and the head to `MemoirPublication`, which knows no leases, workers or
chapters.

**TurnLease.** A session is one `AgentTurnLease` object. Its owner task and its
heartbeat each have a place and at most one database call under way in a
thread. Cancelling a task does not stop its thread: `cancelled` waits until the
call is settled, as `io` does in the code. `__aexit__` is the sequence `Leave`,
(heartbeat ends), `Release`, `Exit`, and `Outcome` is its decision what to
raise. `writer`, `overtaken`, `intruded` and `failed` are history variables.

**StoryGame.** Games are numbered in the order they were begun, and bound to an
`authority` that stands for edition, consent, draft and mode (`eligible` there includes
it). Two phases, scenes and build, each with its own attempts; `selection_required`
between them unless the events are `few`. `worker` is the background task, `late` its
calls that may still execute. `chosen` and `claims` are history variables.

**StoryGamePage.** The page, its contents and invitations, the requests that
are reading it and what each of the owner's devices shows. A game generated
meanwhile is published on the page by its trigger, which changes the content
and takes back the sharing. `guests` and `sharedFrom` are history variables.
Where this module and `StoryGame` have a definition of the same kind, its name begins
with `Page` here.

**StoryGames.** Each of the two modules above leaves the other one out: in
`StoryGame` a published game is shown to nobody, and in `StoryGamePage` a game is
published at once. Here `stage_story_game` publishes on the page in its own
transaction (`Links`), the page shows the rows of games (`Followed`, `origin` says
which), so that whatever makes a game stale makes its content stale in the same
step, and who changes a published game waits for the response that is being sent
(`TakesLock`). Local debugging is left out, as its games have another mode.

**MemoirLanes.** `source` and `event` are the sequences of the project; `open`
are the sources not yet extracted. A lane has a pending flag, targets, what is
done, attempts and a lease; the coordinator has a frozen batch with a frontier
(`high`) and a milestone. `Queued` is what a delivered receipt does to the
lanes, `BatchComplete` the decision of `finish_memoir_background_agent`.

**OriginalRecordings.** One upload key, hence at most one row and one object.
Three requests do anything the API allows: preserve, read, transcribe, describe,
discard, cancel, delete. The guard of a read is a place of the request whose
locks the other actions wait for. `late` counts uploads that were given up and
may still write. `asked` is a history variable.

**ReplyTurn.** `run_lifetime_turn` for one `client_turn_id`. The requests are its
attempts, numbered as they get the lease (one that does not get it leaves no
trace). `authority` stands for what a fence compares: policy epoch, execution
generation, preference and source revision; `pending` is the list of sources
whose policy review is due, `receipt` the review of the turn's own. Of a request,
`pc` and `memo` are the producer, `emitter` its `GovernedEmitter`, `generation` and
`reviewing` its two tasks, `queue` and `sending` the response's, `browser` what
the page made of it. With `Parallel` a first attempt streams a draft beside its review; a
restriction retracts it by a new revision. `FinalGuard` and `DraftGuard` are the
two guards of a send, which hold the rows through the send, so that a guarded
send is one step. A reply is known by who generated it, under which fence, in
which take. Saving a reply and publishing it to the database's readers are one
transaction (`commit_lifetime_turn`), hence one step. A request that streams no
draft may open with the *reviewed acknowledgement*: text that the review of the source
wrote beside its decision, in this request or an earlier one (`acknowledged` is what the
receipt keeps). `ack` is what a request has read and said of it, by the version it
was written for; `topics` says that the privacy answers leave every topic open,
and may start either way. While a reply opens so, nothing else is streamed until it is saved.

**MobileTurns.** `outbox` are the vault's rows, `running` the one run of a turn
(`execute`): it lists the row, reads the receipt, writes the row, streams, and
finishes, with the durable acknowledgment (`commit`) beside it. A vault write is
decided in one step, with the check `valid()`, and takes effect in a later one.
`enqueuing` and `discarding` are the serialized calls. `Restart` keeps rows and
server and loses everything else. `posts` are the transmissions that left the
phone and may be executed at any time; `minted`, `queued`, `erased` and a run's
`stale` are history.

**GuestTransfer.** `rows`, `evidence` and `detail` are what the database compares and
hands over of a conversation; `capability` is the row of `guest_conversation_transfer`
with its snapshot, `imports` what the API then moves (files, task results, the local
project). A request of the phone is several steps of the API (`Attach`, `ImportFiles`,
`ImportResults`, `Rebind`), goes on when the phone gives it up, and may break anywhere
(`Break`). The look at the task queue before a database call (`_wait_for_deliveries`) is
taken with that call. `device` is the session, the recovery record, the browser sign-in
on record, whether the guest's vault is open, and the operation under way: the first
three survive the application, the others do not. An account is reached by a password or
the browser after a preparation (`Adopt`), by the browser's link after the application
was started again (`Abandon`, `Return`), or without any preparation when nobody is
signed in or another account is (`Switch`); a session may be refused and lost (`Lose`).
`parting` is history: what was done for the guest's work before the guest was replaced.
`Talk` is the guest going on to talk with requests already in the network, `Behind` what
happens without any request of the phone: extraction, purges, deliveries, the hour of
the capability, and the owners' own activity.

## 4. The runs

| run | question | bounds |
|---|---|---|
| `formal_memoir` | Is what can be read complete and current, is stale prose purged, is completion always possible for a holder, does use follow the last decision, does every run settle; does the machine implement `MemoirPublication`? | 2 runs, 2 workers, 1 client, plans of up to 2 chapters with a quantum of 1, 1 change of authority, 1 fault, 1 late request, 2 decisions on consent, any turns of the mode |
| `turn_lease` | Is a clean turn alone, are writes not interleaved, is nothing stranded, who cancelled, does a lost turn end? | 2 sessions, 1 fault, 1 cancellation by each client |
| `story_game` | Is what is published current and the owner's choice; are attempts bounded; does a published game survive a failure reported late? | 2 games, 2 workers, 4 claims, 1 change of authority, 2 faults |
| `story_game_retry` | Can what is reported as retryable be claimed? (No, see 7.) | `StoryGames`: 1 game, 1 worker, 4 claims, 2 faults, 1 device |
| `story_game_page` | Is nothing sent that is stale or not shared, nothing shared unseen? | 1 viewer, 2 devices, 3 contents, 1 change of authority, 5 revisions |
| `lanes` | Are testimony and corrections never lost from the work that is left, and do batches end whole? | 2 runs, 2 sources, 2 events, 2 attempts, a milestone every round, 1 change of authority, 1 fault |
| `lanes_exhausted` | Is exhausted work shown, so that it can be retried? (No, see 7.) | 1 run, 3 sources, 2 attempts, 2 faults |
| `lanes_extracted` | Is testimony eventually extracted? (No, see 7.) | 1 run, 4 sources, a milestone every 2 rounds, no faults |
| `recordings` | Is erasure real, reading permitted, saved stored, an accepted voice kept? | 3 requests, no upload begun beyond revision 3 of the row, 1 fault |
| `mobile_turns` | Is no turn lost, none resurrected, none sent again that is settled; does what is saved or discarded settle? | 1 turn, 3 runs that may transmit, 2 restarts, cancellations or failures of the vault |
| `reply_turn` | Is no draft or reply shown that is out of date, no opening that is not of the reviewed testimony, one reply saved and shown, a last attempt answered? | 2 attempts, 1 delta or restart for each generation, 1 change by the owner, 1 fault |
| `guest_transfer` | Does one owner get what the guest has at that moment, is it never out of reach while the guest was not signed out of, does the app never wait for ever? | 2 owners, 1 turn, 2 requests in the network, 1 change behind the scenes, 1 fault |

The properties of a run are named in `PROJECT.json`; several are conjunctions of
parts that are defined, and commented, just before them (`EditionsAreTrue`,
`UseFollowsAuthority`, `OwnerDecides`, `WorkIsBounded`, `SharingIsDecided`,
`FinishedIsTrue`, `BatchesAreWhole`, `VoiceIsKept`, `ReplyFollowsAuthority`,
`HandOverIsFaithful`).

Why these are enough. Every hazard needs one actor to overtake another, so two
workers, sessions, attempts or devices; a chapter plan of two has a first, a last
and a boundary of the quantum between them. One fault already gives a call executed
after its caller gave up *and* a second holder (the fault lets the lease lapse
or the call linger; the successor needs none). The lease of a turn has 2
sessions because a third adds nothing that the two orders of two do not have.
`recordings` needs three requests: an abandoned or concurrent upload, a deletion,
and a third that finishes between the object's DELETE and its receipt.
`story_game_page` needs three contents so that an
invitation to the first can be misread after the second, and a debug game can
sit between two ordinary ones. In `lanes` the second source is a second turn, an
edit or a correction of the first, or its withdrawal, so one can land on each side of a claim and
a frontier has a before and a beyond; the change of authority and the fault can
both happen in one behaviour. `mobile_turns` has one turn, as runs of different
turns meet only in the rule that one is pending, which is proved for any number
(`PendingTurnsExclude`); three transmissions are one, its retry, and one more
after a reconciliation. In `reply_turn` the first attempt can fail before, during or after
its review, its stream and its save, and the second is the one that must be
answered; one delta tells a draft that was seen from one that was not. In
`guest_transfer` the second owner is the one who must get nothing, and two requests
are one given up and its retry. Except for the liveness properties, the theorems of
section 6 lift all of these bounds.

The composition `StoryGames` is larger than its parts: with the bounds of
`story_game` and `story_game_page` it is out of reach, which is why the
two have runs of their own. Its two properties, `PublicationHolds` and
`SentAsDecided`, are proved; `MCStoryGames.cfg` lets TLC check them on a small
instance (1 worker, 2 games, 1 device, 1 fault; 0.9 million states), which is no run
of the list. The run `story_game_retry` explores a part of the same composition.

Symmetry is used over workers, runs, requests and readers where the modules only
compare them and the run checks safety; the runs with liveness use none.
`CHECK_DEADLOCK FALSE` is in every configuration but that of `mobile_turns`:
requests, ids and bounds run out, and each of these systems may legitimately come
to rest.

The runs `formal_memoir`, `turn_lease`, `lanes_extracted`, `mobile_turns`,
`reply_turn` and `guest_transfer` state fairness; the rest are safety.

## 5. Fairness

*FormalMemoir*: weak fairness of each worker's `Advance`, for steps that move a worker.
A worker that was interrupted is idle and may claim again: the web client calls
`/formal-memoir/advance` up to 16 times for one wish to complete (`completeMemoir` in
`story-game.mjs`), and the internal endpoint can be called for the same run. Weak
fairness of `Lapse` of whichever lease is left, as time passes. None for the owner, the
mode or faults. The result is therefore conditional on the narrator, or the internal
endpoint, going on asking.

*TurnLease*: weak fairness of the steps by which a task that is ready is
resumed, and of the database's answers to living processes, which have a time
limit. Nothing makes the body of a turn end: `LossEndsTheTurn` says that the
heartbeat ends it. A process may die instead.

*MemoirLanes*: weak fairness of dispatch, delivery of receipts, the answering of rounds,
the coordinator's claim, each process's work (not of a pause for the policy review) and
the narrator's retry (which is enabled only while a lane is shown as `retry_required`),
and strong fairness of `Conclude`: a run of the coordinator has 32 tool calls and 900
seconds, so it cannot go on for ever. The counterexample of `lanes_extracted` satisfies
all of them.

*MobileTurns*: weak fairness of what JavaScript does next with what is settled,
of the vault's writes and of the end of a stream, which has a time limit. Strong
fairness of `Start(t, "check")`, as the app checks what is pending each time it comes to
the foreground and other runs may be in the way, and of reading a receipt and its
arrival, as one that fails is asked for again by the next check: without it a
server that never answers leaves the turn pending, which is what the code intends. None of
the narrator, of restarts or of the server's acceptance and save.

*ReplyTurn*: weak fairness of the last attempt's own tasks together, the event loop: the
producer, its review and generation, and the response (stated over `pc`, the tasks and
the stream, which every one of these steps moves). Provider calls have time limits, so a
review or generation that was asked ends. None of other attempts, of
whether one begins (`Open`), of the owner or of faults. `TurnIsAnswered` asks for an answer of the last attempt only, and only if it
finds the source as accepted.

*GuestTransfer*: weak fairness of each request's next step at the API, of the
application's reaction to an answer, of sending the preparation it has begun and of stopping for
local work. None of the user, nor of the guest's deliveries: a request that finds them is refused
rather than waiting. A request given up leaves the application idle (`GiveUp`), whether
or not the API ever answers it.

## 6. Proofs

Each of the eight proof modules proves `Spec => []IInv` for an inductive
invariant, and the properties from it. They hold for every number of workers,
runs, clients, sessions, requests, attempts, games, viewers, devices, turns, owners,
sources and events, every capacity, quantum and cadence, and every
value of the bounds. The assumptions are those named in the modules: the null
run is not a run and the null session not a session, and so on for the other
nulls, viewers are not devices, capacity and quantum are
positive, the bounds are natural numbers, and the sets of requests and of turns are
finite. TLC finds no violation of the
inductive invariants on the instances of section 4. Every property of
the passing runs but the liveness properties is stated by a theorem.

**FormalMemoir** (`Invariance`, `TypeCorrect`, `EditionsAreCurrent`, `StaleIsPurged`,
`OneRunAtATime`, `HoldersComplete`). The properties are not inductive: that a holder who
reaches completion has staged every chapter depends on the cursor it computed when it
claimed, which another holder may have overtaken since. The invariant adds that the
staged chapters are a prefix of the plan, that fences only move past tokens already
handed out, and, for whoever still holds the lease under its token, that its cursor
stands at the end of the staged prefix or behind it. The latter is kept because each
action either leaves the run as it is or *advances* it (lemma on `Advances`): the plan
stays, nobody becomes holder under an old token, staged chapters only grow while there
is a holder. Late requests satisfy the same condition as the worker that sent them. From
the same invariant follow the consent properties (`ConsentIsAboutTheHead`, `OnlyGrants`,
`ServesTheActiveEdition`, `UseIsAuthorized`; a turn of the mode can make an edition
eligible, but only under a grant that is in force as it stands) and the refinement
(`Implementation`): a completion maps to the publication of an edition under the
authority of that moment, a change to a withdrawal, and every other step (claims,
chapters, releases, lapses, late requests) to a stutter.

**OriginalRecordings** (`Invariance`, `TypeCorrect`, `Erasure`, `Reading`,
`ReadyStored`, `VoiceKept`). The difficulty is `ErasureIsReal`: a DELETE was
answered, and before its receipt is recorded another upload may have put the
object back and stopped. The invariant says why the receipt is refused then.
`WritersCounted`: every request between the beginning and the end of an upload,
and every upload still under way without a caller, is in the row's count of
unfinished attempts. `ReceiptsHold`: if a request is about to report a DELETE at
the revision it saw and the object is there again, the count is not zero: either
the writer has stopped, and its end advanced the revision, or it has not, and it
is counted. `CleanupIsFinal` and `DeletionIsFinal` then keep it so.
`VerifiedIsStored` carries what a readback saw to the transaction that
acknowledges it, although other uploads run in between: the bucket never
overwrites, and nobody deletes the object of a row that is not deleted.

**TurnLease** (`Invariance`, `TypeCorrect`, `CleanExits`, `WritesApart`,
`NothingStranded`, `CancelledByClient`, `QuietAfterExit`). Two facts about a
session carry everything. `RowOK`: the token is granted once, by the one
acquisition the session sends, so a session that another has overtaken or
intruded on never has the row again; hence a release that finds its row is proof
that nobody came between, and a session that saw its release or its acquisition
refused has no row. `OwnerOK`: the heartbeat runs only between grant and
release and cancels at most once, so every other cancellation counted by the
task, or still to be raised, is the client's; this is what the arithmetic on
`cancelling()` in `__aexit__` relies on. The theorems have no bound on faults or
cancellations, of which the run has one each.

**StoryGame** (`Invariance`, `TypesHold`, `OwnersDecisionsStand`,
`CurrentGamesExclude`, `RunsAreBounded`, `WorkBounded`, `PublicationLasts`). `GameOK`
says how a game's selection and candidate fit its phase and what the owner
confirmed. It also ties the history of claims to the attempts of the present phase,
which are reset when a phase ends: that no reset gives a phase a fourth run is not
visible in the attempts alone. Late calls need no condition of their own: they are
refused by the token or do what a worker would. `Lasting` is what no step takes
back: what is stale stays stale, what is published stays or becomes stale, and
neither is bound to anything else.

**StoryGamePage** (`PageInvariance`, `PageTypesHold`, `ResponsesAreCurrent`,
`ViewersAreAllowed`, `SharingIsInformed`). A reader under the page's lock is
tied to the page as it is (`RequestsOK`), invitations of the present content to
the owner's guests and contents to come have none (`InvitationsOK`), and a
revision shown by a device names one page only (`SeenOK`). The length
of the sequence of contents is not bounded by the number of viewers or devices.

**StoryGames** (`JointInvariance`, `GamesReachTheirPage`, `DecisionsReachReaders`).
`StoryGamePage` assumes three things of the games behind the page: that one appears only
while no other is current, that it appears bound to what holds at that moment, and that
contents become stale by those two changes alone, while nobody is being sent a game.
That each step of a game, whichever worker or late call takes it, is one of the page's
steps or none shows that generation keeps all three. A withdrawal is `PageWithdraw`; the
two calls that look for outdated games are `PageBegin`, or nothing if the page shows
none of them; a staging is `Publish`, since `AtMostOne` leaves no other game current and
the call locks a game bound to the present authority (`StagedStep`: nothing but such a
call publishes). The invariant adds that a content is in the state of its game
(`OriginOK`) and that a game at work or shown has edition and consent behind it
(`EligibleOK`). With `GameOK` and `RequestsOK` that is `SentAsDecided`: the owner's
choice of scenes, made in one module, holds for what a reader is sent in the other.

**MemoirLanes** (`Invariance`, `TypesHold`, `FinishedHolds`, `BatchesWhole`). A lane
at rest has nothing left to do because its targets were high enough when it stopped,
and what those targets cover depends on receipts still to be delivered. `TimelineOK`
says so of the timeline: once all receipts are delivered its target covers every source
still open, and at rest it has left none open. `ComposerOK` says it of the
composer, which exists once there is a milestone: once the receipt of an edit is
delivered its target covers the correction, and at rest it has composed it.
`SnapshotsOK` is about what a run saw when it took its work and acts on when it
finishes: a snapshot of the timeline has passed extracted testimony only, a
composition was begun on such testimony only, and neither a snapshot nor the frozen
frontier is beyond the last source. `RoundsOK` keeps the count of rounds below the
number of sources, so that a milestone's source exists. A frontier is the largest
member of a set of sequences; that there is one is a lemma from the well-foundedness
of `<` on the natural numbers.

**MobileTurns** (`Invariance`, `TypesHold`, `WordIsKept`, `SettledForGood`,
`SendsAreFresh`, `PendingTurnsExclude`). `TurnOK` says what row, run, enqueue and
discard of one turn may be together. Two parts carry most of it: a run that
has decided a write still finds its row pending, because a discard waits for the
run and a second run cannot start; and a row never tried was never transmitted, also
after a restart, so that skipping the reconciliation for it is safe. `OneAtATime` is
what the serialization of enqueue gives.

**GuestTransfer** (`Invariance`, `TypesHold`, `OneOwnerHolds`, `WorkKept`, `HandOver`).
`CallsOK` says what a request at some point of its work can rely on, whoever else is
working on the same capability, and `Progress` that nothing of a hand-over is taken
back, which is what keeps it true under concurrent and repeated requests. `DeviceOK`
says what the phone knows before it replaces the guest's session: that a record of a
prepared transfer stands for a capability the server knows, and that the guest's outbox,
once looked at, is not written to until the guest is replaced. `WorkKept` says exactly
this: under another account, if the guest was not signed out of and did not lose the
session, the work is handed over or the capability is on record and known; and if the
vault was open when the preparation was asked for and the change of identity followed it
(`parting` is "checked"), no turn is pending on the phone. In the other cases it may be,
as section 7 says. `EvidenceOK` is needed because a transfer without evidence does not
compare evidence at all: the guest then has no rows either.

**ReplyTurn** (`Invariance`, `TypesHold`, `DeliveredHolds`, `ReplyFollows`). Frames wait
in a queue while the review goes on, the owner changes things and other attempts run, so
the invariant is about every frame at every place. `FrameOK` says under what authority
its text may still be sent: its fence is the authority the text was generated under, or
that of the saved reply. `StreamOK` ties the frames and the page of an attempt that is
drafting to its emitter; its part `RevisionFirst` says that the page has the present
revision or is told of it before any text of it, so that what was retracted is gone
before what replaces it appears. `DraftArrives` is why a commit may count on text that
was streamed: what was written is on the page or on its way, unless its fence is over.
It needs `DraftAllowed`: a draft once admitted keeps its guard while its fence holds,
since a review that restricts advances the authority and one that does not leaves the
testimony usable. The acknowledgement has an invariant of its own (`OpeningInvariance`):
what a request has read was written for a version the source had, and if that is its
last one, the review on record found no restriction; what it said is of the version
accepted; and while its frame is still under a valid fence, no topic has been closed. An
acknowledgement may thus be older than the fence, and `ReplyFollows` says of it only
this. `Showing`, `Closing` and `Answered` follow the last frames up to the result. An
attempt disturbs another one only through the authority, the lease and the saved reply
(`Grows`, `Undisturbed`, lemma `OtherStays`), so each action is examined for one
attempt. The theorems hold for both orders of review and generation, of which the run
has the parallel one: its retries review first, as every attempt of the other does.

Only model-checked: the liveness properties (`RunsSettle`, `LossEndsTheTurn`,
`TurnsEnd`, `TurnIsAnswered`, `WaitingEnds`), which are out of the prover's
reach. That the three disagreements of section 7 occur is shown by TLC's counterexamples.

## 7. Disagreements with the documentation

1. `story_game_retry`: a game whose third attempt died with its process is
   reported as retryable for ever, but no claim accepts it, and no other game
   can be begun until the memoir or the consent changes. (The runtime and
   `docs/story-game-scene-selection.md` say that the job can be retried.)
2. `lanes_exhausted`: a turn accepted after the coordinator used up its attempts
   resets the lane, which is then shown as pending, while the coordinator can
   never be claimed and the retry that would help is not offered. (A comment
   and a test say that the failure is exposed through the retry state.)
3. `lanes_extracted`: a receipt that arrives during a composition raises the
   composer's target beyond the frozen frontier of the batch, so the batch is
   never complete, composes the same chapters again, and later testimony waits
   behind it. (A comment says that the batch is kept and later inputs drained.)
   It is found without any fault.

Observations that came up while modelling, without a run of their own. They
were read in the code; where a module contains the behaviour it is named.

*Reply turn* (`ReplyTurn`).
- A turn whose testimony is edited or withdrawn before its reply is saved, or
  that a newer turn overtakes, can never be answered: the commit asks for the version
  accepted (SQL 5615-5619, 12520-12523), while the runtime asks the narrator to retry the
  response (`lifetime_memory_runtime.py` 428, 470).
- The text of the source is read at acceptance (253-264) and used under a fence
  captured later (278): a change in between is noticed only by the commit.
- The acknowledgement a reply opens with (`lifetime_memory_runtime.py` 334-339) is older
  than the fence it is sent and saved under: a preference changed since, also by the
  request itself (183), leaves it as it was. Version, language and topics are compared
  again (`policy_review.py` 60-70), against the version *accepted*: if the source is
  edited after a retry accepted it (253) and before that fence (278), and the new text is
  reviewed without an acknowledgement of its own, the one the status had answered for the
  version before (196) is shown, although the text it answers is replaced, before the
  commit refuses. `tests/test_policy_early_ack.py` has a
  `test_cached_acknowledgement_never_crosses_source_language_or_flag`.
- A first attempt whose source was reviewed meanwhile by an attempt that had
  lost its lease fails; its retry succeeds.

*Guest transfer* (`GuestTransfer`).
- Extraction or policy review of the guest's sources between preparation and attachment makes the
  attachment conflict (SQL 3486), although the guest did nothing. The phone does
  not prepare again after it changed its session (`client.ts` 210), and the API reports the
  conflict as 503 (`supabase_routes.py` 64-79). `docs/mobile/native-security.md`
  line 15 has the adapter quiesce pending turns, uploads, draft jobs and previews,
  which does not cover this work.
- Signing out erases the record of an unfinished transfer (`client.ts` 431-436), also
  under the owner it was prepared for, and signing in with nobody signed in prepares
  nothing (334-340): the guest's work then stays with an account nobody can enter.
  `docs/mobile/native-security.md` line 15 says "Only a successful attach plus the
  adapter's authoritative history reconciliation erases recovery".
- A link that ends the browser sign-in after the application was started again adopts
  the account without looking at local work (`client.ts` 228-267, 363-364): a turn
  written since the preparation stays in the guest's closed vault. The same line says
  that the adapter "must quiesce pending turns/uploads" before the guest is replaced.
- The adapter sees no pending work while the vault is not open (`context.tsx` 245-252):
  after a start, a preparation that comes before it, or where it cannot be opened, goes
  through with turns pending.
- After the local cap (`client.ts` 390) an incomplete attachment cannot be retried
  from the phone (406), although a claimed capability does not expire at the server
  and the API answers "Workspace merge incomplete; retry this transfer".
- A request of a turn that arrives after its transfer makes a row for the guest
  anew (SQL 2563, 2654).
- A preparation delayed in the network replaces the transcript of a later one.
- A guest account made permanent in place can still be attached elsewhere with a
  capability that was prepared before.
- The web client can return to the guest, the phone cannot.

*Elsewhere.*
- `mark_paid` compares a Stripe event with the last session only
  (`story_payments.py` 154-238): one delivered again after an event of another session
  writes the entitlement again, where `docs/Memory_Spark_SaaS_Architecture_V1.md`
  (384, 506) speaks of one entitlement grant.
- `claim_lifetime_collection_job` catches a serialization failure (SQL 4174), while the
  guard it calls raises PT409 (7812-7860): the branch that would mark the job stale
  cannot be taken; triggers mark it eagerly instead. An outline made stale by
  a revoked entitlement is returned again by the deduplication (6240) once it is
  restored at the same revision.
- Claims, results and checkpoints of the local task queue, private draft jobs and
  the submission of previews have no caller in `apps` or `scripts`.

## 8. What is not modelled, and why

*Abstracted inside the modules*: digests, prose, quotes and the checks of one
against the other; what language models and speech providers answer (any answer,
or a failure); the stages and checkpoints of a game's model calls; the delays
of receipts; locales; photos and news attached to a turn; the pending state of
policy review, which is assumed resolved; transfer of a recording to another
owner and deletion of an account (which leaves tombstones without an owner).
In `TurnLease` a group of parallel calls is one call, and the guidance snapshot
that a release also clears is left out. A client's cancellation while
`__aexit__` awaits the heartbeat it has cancelled is swallowed, in the code and
in the model. In `OriginalRecordings` nothing retries the erasure of a tombstone
but another request to delete it, and an upload whose caller died leaves the
cleanup pending for ever: by design, the code never claims what it cannot know.
The guard's database session is assumed not to be killed while it is held.

In `FormalMemoir` which strategy a reply uses is a choice, and a delivered reply is not
tied to a turn. In `MemoirLanes` the delay after a failure is only what it lets a run
report (`Reports`): a delayed lane may be offered at once or not.

In `ReplyTurn`: responses that are not streamed, batches of earlier inputs, languages,
turns newer than this one, greetings and payment, photos and the focus on a workspace,
tasks a reply starts, heartbeats (`TurnLease` has them), and the limits of 64 revisions
and 64 queued frames. In `MobileTurns`: what the state shown to the narrator says and
its generation counter, the comparison of canonical payloads, the limit of 100 rows, and
the vault's own life at sign-out. In `GuestTransfer`: the web client, capabilities under
other tokens, the merging of profiles and memories, news clues, the transcript, another
anonymous account begun after a sign-out (it is another guest), linking through a
provider (the application offers none), a browser sign-in begun under another account,
and a sign-out whose clean-up fails. The look at local work (turns, drafts, media,
cancellations) is one step, and its turns stand for all of it. Editions, milestones and
lanes are copied from the snapshot too (SQL 3490-3503), and nothing compares them again:
a lane that completes between preparation and attachment advances no sequence
(5916-5935). They are derived from the evidence and not in `HandOverIsFaithful`.

*Components without a module* are listed in `PROJECT.json` with the reason:
content rather than control (events and their merging, prompts, composition),
clients of external providers with little state
(speech, places, news), protocols that repeat one modelled here
(obligations, checkpoints), code without live callers (most of the task queue, draft
jobs, previews), or development and deployment tooling. The repository is large,
and most of its lines are of these kinds: pages, prompts, evaluation, routing and
documents. The modules cover the state machines on which the rest relies, and
the map is accordingly a small share of all lines.

## 9. Order of the work, and what could follow

The modules were written in this order, most important first: `FormalMemoir` with its
abstract specification, `TurnLease`, `StoryGame`, `StoryGamePage`,
`MemoirLanes`, `OriginalRecordings`, `MobileTurns`, `ReplyTurn`, `GuestTransfer`;
the proofs followed each of them. `StoryGames` composes two of them.

What could follow: collection jobs and checkout, if a disagreement of
section 7 is to be settled there; and the composition of `MobileTurns` with
`ReplyTurn`, whose interface (a turn is accepted, saved or changed) each has in its own
terms.
