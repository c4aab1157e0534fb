---------------------------- MODULE FormalMemoir ----------------------------
(***************************************************************************)
(* The formal memoir of one owner and project: a run freezes a plan of     *)
(* chapters from the owner's active events, workers stage the chapters     *)
(* under a fenced lease, and the last page commits an edition.  The state  *)
(* machine is in PostgreSQL (begin/claim/stage/complete/release_formal_    *)
(* memoir, the invalidation triggers and set_story_game_consent); the      *)
(* worker is advance_formal_memoir of apps/api/formal_memoir.py, whose     *)
(* calls can be interrupted, lost, or executed after it gave up.           *)
(*                                                                         *)
(* Every database function locks the project row first and the rows of the *)
(* run afterwards, and the triggers run in the writer's transaction, so    *)
(* one call is one atomic step; the worker's steps between calls are not.  *)
(***************************************************************************)
EXTENDS Integers, FiniteSets

CONSTANTS
  Runs,          \* request ids, each the identity of at most one run
  NoRun,         \* the null run
  Workers,       \* processes that call advance_formal_memoir
  Clients,       \* the owner's browsers and phones
  Capacity,      \* most chapters a plan can have (128 in the code)
  Quantum,       \* most chapters one advance stages (8 in the code)
  MaxAuthority,  \* bound: changes of the authority, in either half
  MaxFaults,     \* bound: interruptions, crashes and leases that run out early
  MaxLate,       \* bound: abandoned requests the network still holds
  MaxConsent     \* bound: consent decisions

ASSUME RunsAssumption == NoRun \notin Runs
ASSUME CapacityAssumption == Capacity \in Nat \ {0}
ASSUME QuantumAssumption == Quantum \in Nat \ {0}
ASSUME BoundsAssumption == /\ MaxAuthority \in Nat
                           /\ MaxFaults \in Nat
                           /\ MaxLate \in Nat
                           /\ MaxConsent \in Nat

VARIABLES
  authority,  \* [policy, content]: policy_epoch, and the other counters a run pins
  open,       \* policy ready, privacy complete, no topic excluded or paused
  extracted,  \* every active source has processing_status 'succeeded'
  shaping,    \* read_lifetime_current_mode answers 'shape'
  run,        \* user_formal_memoir_run
  staged,     \* ordinals with a row in user_formal_memoir_chapter
  edition,    \* user_formal_memoir_edition, by its unique run_id
  head,       \* user_formal_memoir_head
  consent,    \* user_story_game_consent, by edition
  worker,     \* the local state of each advance_formal_memoir call
  late,       \* requests whose caller gave up and that may still execute
  faults,     \* faults so far
  view,       \* what a client last read: head revisions and the edition
  opened      \* an edition a reader checked before taking the lock

authorityVars == <<authority, open, extracted, shaping>>
memoirVars == <<run, staged, edition, head, consent>>
workerVars == <<worker, late, faults>>
clientVars == <<view, opened>>
vars == <<authorityVars, memoirVars, workerVars, clientVars>>

-----------------------------------------------------------------------------
Authority == [policy : 0..MaxAuthority, content : 0..MaxAuthority]

NoAuthority == [policy |-> 0, content |-> 0]

Run == [state : {"none", "pending", "running", "completed", "stale"},
        token : Nat,          \* 0 is null; a token is the fence it was issued at
        fence : Nat,
        live : BOOLEAN,       \* lease_until > clock_timestamp()
        base : Nat,
        authority : Authority,
        count : 0..Capacity,
        evidence : BOOLEAN]   \* the plan still holds its quotes

Edition == [exists : BOOLEAN, active : BOOLEAN, revision : Nat]

Head == [revision : Nat, edition : Runs \cup {NoRun}, consent : Nat]

Consent == [status : {"none", "active", "revoked"}, revision : Nat, policy : 0..MaxAuthority]

Worker == [pc : {"idle", "read", "stage", "complete", "yield", "abort"},
           run : Runs \cup {NoRun}, token : Nat,
           ordinal : 0..Capacity + 1, stop : 0..Capacity + 1, count : 0..Capacity]

Request == [op : {"stage", "complete", "release"}, run : Runs, token : Nat, ordinal : Nat]

IdleWorker == [pc |-> "idle", run |-> NoRun, token |-> 0, ordinal |-> 0, stop |-> 0, count |-> 0]

View == [revision : Nat, consent : Nat, edition : Runs \cup {NoRun}]

Ordinals(r) == 1..run[r].count

Init ==
  /\ authority = NoAuthority
  /\ open \in BOOLEAN
  /\ extracted \in BOOLEAN
  /\ shaping = FALSE
  /\ run = [r \in Runs |-> [state |-> "none", token |-> 0, fence |-> 0, live |-> FALSE,
                            base |-> 0, authority |-> NoAuthority, count |-> 0,
                            evidence |-> FALSE]]
  /\ staged = [r \in Runs |-> {}]
  /\ edition = [r \in Runs |-> [exists |-> FALSE, active |-> FALSE, revision |-> 0]]
  /\ head = [revision |-> 0, edition |-> NoRun, consent |-> 0]
  /\ consent = [r \in Runs |-> [status |-> "none", revision |-> 0, policy |-> 0]]
  /\ worker = [w \in Workers |-> IdleWorker]
  /\ late = {}
  /\ faults = 0
  /\ view = [c \in Clients |-> [revision |-> 0, consent |-> 0, edition |-> NoRun]]
  /\ opened = [c \in Clients |-> NoRun]

-----------------------------------------------------------------------------
(* What changes under the memoir: sources, events, policy, preferences.    *)

\* Mutants: staged chapters of completed runs survive; unfinished runs are
\* left to be rejected later; the edition stays readable.
PurgedChapters_Unfinished(r) == IF run[r].state = "completed" THEN staged[r] ELSE {}
StaleRun_CompletedOnly(r) ==
  IF run[r].state # "completed" THEN run[r]
  ELSE [run[r] EXCEPT !.state = "stale", !.token = 0, !.evidence = FALSE]
Retired_Keeps(r) == edition[r]

\* invalidate_formal_memoir, inside the transaction that changed the authority:
\* delete every chapter, blank every plan, fence every run, retire every edition.
PurgedChapters(r) == {}

StaleRun(r) ==
  IF run[r].state \in {"none", "stale"} THEN run[r]
  ELSE [state |-> "stale", token |-> 0, fence |-> run[r].fence + 1, live |-> FALSE,
        base |-> run[r].base, authority |-> run[r].authority, count |-> run[r].count,
        evidence |-> FALSE]

Retired(r) == [edition[r] EXCEPT !.active = FALSE]

Invalidate ==
  /\ run' = [r \in Runs |-> StaleRun(r)]
  /\ staged' = [r \in Runs |-> PurgedChapters(r)]
  /\ edition' = [r \in Runs |-> Retired(r)]
  /\ UNCHANGED <<head, consent>>

\* A writer advances policy_epoch, source_sequence or event_sequence.  An
\* accepted or edited source awaits extraction and policy review; an edit, a
\* withdrawal or a correction also advances policy_epoch.  A reply shapes only
\* under the policy and for the source it answered; events do not end its mode.
ChangeProject(field) ==
  /\ authority.policy + authority.content < MaxAuthority
  /\ authority' = [authority EXCEPT ![field] = @ + 1]
  /\ shaping' \in {shaping, FALSE}
  /\ field = "policy" => ~shaping'
  /\ open' \in {open, FALSE}
  /\ extracted' \in BOOLEAN
  /\ Invalidate
  /\ UNCHANGED <<workerVars, clientVars>>

\* Mutant: closing the gate advances no revision, so nothing is invalidated.
ChangePreference_NoRevision ==
  /\ open' \in BOOLEAN
  /\ open' # open
  /\ UNCHANGED <<authority, extracted, shaping, memoirVars, workerVars, clientVars>>

\* A profile or topic change advances preference_revision, which no delivered
\* reply has seen, and may open or close the privacy gate.
ChangePreference ==
  /\ authority.policy + authority.content < MaxAuthority
  /\ authority' = [authority EXCEPT !.content = @ + 1]
  /\ shaping' = FALSE
  /\ open' \in BOOLEAN
  /\ Invalidate
  /\ UNCHANGED <<extracted, workerVars, clientVars>>

\* The pending policy review ends; no pinned counter moves.
ReviewPolicy ==
  /\ ~open
  /\ open' = TRUE
  /\ UNCHANGED <<authority, extracted, shaping, memoirVars, workerVars, clientVars>>

\* Extraction succeeds and finds no new event.
FinishExtraction ==
  /\ ~extracted
  /\ extracted' = TRUE
  /\ UNCHANGED <<authority, open, shaping, memoirVars, workerVars, clientVars>>

\* The reply to the latest source is delivered with its strategy, or the
\* operator moves the rollout: the conversation turns to shape or away from it.
TurnMode ==
  /\ shaping' = ~shaping
  /\ UNCHANGED <<authority, open, extracted, memoirVars, workerVars, clientVars>>

-----------------------------------------------------------------------------
(* Database functions.                                                     *)

\* Mutant: a completed run is accepted although a later edition replaced its own.
LockRun_AnyEdition(r) ==
  /\ open
  /\ run[r].state \in {"pending", "running", "completed"}
  /\ run[r].authority = authority

\* lock_formal_memoir_run without a token: the run's pinned authority is the
\* current one, and a completed run is still the head's active edition.
LockRun(r) ==
  /\ open
  /\ run[r].state \in {"pending", "running", "completed"}
  /\ run[r].authority = authority
  /\ run[r].state = "completed" => edition[r].active /\ head.edition = r

\* lock_formal_memoir_run with a token: the caller holds the live lease.
Holds(r, token) ==
  /\ LockRun(r)
  /\ run[r].state = "running"
  /\ run[r].token = token
  /\ run[r].live

\* next_ordinal: the first planned chapter that is not staged.
NextOrdinal(r) ==
  CHOOSE n \in 1..run[r].count + 1 :
    /\ n \notin staged[r]
    /\ \A m \in 1..n - 1 : m \in staged[r]

\* stage_formal_memoir_chapter: the content is a function of the plan, so a
\* replay finds the same digest and inserts nothing.
StageEffect(r, ordinal) ==
  /\ staged' = [staged EXCEPT ![r] = @ \cup {ordinal}]
  /\ UNCHANGED <<run, edition, head, consent>>

\* complete_formal_memoir's guards after the lease check.
Completable(r) ==
  /\ head.revision = run[r].base
  /\ staged[r] = Ordinals(r)

\* Mutant: completion leaves the consent revision where it was.
ConsentAfterEdition_Same == head.consent

ConsentAfterEdition == head.consent + 1

\* complete_formal_memoir: one edition replaces the active one, and the
\* consent revision moves so that no decision about an older edition applies.
CompleteEffect(r) ==
  /\ edition' = [q \in Runs |->
                   IF q = r THEN [exists |-> TRUE, active |-> TRUE, revision |-> head.revision + 1]
                   ELSE Retired(q)]
  /\ head' = [revision |-> head.revision + 1, edition |-> r, consent |-> ConsentAfterEdition]
  /\ run' = [run EXCEPT ![r].state = "completed", ![r].live = FALSE]
  /\ UNCHANGED <<staged, consent>>

\* Mutant: the release writes a state the table's check does not know.
ReleaseEffect_Yielded(r) ==
  /\ run' = [run EXCEPT ![r].state = "yielded", ![r].token = 0, ![r].live = FALSE]
  /\ UNCHANGED <<staged, edition, head, consent>>

\* release_formal_memoir: staged chapters stay, the token is revoked.
ReleaseEffect(r) ==
  /\ run' = [run EXCEPT ![r].state = "pending", ![r].token = 0, ![r].live = FALSE,
                        ![r].fence = @ + 1]
  /\ UNCHANGED <<staged, edition, head, consent>>

\* What each call that changes something needs, and what it does.
Accepts(op, r, token) ==
  /\ Holds(r, token)
  /\ op = "complete" => Completable(r)

Execute(op, r, ordinal) ==
  \/ op = "stage" /\ StageEffect(r, ordinal)
  \/ op = "complete" /\ CompleteEffect(r)
  \/ op = "release" /\ ReleaseEffect(r)

-----------------------------------------------------------------------------
(* advance_formal_memoir.                                                  *)

\* A lease runs out.  While a worker still acts under it that is a fault: the
\* worker's own 60 s timeout is far inside the 300 s lease.
Lapse(r) ==
  /\ run[r].live
  /\ run' = [run EXCEPT ![r].live = FALSE]
  /\ \/ /\ \A w \in Workers : worker[w].run # r \/ worker[w].token # run[r].token
        /\ faults' = faults
     \/ /\ faults < MaxFaults
        /\ faults' = faults + 1
  /\ UNCHANGED <<authorityVars, staged, edition, head, consent, worker, late, clientVars>>

\* Mutant: only a released run can be claimed, not one whose lease ran out.
Busy_WhileToken(r) == run[r].token # 0

Busy(r) == run[r].token # 0 /\ run[r].live

\* min(count + 1, start + quantum)
QuantumStop(start, count) ==
  IF start + Quantum < count + 1 THEN start + Quantum ELSE count + 1

\* claim_formal_memoir grants a fresh token unless the run is finished or a
\* live lease makes it busy; the worker then plans one quantum of chapters.
Claim(w, r) ==
  /\ worker[w].pc = "idle"
  /\ LockRun(r)
  /\ run[r].state # "completed"
  /\ ~Busy(r)
  /\ run' = [run EXCEPT ![r].state = "running", ![r].token = run[r].fence + 1,
                        ![r].fence = @ + 1, ![r].live = TRUE]
  /\ LET start == NextOrdinal(r)
         stop == QuantumStop(start, run[r].count)
     IN worker' = [worker EXCEPT ![w] =
          [pc |-> IF start < stop THEN "read" ELSE "complete", run |-> r,
           token |-> run[r].fence + 1, ordinal |-> start, stop |-> stop, count |-> run[r].count]]
  /\ UNCHANGED <<authorityVars, staged, edition, head, consent, late, faults, clientVars>>

\* read_formal_memoir_chapter answers with the planned evidence.
Read(w) ==
  /\ worker[w].pc = "read"
  /\ Holds(worker[w].run, worker[w].token)
  /\ worker' = [worker EXCEPT ![w].pc = "stage"]
  /\ UNCHANGED <<authorityVars, memoirVars, late, faults, clientVars>>

\* Mutant: completion one chapter early.
AfterStage_Early(w) ==
  IF worker[w].ordinal + 1 < worker[w].stop THEN "read"
  ELSE IF worker[w].stop >= worker[w].count THEN "complete" ELSE "yield"

\* After a chapter: the next one of the quantum, completion, or yielding.
AfterStage(w) ==
  IF worker[w].ordinal + 1 < worker[w].stop THEN "read"
  ELSE IF worker[w].stop = worker[w].count + 1 THEN "complete" ELSE "yield"

Stage(w) ==
  /\ worker[w].pc = "stage"
  /\ Accepts("stage", worker[w].run, worker[w].token)
  /\ Execute("stage", worker[w].run, worker[w].ordinal)
  /\ worker' = [worker EXCEPT ![w].pc = AfterStage(w), ![w].ordinal = @ + 1]
  /\ UNCHANGED <<authorityVars, late, faults, clientVars>>

Complete(w) ==
  /\ worker[w].pc = "complete"
  /\ Accepts("complete", worker[w].run, worker[w].token)
  /\ Execute("complete", worker[w].run, worker[w].ordinal)
  /\ worker' = [worker EXCEPT ![w] = IdleWorker]
  /\ UNCHANGED <<authorityVars, late, faults, clientVars>>

\* A call is rejected: the worker goes to its exception handler.
Rejected(w) ==
  /\ worker[w].pc \in {"read", "stage", "complete"}
  /\ ~Accepts(worker[w].pc, worker[w].run, worker[w].token)
  /\ worker' = [worker EXCEPT ![w].pc = "abort"]
  /\ UNCHANGED <<authorityVars, memoirVars, late, faults, clientVars>>

\* Yielding and aborting both release; a rejected release changes nothing
\* and, on abort, is swallowed.
Release(w) ==
  /\ worker[w].pc \in {"yield", "abort"}
  /\ IF Accepts("release", worker[w].run, worker[w].token)
     THEN Execute("release", worker[w].run, worker[w].ordinal)
     ELSE UNCHANGED memoirVars
  /\ worker' = [worker EXCEPT ![w] = IdleWorker]
  /\ UNCHANGED <<authorityVars, late, faults, clientVars>>

\* The request a worker is waiting on, if it changes anything.
InFlight(w) ==
  {[op |-> IF worker[w].pc \in {"yield", "abort"} THEN "release" ELSE worker[w].pc,
    run |-> worker[w].run, token |-> worker[w].token, ordinal |-> worker[w].ordinal]
     : pc \in {worker[w].pc} \ {"idle", "read"}}

\* The request may have been sent: it then executes late, once, or never.
Abandon(w) ==
  \/ late' = late
  \/ Cardinality(late) < MaxLate /\ late' = late \cup InFlight(w)

\* The 60 s timeout, a cancellation or a transport error inside the try block.
Interrupt(w) ==
  /\ worker[w].pc \in {"read", "stage", "complete"}
  /\ faults < MaxFaults
  /\ faults' = faults + 1
  /\ Abandon(w)
  /\ worker' = [worker EXCEPT ![w].pc = "abort"]
  /\ UNCHANGED <<authorityVars, memoirVars, clientVars>>

\* The process dies, or the releasing call itself fails.
Crash(w) ==
  /\ worker[w].pc # "idle"
  /\ faults < MaxFaults
  /\ faults' = faults + 1
  /\ Abandon(w)
  /\ worker' = [worker EXCEPT ![w] = IdleWorker]
  /\ UNCHANGED <<authorityVars, memoirVars, clientVars>>

\* An abandoned request reaches the database after all.
Deliver(m) ==
  /\ m \in late
  /\ late' = late \ {m}
  /\ IF Accepts(m.op, m.run, m.token)
     THEN Execute(m.op, m.run, m.ordinal)
     ELSE UNCHANGED memoirVars
  /\ UNCHANGED <<authorityVars, worker, faults, clientVars>>

-----------------------------------------------------------------------------
(* The owner's clients.                                                    *)

\* read_formal_memoir_status and story_game_eligibility: the head revisions.
ReadStatus(c) ==
  /\ view' = [view EXCEPT ![c] = [revision |-> head.revision, consent |-> head.consent,
                                  edition |-> head.edition]]
  /\ view' # view
  /\ UNCHANGED <<authorityVars, memoirVars, workerVars, opened>>

\* Mutant: a second run may start while one is unfinished.
NoUnfinishedRun_Unchecked == TRUE

NoUnfinishedRun == \A q \in Runs : run[q].state \notin {"pending", "running"}

\* begin_formal_memoir: a first request with the revision the client saw, no
\* unfinished run, every source extracted and something to plan: one chapter at
\* least, by the owner's active events.  A replay of a request returns its run
\* and changes nothing.
Begin(c, r) ==
  /\ open
  /\ run[r].state = "none"
  /\ view[c].revision = head.revision
  /\ NoUnfinishedRun
  /\ extracted
  /\ \E count \in 1..Capacity :
       run' = [run EXCEPT ![r] = [state |-> "pending", token |-> 0, fence |-> 0, live |-> FALSE,
                                  base |-> head.revision, authority |-> authority,
                                  count |-> count, evidence |-> TRUE]]
  /\ UNCHANGED <<authorityVars, staged, edition, head, consent, workerVars, clientVars>>

\* Every decision, also a withdrawal, advances the head's consent revision.
DecidedRevision(decision) == head.consent + 1

\* set_story_game_consent, compare-and-set on the consent revision.  A grant
\* needs the head's active edition; a withdrawal only needs some edition.
SetConsent(c, r, decision) ==
  /\ head.consent < MaxConsent
  /\ edition[r].exists
  /\ view[c].consent = head.consent
  /\ decision = "active" => /\ edition[r].active
                            /\ head.edition = r
                            /\ LockRun(r)
  /\ head' = [head EXCEPT !.consent = DecidedRevision(decision)]
  /\ consent' = [consent EXCEPT ![r] = [status |-> decision, policy |-> authority.policy,
                                        revision |-> DecidedRevision(decision)]]
  /\ view' = [view EXCEPT ![c].consent = DecidedRevision(decision)]
  /\ UNCHANGED <<authorityVars, run, staged, edition, workerVars, opened>>

\* read_formal_memoir_edition_chapter finds the edition before it has a lock...
OpenEdition(c, r) ==
  /\ opened[c] = NoRun
  /\ edition[r].active
  /\ opened' = [opened EXCEPT ![c] = r]
  /\ UNCHANGED <<authorityVars, memoirVars, workerVars, view>>

\* ... and then locks the run it was committed from, or is refused.
ServeChapter(c) ==
  /\ opened[c] # NoRun
  /\ LockRun(opened[c])
  /\ opened' = [opened EXCEPT ![c] = NoRun]
  /\ UNCHANGED <<authorityVars, memoirVars, workerVars, view>>

RefuseChapter(c) ==
  /\ opened[c] # NoRun
  /\ ~LockRun(opened[c])
  /\ opened' = [opened EXCEPT ![c] = NoRun]
  /\ UNCHANGED <<authorityVars, memoirVars, workerVars, view>>

-----------------------------------------------------------------------------
Environment ==
  \/ \E field \in {"policy", "content"} : ChangeProject(field)
  \/ ChangePreference
  \/ ReviewPolicy
  \/ FinishExtraction
  \/ TurnMode

Advance(w) ==
  \/ \E r \in Runs : Claim(w, r)
  \/ Read(w)
  \/ Stage(w)
  \/ Complete(w)
  \/ Rejected(w)
  \/ Release(w)

Failure ==
  \/ \E w \in Workers : Interrupt(w) \/ Crash(w)
  \/ \E m \in late : Deliver(m)
  \/ \E r \in Runs : Lapse(r)

Owner(c) ==
  \/ ReadStatus(c)
  \/ \E r \in Runs : Begin(c, r) \/ OpenEdition(c, r)
  \/ \E r \in Runs, decision \in {"active", "revoked"} : SetConsent(c, r, decision)
  \/ ServeChapter(c)
  \/ RefuseChapter(c)

Next ==
  \/ Environment
  \/ \E w \in Workers : Advance(w)
  \/ Failure
  \/ \E c \in Clients : Owner(c)

Spec == Init /\ [][Next]_vars

\* The worker endpoint is called again until it answers, and time passes.
FairSpec ==
  /\ Spec
  /\ \A w \in Workers : WF_worker(Advance(w))
  /\ WF_run(\E r \in Runs : Lapse(r))

-----------------------------------------------------------------------------
(* Properties.                                                             *)

MemoirTypeOK ==
  /\ authority \in Authority
  /\ open \in BOOLEAN
  /\ extracted \in BOOLEAN
  /\ run \in [Runs -> Run]
  /\ staged \in [Runs -> SUBSET (1..Capacity)]
  /\ edition \in [Runs -> Edition]
  /\ head \in Head
  /\ consent \in [Runs -> Consent]

ActorTypeOK ==
  /\ worker \in [Workers -> Worker]
  /\ late \subseteq Request
  /\ faults \in 0..MaxFaults
  /\ view \in [Clients -> View]
  /\ opened \in [Clients -> Runs \cup {NoRun}]

TypeOK == MemoirTypeOK /\ ActorTypeOK /\ shaping \in BOOLEAN

\* An edition that can be read is the head, was committed from a run whose
\* pinned authority is still the current one, under an open privacy gate, and
\* has every planned chapter: whatever a slow worker, a late request or a
\* concurrent correction did in between.
ActiveEditionIsCurrent ==
  \A r \in Runs : edition[r].active =>
    /\ head.edition = r
    /\ open
    /\ run[r].state = "completed"
    /\ run[r].authority = authority
    /\ staged[r] = Ordinals(r)
    /\ run[r].evidence

\* "Retain metadata hashes, never stale prose" (invalidate_formal_memoir):
\* once a run is stale no chapter and no quote of it exists, and no request
\* under an old token brings one back.
StaleRunsHoldNoProse ==
  \A r \in Runs : run[r].state = "stale" => staged[r] = {} /\ ~run[r].evidence

\* At most one run is unfinished; it is based on the head's revision and on
\* the current authority, under an open gate: a commit by a lease holder meets
\* neither FORMAL_REVISION_CHANGED nor FORMAL_AUTHORITY_STALE.
OneUnfinishedRun ==
  \A r \in Runs : run[r].state \in {"pending", "running"} =>
    /\ run[r].base = head.revision
    /\ run[r].authority = authority
    /\ open
    /\ \A q \in Runs \ {r} : run[q].state \notin {"pending", "running"}

\* A worker that still holds its lease when it reaches completion has every
\* chapter staged, by itself or by earlier holders: its cursor, computed at
\* the claim, never skips a chapter (FORMAL_COVERAGE_INCOMPLETE cannot occur).
HolderCanComplete ==
  \A w \in Workers :
    worker[w].pc = "complete" /\ Holds(worker[w].run, worker[w].token)
      => Completable(worker[w].run)

\* A lease holder's completion is refused for nothing but its lease: neither
\* the head, the authority nor the coverage can have moved under it.
RunsCanComplete == OneUnfinishedRun /\ HolderCanComplete

\* A consent row that is in force: not superseded by any later decision or
\* edition, and given under the current policy.
ConsentInForce(r) ==
  /\ consent[r].status = "active"
  /\ consent[r].revision = head.consent
  /\ consent[r].policy = authority.policy

\* What the owner's decisions and the edition allow: story_game_eligibility but
\* for the mode of the conversation.
Permitted(r) ==
  /\ head.edition = r
  /\ edition[r].active
  /\ LockRun(r)
  /\ ConsentInForce(r)

\* story_game_eligibility: authority_eligible, for the head's edition.
Eligible(r) == Permitted(r) /\ shaping

\* A consent in force is about the head's edition: completing a new edition
\* voids the consent given to the one before.
ConsentFollowsHead == \A r \in Runs : ConsentInForce(r) => head.edition = r

\* What the database says of editions is true, at every moment: what can be read
\* is complete and current, of what is stale no prose is left, and the consent
\* that counts is about the edition that is shown.
EditionsAreTrue == ActiveEditionIsCurrent /\ StaleRunsHoldNoProse /\ ConsentFollowsHead

Granted(r) == consent'[r].status = "active" /\ consent' # consent

OnlyAGrantPermits ==
  \A r \in Runs :
    /\ ~Permitted(r) /\ Permitted(r)' => Granted(r)
    /\ ~Eligible(r) /\ Eligible(r)' =>
         Granted(r) \/ (Permitted(r) /\ UNCHANGED <<authority, memoirVars>>)

ServesOnlyActiveEdition ==
  \A c \in Clients : ServeChapter(c) => edition[opened[c]].active

\* Adaptation of an edition is permitted only by a decision to grant it, never
\* because some revision, policy or edition moved back into place; the edition
\* becomes eligible by that decision, or when the conversation turns to shape
\* under a grant that was in force already and nothing else moves; and a chapter
\* is served only from the edition that is active when it is read, though the
\* edition was looked up before the lock.
UseFollowsAuthority == [][OnlyAGrantPermits /\ ServesOnlyActiveEdition]_vars

\* Publication as the owner sees it (MemoirPublication).
Publication == INSTANCE MemoirPublication WITH
  basis <- authority,
  asked <- [r \in Runs |-> [asked |-> run[r].state # "none",
                            done |-> run[r].state \in {"completed", "stale"}]],
  revision <- head.revision,
  current <- IF head.edition \in Runs /\ edition[head.edition].active
             THEN head.edition ELSE NoRun

ImplementsPublication == Publication!Spec

\* A run that was begun finishes or is made stale, and no other takes its place
\* before: the token a dead worker left is replaced in the end.
RunsSettle == ~NoUnfinishedRun ~> NoUnfinishedRun
=============================================================================
