------------------------- MODULE FormalMemoirProofs -------------------------
(***************************************************************************)
(* Proofs about FormalMemoir for every number of runs, workers, clients    *)
(* and chapters.  The inductive invariant adds to the properties what the  *)
(* algorithm relies on silently: staged chapters form a prefix of the      *)
(* plan, a fence only moves past the tokens already handed out, and the    *)
(* cursor of whoever may still hold the lease is consistent with the       *)
(* staged prefix.                                                          *)
(***************************************************************************)
EXTENDS FormalMemoir, TLAPS

\* The staged chapters of a run are the first ones of its plan.
StagedPrefix == \A r \in Runs : \E k \in 0..run[r].count : staged[r] = 1..k

EvidenceKept ==
  \A r \in Runs : run[r].state \in {"pending", "running", "completed"} => run[r].evidence

RunsFenced ==
  \A r \in Runs :
    /\ run[r].token <= run[r].fence
    /\ run[r].state = "none" => run[r].fence = 0 /\ run[r].count = 0

\* Whoever acts has a token that was issued for an existing run.
Issued(r, token) == r \in Runs /\ run[r].state # "none" /\ 1 <= token /\ token <= run[r].fence

Holder(r, token) == run[r].state = "running" /\ run[r].token = token

\* The chapters before this ordinal are staged, and it is a planned one.
NextUp(r, ordinal) == ordinal \in 1..run[r].count /\ 1..(ordinal - 1) \subseteq staged[r]

Cursor(w) ==
  LET r == worker[w].run IN
  /\ worker[w].count = run[r].count
  /\ worker[w].stop <= run[r].count + 1
  /\ worker[w].pc \in {"read", "stage"} =>
       NextUp(r, worker[w].ordinal) /\ worker[w].ordinal < worker[w].stop
  /\ worker[w].pc = "complete" => staged[r] = Ordinals(r)

WorkerOK(w) ==
  worker[w].pc # "idle" =>
    /\ Issued(worker[w].run, worker[w].token)
    /\ Holder(worker[w].run, worker[w].token) => Cursor(w)

LateOK(m) ==
  /\ Issued(m.run, m.token)
  /\ m.op = "stage" /\ Holder(m.run, m.token) => NextUp(m.run, m.ordinal)

DatabaseInv ==
  /\ MemoirTypeOK
  /\ StagedPrefix
  /\ EvidenceKept
  /\ RunsFenced
  /\ ActiveEditionIsCurrent
  /\ StaleRunsHoldNoProse
  /\ OneUnfinishedRun

ActorInv ==
  /\ ActorTypeOK
  /\ \A w \in Workers : WorkerOK(w)
  /\ \A m \in late : LateOK(m)

IInv == DatabaseInv /\ ActorInv

\* What every step does to a run that exists: its plan stays, its fence never
\* goes back, nobody becomes holder with an old token, and while there is a
\* holder its staged chapters only grow.
Advances ==
  \A r \in Runs : run[r].state # "none" =>
    /\ run'[r].state # "none"
    /\ run'[r].count = run[r].count
    /\ run[r].fence <= run'[r].fence
    /\ \A token \in 1..run[r].fence : Holder(r, token)' => Holder(r, token) /\ staged[r] \subseteq staged'[r]

-----------------------------------------------------------------------------
(* next_ordinal of a staged prefix is the chapter after it.                *)
LEMMA NextOrdinalOfPrefix ==
  ASSUME NEW r \in Runs, MemoirTypeOK, StagedPrefix
  PROVE  /\ NextOrdinal(r) \in 1..run[r].count + 1
         /\ staged[r] = 1..(NextOrdinal(r) - 1)
<1>1. PICK k \in 0..run[r].count : staged[r] = 1..k
  BY DEF StagedPrefix
<1>2. run[r].count \in Nat
  BY CapacityAssumption DEF MemoirTypeOK, Run
<1> DEFINE P(n) == n \notin staged[r] /\ \A m \in 1..n - 1 : m \in staged[r]
<1>3. k + 1 \in 1..run[r].count + 1 /\ P(k + 1)
  BY <1>1, <1>2
<1>4. \A n \in 1..run[r].count + 1 : P(n) => n = k + 1
  <2>1. SUFFICES ASSUME NEW n \in 1..run[r].count + 1, P(n), n # k + 1 PROVE FALSE
    OBVIOUS
  <2>2. CASE n < k + 1
    BY <1>1, <1>2, <2>1, <2>2
  <2>3. CASE n > k + 1
    <3>1. k + 1 \in 1..n - 1
      BY <1>2, <2>3
    <3>2. k + 1 \in staged[r]
      BY <2>1, <3>1
    <3> QED BY <1>1, <1>2, <3>2
  <2> QED BY <1>2, <2>1, <2>2, <2>3
<1>5. NextOrdinal(r) = CHOOSE n \in 1..run[r].count + 1 : P(n)
  BY DEF NextOrdinal
<1>6. NextOrdinal(r) \in 1..run[r].count + 1 /\ P(NextOrdinal(r))
  BY <1>3, <1>5
<1>7. NextOrdinal(r) = k + 1
  BY <1>4, <1>6
<1> QED BY <1>1, <1>2, <1>6, <1>7

(* The initial states.                                                     *)
LEMMA InitIInv == Init => IInv
<1> SUFFICES ASSUME Init PROVE IInv OBVIOUS
<1> USE RunsAssumption, CapacityAssumption, BoundsAssumption DEF Init
<1>1. MemoirTypeOK /\ ActorTypeOK
  BY DEF MemoirTypeOK, ActorTypeOK, Authority, NoAuthority, Run, Edition, Head, Consent, Worker,
         Request, IdleWorker, View
<1>2. StagedPrefix
  <2>1. SUFFICES ASSUME NEW r \in Runs PROVE staged[r] = 1..0 /\ 0 \in 0..run[r].count
    BY DEF StagedPrefix
  <2> QED OBVIOUS
<1>3. EvidenceKept /\ RunsFenced /\ ActiveEditionIsCurrent /\ StaleRunsHoldNoProse /\ OneUnfinishedRun
  BY DEF EvidenceKept, RunsFenced, ActiveEditionIsCurrent, StaleRunsHoldNoProse, OneUnfinishedRun
<1>4. (\A w \in Workers : WorkerOK(w)) /\ (\A m \in late : LateOK(m))
  BY DEF WorkerOK, LateOK, IdleWorker
<1> QED BY <1>1, <1>2, <1>3, <1>4 DEF IInv, DatabaseInv, ActorInv

-----------------------------------------------------------------------------
(* Actors that did not move keep their part of the invariant.              *)
LEMMA UntouchedWorker ==
  ASSUME IInv, Advances, MemoirTypeOK', StagedPrefix',
         NEW w \in Workers, worker'[w] = worker[w]
  PROVE  WorkerOK(w)'
<1> DEFINE r == worker[w].run
<1>1. SUFFICES ASSUME worker[w].pc # "idle"
      PROVE /\ Issued(r, worker[w].token)'
            /\ Holder(r, worker[w].token)' => Cursor(w)'
  BY DEF WorkerOK
<1>2. Issued(r, worker[w].token) /\ r \in Runs /\ worker[w].token \in Nat
  BY <1>1 DEF IInv, ActorInv, WorkerOK, Issued, ActorTypeOK, Worker
<1>3. run[r] \in Run /\ run'[r] \in Run
  BY <1>2 DEF IInv, DatabaseInv, MemoirTypeOK
<1>4. Issued(r, worker[w].token)'
  BY <1>2, <1>3 DEF Issued, Advances, Run
<1>5. ASSUME Holder(r, worker[w].token)' PROVE Cursor(w)'
  <2>1. worker[w].token \in 1..run[r].fence
    BY <1>2, <1>3 DEF Issued, Run
  <2>2. /\ Holder(r, worker[w].token)
        /\ staged[r] \subseteq staged'[r]
        /\ run'[r].count = run[r].count
    BY <1>2, <1>5, <2>1 DEF Advances, Issued
  <2>3. Cursor(w)
    BY <1>1, <2>2 DEF IInv, ActorInv, WorkerOK
  <2>4. staged'[r] \subseteq 1..run'[r].count
    <3>1. PICK k \in 0..run'[r].count : staged'[r] = 1..k
      BY <1>2 DEF StagedPrefix
    <3> QED BY <1>3, <3>1, CapacityAssumption DEF Run
  <2> QED BY <2>2, <2>3, <2>4 DEF Cursor, NextUp, Ordinals
<1> QED BY <1>4, <1>5

LEMMA UntouchedLate ==
  ASSUME IInv, Advances, MemoirTypeOK', NEW m \in late
  PROVE  LateOK(m)'
<1>1. m \in Request /\ Issued(m.run, m.token)
  BY DEF IInv, ActorInv, ActorTypeOK, LateOK
<1>2. run[m.run] \in Run /\ run'[m.run] \in Run /\ m.token \in Nat /\ m.run \in Runs
  BY <1>1 DEF IInv, DatabaseInv, MemoirTypeOK, Request
<1>3. Issued(m.run, m.token)'
  BY <1>1, <1>2 DEF Issued, Advances, Run
<1>4. ASSUME m.op = "stage", Holder(m.run, m.token)' PROVE NextUp(m.run, m.ordinal)'
  <2>1. m.token \in 1..run[m.run].fence
    BY <1>1, <1>2 DEF Issued, Run
  <2>2. Holder(m.run, m.token) /\ staged[m.run] \subseteq staged'[m.run] /\ run'[m.run].count = run[m.run].count
    BY <1>1, <1>2, <1>4, <2>1 DEF Advances, Issued
  <2> QED BY <1>4, <2>2 DEF IInv, ActorInv, LateOK, NextUp
<1> QED BY <1>3, <1>4 DEF LateOK

-----------------------------------------------------------------------------
(* The effects of the database functions. *)
(* stage_formal_memoir_chapter extends the prefix or replays a chapter of it. *)
LEMMA StageKeeps ==
  ASSUME IInv, NEW r \in Runs, NEW ordinal, NextUp(r, ordinal), run[r].state = "running",
         StageEffect(r, ordinal), UNCHANGED authorityVars
  PROVE  DatabaseInv' /\ Advances
<1> USE CapacityAssumption DEF IInv, DatabaseInv
<1>1. MemoirTypeOK'
  BY DEF MemoirTypeOK, StageEffect, authorityVars, MemoirTypeOK, Run, NextUp
<1>2. StagedPrefix'
  <2>1. SUFFICES ASSUME NEW q \in Runs PROVE \E k \in 0..run'[q].count : staged'[q] = 1..k
    BY DEF StagedPrefix
  <2>2. PICK k \in 0..run[q].count : staged[q] = 1..k
    BY DEF StagedPrefix
  <2>3. run[q].count \in Nat
    BY DEF MemoirTypeOK, Run
  <2>4. CASE q # r \/ ordinal <= k
    <3>1. staged'[q] = staged[q]
      <4>1. CASE q # r
        BY <4>1 DEF StageEffect, MemoirTypeOK
      <4>2. CASE q = r /\ ordinal <= k
        <5>1. ordinal \in staged[q]
          BY <2>2, <2>3, <4>2 DEF NextUp
        <5> QED BY <4>2, <5>1 DEF StageEffect, MemoirTypeOK
      <4> QED BY <2>4, <4>1, <4>2
    <3> QED BY <2>2, <3>1 DEF StageEffect
  <2>5. CASE q = r /\ ordinal > k
    <3>1. ordinal = k + 1
      BY <2>2, <2>3, <2>5 DEF NextUp
    <3>2. staged'[q] = 1..(k + 1)
      BY <2>2, <2>3, <2>5, <3>1 DEF StageEffect, MemoirTypeOK, NextUp
    <3> QED BY <2>3, <2>5, <3>1, <3>2 DEF StageEffect, NextUp
  <2> QED BY <2>2, <2>3, <2>4, <2>5 DEF NextUp
<1>3. EvidenceKept' /\ RunsFenced'
  BY DEF EvidenceKept, RunsFenced, StageEffect, authorityVars, MemoirTypeOK, Run, NextUp
<1>4. ActiveEditionIsCurrent'
  BY DEF ActiveEditionIsCurrent, EvidenceKept, Ordinals, StageEffect, authorityVars, MemoirTypeOK, Run, NextUp
<1>5. StaleRunsHoldNoProse'
  BY DEF StaleRunsHoldNoProse, StageEffect, authorityVars, MemoirTypeOK, Run, NextUp
<1>6. OneUnfinishedRun'
  BY DEF OneUnfinishedRun, StageEffect, authorityVars, MemoirTypeOK, Run, NextUp
<1>7. Advances
  BY DEF Advances, Holder, RunsFenced, StageEffect, authorityVars, MemoirTypeOK, Run, NextUp
<1> QED BY <1>1, <1>2, <1>3, <1>4, <1>5, <1>6, <1>7 DEF DatabaseInv

(* complete_formal_memoir publishes a complete run and retires every other edition. *)
LEMMA CompleteKeeps ==
  ASSUME IInv, NEW r \in Runs, NEW token, Accepts("complete", r, token),
         CompleteEffect(r), UNCHANGED authorityVars
  PROVE  DatabaseInv' /\ Advances
<1> USE CapacityAssumption DEF IInv, DatabaseInv
<1>1. /\ run[r].state = "running"
      /\ run[r].authority = authority
      /\ open
      /\ staged[r] = Ordinals(r)
      /\ run[r].base = head.revision
  BY DEF Accepts, Holds, LockRun, Completable
<1>2. /\ run' = [run EXCEPT ![r].state = "completed", ![r].live = FALSE]
      /\ \A q \in Runs : q # r => run'[q] = run[q]
      /\ run'[r] = [run[r] EXCEPT !.state = "completed", !.live = FALSE]
      /\ UNCHANGED <<staged, consent, authority, open, extracted>>
  BY DEF CompleteEffect, MemoirTypeOK, authorityVars
<1>3. /\ \A q \in Runs : q # r => edition'[q] = [edition[q] EXCEPT !.active = FALSE]
      /\ edition'[r] = [exists |-> TRUE, active |-> TRUE, revision |-> head.revision + 1]
      /\ head' = [revision |-> head.revision + 1, edition |-> r, consent |-> head.consent + 1]
  BY DEF CompleteEffect, MemoirTypeOK, Retired, ConsentAfterEdition
<1>4. MemoirTypeOK'
  <2>1. run' \in [Runs -> Run]
    <3>1. run[r] \in Run /\ run \in [Runs -> Run]
      BY DEF MemoirTypeOK
    <3>2. [run[r] EXCEPT !.state = "completed"] \in Run
      BY <3>1 DEF Run
    <3>3. [[run[r] EXCEPT !.state = "completed"] EXCEPT !.live = FALSE] \in Run
      BY <3>2 DEF Run
    <3> QED BY <1>2, <3>1, <3>3
  <2>2. edition' \in [Runs -> Edition]
    <3>1. ASSUME NEW q \in Runs PROVE Retired(q) \in Edition
      <4>1. edition[q] \in Edition
        BY DEF MemoirTypeOK
      <4> QED BY <4>1 DEF Retired, Edition
    <3>2. [exists |-> TRUE, active |-> TRUE, revision |-> head.revision + 1] \in Edition
      BY DEF MemoirTypeOK, Head, Edition
    <3> QED BY <3>1, <3>2 DEF CompleteEffect
  <2>3. head' \in Head
    BY <1>3 DEF MemoirTypeOK, Head
  <2> QED BY <1>2, <2>1, <2>2, <2>3 DEF MemoirTypeOK
<1>5. \A q \in Runs : run'[q].count = run[q].count /\ run'[q].evidence = run[q].evidence
                      /\ run'[q].fence = run[q].fence /\ run'[q].token = run[q].token
                      /\ run'[q].base = run[q].base /\ run'[q].authority = run[q].authority
                      /\ run'[q].state = IF q = r THEN "completed" ELSE run[q].state
  BY <1>2 DEF MemoirTypeOK, Run
<1>6. StagedPrefix'
  BY <1>2, <1>5 DEF StagedPrefix
<1>7. EvidenceKept' /\ RunsFenced'
  BY <1>1, <1>5 DEF EvidenceKept, RunsFenced
<1>8. ActiveEditionIsCurrent'
  <2>1. \A q \in Runs : edition'[q].active => q = r
    BY <1>3 DEF MemoirTypeOK, Edition
  <2>2. /\ head'.edition = r
        /\ run'[r].state = "completed"
        /\ run'[r].authority = authority'
        /\ staged'[r] = 1..run'[r].count
    BY <1>1, <1>2, <1>3, <1>5 DEF Ordinals
  <2>3. open' /\ run'[r].evidence
    BY <1>1, <1>2, <1>5 DEF EvidenceKept
  <2> QED BY <2>1, <2>2, <2>3 DEF ActiveEditionIsCurrent, Ordinals
<1>9. StaleRunsHoldNoProse'
  <2>1. ASSUME NEW q \in Runs, run'[q].state = "stale" PROVE staged'[q] = {} /\ ~run'[q].evidence
    <3>1. run[q].state = "stale"
      BY <1>5, <2>1
    <3>2. staged[q] = {} /\ ~run[q].evidence
      BY <3>1 DEF StaleRunsHoldNoProse
    <3> QED BY <1>2, <1>5, <3>2
  <2> QED BY <2>1 DEF StaleRunsHoldNoProse
<1>10. OneUnfinishedRun'
  BY <1>1, <1>5 DEF OneUnfinishedRun
<1>11. Advances
  BY <1>1, <1>2, <1>5 DEF Advances, Holder, MemoirTypeOK, Run
<1> QED BY <1>4, <1>6, <1>7, <1>8, <1>9, <1>10, <1>11

(* release_formal_memoir returns the run to the queue behind a new fence. *)
LEMMA ReleaseKeeps ==
  ASSUME IInv, NEW r \in Runs, NEW token, Accepts("release", r, token),
         ReleaseEffect(r), UNCHANGED authorityVars
  PROVE  DatabaseInv' /\ Advances
<1> USE CapacityAssumption DEF IInv, DatabaseInv
<1>1. MemoirTypeOK'
  BY DEF MemoirTypeOK, ReleaseEffect, authorityVars, MemoirTypeOK, Run, Accepts, Holds, LockRun, Issued
<1>2. StagedPrefix'
  BY DEF StagedPrefix, ReleaseEffect, authorityVars, MemoirTypeOK, Run, Accepts, Holds, LockRun, Issued
<1>3. EvidenceKept' /\ RunsFenced'
  BY DEF EvidenceKept, RunsFenced, ReleaseEffect, authorityVars, MemoirTypeOK, Run, Accepts, Holds, LockRun, Issued
<1>4. ActiveEditionIsCurrent'
  BY DEF ActiveEditionIsCurrent, EvidenceKept, Ordinals, ReleaseEffect, authorityVars, MemoirTypeOK, Run, Accepts, Holds, LockRun, Issued
<1>5. StaleRunsHoldNoProse'
  BY DEF StaleRunsHoldNoProse, ReleaseEffect, authorityVars, MemoirTypeOK, Run, Accepts, Holds, LockRun, Issued
<1>6. OneUnfinishedRun'
  BY DEF OneUnfinishedRun, ReleaseEffect, authorityVars, MemoirTypeOK, Run, Accepts, Holds, LockRun, Issued
<1>7. Advances
  BY DEF Advances, Holder, RunsFenced, ReleaseEffect, authorityVars, MemoirTypeOK, Run, Accepts, Holds, LockRun, Issued
<1> QED BY <1>1, <1>2, <1>3, <1>4, <1>5, <1>6, <1>7 DEF DatabaseInv

(* The invalidation triggers, whatever authority the writer moved to. *)
LEMMA InvalidateKeeps ==
  ASSUME IInv, Invalidate, authority' \in Authority, open' \in BOOLEAN,
         extracted' \in BOOLEAN
  PROVE  DatabaseInv' /\ Advances
<1> USE CapacityAssumption DEF IInv, DatabaseInv
<1>1. \A q \in Runs : /\ run'[q] = StaleRun(q)
                      /\ staged'[q] = {}
                      /\ edition'[q] = [edition[q] EXCEPT !.active = FALSE]
  BY DEF Invalidate, Retired, PurgedChapters
<1>2. ASSUME NEW q \in Runs
      PROVE /\ StaleRun(q) \in Run
            /\ StaleRun(q).count = run[q].count
            /\ run[q].state # "none" => StaleRun(q).state = "stale" /\ ~StaleRun(q).evidence
            /\ run[q].state = "none" => StaleRun(q) = run[q]
            /\ run[q].fence <= StaleRun(q).fence
            /\ StaleRun(q).token <= StaleRun(q).fence
  <2>1. run[q] \in Run
    BY DEF MemoirTypeOK
  <2>2. CASE run[q].state = "none"
    BY <2>1, <2>2 DEF StaleRun, Run, RunsFenced
  <2>3. CASE run[q].state = "stale"
    BY <2>1, <2>3 DEF StaleRun, Run, RunsFenced, StaleRunsHoldNoProse
  <2>4. CASE run[q].state \notin {"none", "stale"}
    BY <2>1, <2>4 DEF StaleRun, Run
  <2> QED BY <2>2, <2>3, <2>4
<1>3. MemoirTypeOK'
  <2>1. run' \in [Runs -> Run]
    BY <1>2 DEF Invalidate
  <2>2. edition' \in [Runs -> Edition]
    BY DEF MemoirTypeOK, Edition, Invalidate, Retired
  <2>3. staged' \in [Runs -> SUBSET (1..Capacity)]
    BY DEF Invalidate, PurgedChapters
  <2> QED BY <2>1, <2>2, <2>3 DEF MemoirTypeOK, Invalidate
<1>4. StagedPrefix'
  <2>1. SUFFICES ASSUME NEW q \in Runs PROVE staged'[q] = 1..0 /\ 0 \in 0..run'[q].count
    BY DEF StagedPrefix
  <2>2. run'[q].count \in Nat
    BY <1>3 DEF MemoirTypeOK, Run
  <2>3. 1..0 = {}
    OBVIOUS
  <2>4. 0 \in 0..run'[q].count
    BY <2>2
  <2> QED BY <1>1, <2>3, <2>4
<1>5. EvidenceKept' /\ RunsFenced'
  <2>1. \A q \in Runs : run'[q].state \in {"none", "stale"}
    <3>1. SUFFICES ASSUME NEW q \in Runs PROVE run'[q].state \in {"none", "stale"}
      OBVIOUS
    <3>2. run'[q] = StaleRun(q)
      BY <1>1
    <3> QED BY <1>2, <3>2
  <2>2. \A q \in Runs : run'[q].state = "none" => run'[q] = run[q]
    BY <1>1, <1>2
  <2>3. \A q \in Runs : run'[q].token <= run'[q].fence
    BY <1>1, <1>2
  <2> QED BY <2>1, <2>2, <2>3 DEF RunsFenced, EvidenceKept
<1>6. ActiveEditionIsCurrent'
  <2>1. \A q \in Runs : ~edition'[q].active
    BY <1>1 DEF MemoirTypeOK, Edition
  <2> QED BY <2>1 DEF ActiveEditionIsCurrent
<1>7. StaleRunsHoldNoProse'
  BY <1>1, <1>2 DEF StaleRunsHoldNoProse
<1>8. OneUnfinishedRun'
  BY <1>1, <1>2 DEF OneUnfinishedRun
<1>9. Advances
  BY <1>1, <1>2 DEF Advances, Holder
<1> QED BY <1>3, <1>4, <1>5, <1>6, <1>7, <1>8, <1>9

(* A step that touches no row of the memoir.                               *)
LEMMA QuietKeeps ==
  ASSUME IInv, UNCHANGED <<authority, memoirVars>>,
         open' \in BOOLEAN, open => open', extracted' \in BOOLEAN
  PROVE  DatabaseInv' /\ Advances
<1> USE DEF IInv, DatabaseInv, memoirVars
<1>1. MemoirTypeOK'
  BY DEF MemoirTypeOK
<1>2. StagedPrefix' /\ RunsFenced' /\ EvidenceKept'
  BY DEF StagedPrefix, RunsFenced, EvidenceKept
<1>3. StaleRunsHoldNoProse'
  BY DEF StaleRunsHoldNoProse
<1>4. ActiveEditionIsCurrent'
  BY DEF ActiveEditionIsCurrent, Ordinals
<1>5. OneUnfinishedRun'
  BY DEF OneUnfinishedRun
<1>6. Advances
  BY DEF Advances, Holder, MemoirTypeOK, Run
<1> QED BY <1>1, <1>2, <1>3, <1>4, <1>5, <1>6

(* A consent decision moves only the consent revision of the head.         *)
LEMMA ConsentKeeps ==
  ASSUME IInv, NEW c \in Clients, NEW r \in Runs, NEW decision \in {"active", "revoked"},
         SetConsent(c, r, decision)
  PROVE  DatabaseInv' /\ Advances
<1> USE DEF IInv, DatabaseInv, authorityVars, SetConsent, DecidedRevision
<1>1. head' \in Head /\ head'.edition = head.edition /\ head'.revision = head.revision
  BY DEF MemoirTypeOK, Head
<1>2. consent' \in [Runs -> Consent]
  <2>1. [status |-> decision, policy |-> authority.policy, revision |-> head.consent + 1] \in Consent
    BY DEF MemoirTypeOK, Head, Authority, Consent
  <2> QED BY <2>1 DEF MemoirTypeOK
<1>3. MemoirTypeOK'
  BY <1>1, <1>2 DEF MemoirTypeOK
<1>4. StagedPrefix' /\ RunsFenced' /\ EvidenceKept'
  BY DEF StagedPrefix, RunsFenced, EvidenceKept
<1>5. StaleRunsHoldNoProse'
  BY DEF StaleRunsHoldNoProse
<1>6. ActiveEditionIsCurrent'
  BY <1>1 DEF ActiveEditionIsCurrent, Ordinals
<1>7. OneUnfinishedRun'
  BY <1>1 DEF OneUnfinishedRun
<1>8. Advances
  BY DEF Advances, Holder, MemoirTypeOK, Run
<1> QED BY <1>3, <1>4, <1>5, <1>6, <1>7, <1>8

(* A lease that runs out.                                                  *)
LEMMA LapseKeeps ==
  ASSUME IInv, NEW r \in Runs, Lapse(r)
  PROVE  DatabaseInv' /\ Advances
<1> USE DEF IInv, DatabaseInv, authorityVars
<1>1. /\ run' = [run EXCEPT ![r].live = FALSE]
      /\ UNCHANGED <<authority, open, extracted, staged, edition, head, consent>>
  BY DEF Lapse
<1>2. run \in [Runs -> Run] /\ run[r] \in Run
  BY DEF MemoirTypeOK
<1>3. [run[r] EXCEPT !.live = FALSE] \in Run
  BY <1>2 DEF Run
<1>4. \A q \in Runs : /\ run'[q].state = run[q].state
                      /\ run'[q].token = run[q].token
                      /\ run'[q].fence = run[q].fence
                      /\ run'[q].base = run[q].base
                      /\ run'[q].authority = run[q].authority
                      /\ run'[q].count = run[q].count
                      /\ run'[q].evidence = run[q].evidence
  BY <1>1, <1>2 DEF Run
<1>5. MemoirTypeOK'
  BY <1>1, <1>2, <1>3 DEF MemoirTypeOK
<1>6. StagedPrefix'
  BY <1>1, <1>4 DEF StagedPrefix
<1>7. RunsFenced' /\ EvidenceKept'
  BY <1>4 DEF RunsFenced, EvidenceKept
<1>8. StaleRunsHoldNoProse'
  BY <1>1, <1>4 DEF StaleRunsHoldNoProse
<1>9. ActiveEditionIsCurrent'
  BY <1>1, <1>4 DEF ActiveEditionIsCurrent, Ordinals
<1>10. OneUnfinishedRun'
  BY <1>1, <1>4 DEF OneUnfinishedRun
<1>11. Advances
  BY <1>1, <1>4 DEF Advances, Holder, MemoirTypeOK, Run
<1> QED BY <1>5, <1>6, <1>7, <1>8, <1>9, <1>10, <1>11

(* A new run.                                                              *)
LEMMA BeginKeeps ==
  ASSUME IInv, NEW c \in Clients, NEW r \in Runs, Begin(c, r)
  PROVE  DatabaseInv' /\ Advances
<1> USE DEF IInv, DatabaseInv, authorityVars
<1> PICK count \in 1..Capacity :
      run' = [run EXCEPT ![r] = [state |-> "pending", token |-> 0, fence |-> 0, live |-> FALSE,
                                 base |-> head.revision, authority |-> authority,
                                 count |-> count, evidence |-> TRUE]]
  BY DEF Begin
<1> DEFINE fresh == [state |-> "pending", token |-> 0, fence |-> 0, live |-> FALSE,
                     base |-> head.revision, authority |-> authority,
                     count |-> count, evidence |-> TRUE]
<1>1. /\ run' = [run EXCEPT ![r] = fresh]
      /\ UNCHANGED <<authority, open, extracted, staged, edition, head, consent>>
  BY DEF Begin
<1>2. fresh \in Run
  BY DEF MemoirTypeOK, Run, Head
<1>3. run'[r] = fresh /\ \A q \in Runs : q # r => run'[q] = run[q]
  BY <1>1 DEF MemoirTypeOK
<1>4. run[r].state = "none" /\ staged[r] = {} /\ ~edition[r].active
  <2>1. run[r].state = "none"
    BY DEF Begin
  <2>2. PICK k \in 0..run[r].count : staged[r] = 1..k
    BY DEF StagedPrefix
  <2>3. run[r].count = 0
    BY <2>1 DEF RunsFenced
  <2>4. staged[r] = {}
    BY <2>2, <2>3
  <2>5. ~edition[r].active
    BY <2>1 DEF ActiveEditionIsCurrent
  <2> QED BY <2>1, <2>4, <2>5
<1>5. MemoirTypeOK'
  BY <1>1, <1>2 DEF MemoirTypeOK
<1>6. StagedPrefix'
  <2>1. 0 \in 0..fresh.count /\ {} = 1..0
    BY DEF MemoirTypeOK
  <2>2. \E k \in 0..run'[r].count : staged'[r] = 1..k
    BY <1>1, <1>3, <1>4, <2>1
  <2> QED BY <1>1, <1>3, <2>2 DEF StagedPrefix
<1>7. RunsFenced'
  BY <1>3 DEF RunsFenced
<1>8. EvidenceKept'
  BY <1>3 DEF EvidenceKept
<1>9. StaleRunsHoldNoProse'
  BY <1>1, <1>3 DEF StaleRunsHoldNoProse
<1>10. ActiveEditionIsCurrent'
  BY <1>1, <1>3, <1>4 DEF ActiveEditionIsCurrent, Ordinals
<1>11. OneUnfinishedRun'
  BY <1>1, <1>3 DEF OneUnfinishedRun, Begin, NoUnfinishedRun
<1>12. Advances
  BY <1>1, <1>3, <1>4 DEF Advances, Holder, MemoirTypeOK, Run
<1> QED BY <1>5, <1>6, <1>7, <1>8, <1>9, <1>10, <1>11, <1>12

(* A claim, whose token is new: no earlier caller becomes a holder.        *)
LEMMA ClaimKeeps ==
  ASSUME IInv, NEW w \in Workers, NEW r \in Runs, Claim(w, r)
  PROVE  DatabaseInv' /\ Advances
<1> USE DEF IInv, DatabaseInv, authorityVars
<1>1. /\ run' = [run EXCEPT ![r].state = "running", ![r].token = run[r].fence + 1,
                            ![r].fence = @ + 1, ![r].live = TRUE]
      /\ UNCHANGED <<authority, open, extracted, staged, edition, head, consent>>
      /\ run[r].state \in {"pending", "running"}
  BY DEF Claim, LockRun
<1>2. run \in [Runs -> Run] /\ run[r] \in Run
  BY DEF MemoirTypeOK
<1>3. /\ \A q \in Runs : q # r => run'[q] = run[q]
      /\ run'[r].state = "running"
      /\ run'[r].token = run[r].fence + 1
      /\ run'[r].fence = run[r].fence + 1
      /\ run'[r].base = run[r].base
      /\ run'[r].authority = run[r].authority
      /\ run'[r].count = run[r].count
      /\ run'[r].evidence = run[r].evidence
  BY <1>1, <1>2 DEF Run
<1>4. MemoirTypeOK'
  <2> DEFINE next == run[r].fence + 1
  <2>1. next \in Nat
    BY <1>2 DEF Run
  <2> HIDE DEF next
  <2>2. [run[r] EXCEPT !.state = "running"] \in Run
    BY <1>2 DEF Run
  <2>3. [[run[r] EXCEPT !.state = "running"] EXCEPT !.token = next] \in Run
    BY <2>1, <2>2 DEF Run
  <2>4. [[[run[r] EXCEPT !.state = "running"] EXCEPT !.token = next] EXCEPT !.fence = next] \in Run
    BY <2>1, <2>3 DEF Run
  <2>5. [[[[run[r] EXCEPT !.state = "running"] EXCEPT !.token = next]
            EXCEPT !.fence = next] EXCEPT !.live = TRUE] \in Run
    BY <2>4 DEF Run
  <2>6. run' \in [Runs -> Run]
    BY <1>1, <1>2, <2>5 DEF next
  <2> QED BY <1>1, <2>6 DEF MemoirTypeOK
<1>5. StagedPrefix'
  BY <1>1, <1>3 DEF StagedPrefix
<1>6. RunsFenced' /\ EvidenceKept'
  <2>1. run[r].fence \in Nat
    BY <1>2 DEF Run
  <2>2. RunsFenced'
    <3>1. SUFFICES ASSUME NEW q \in Runs
          PROVE /\ run'[q].token <= run'[q].fence
                /\ run'[q].state = "none" => run'[q].fence = 0 /\ run'[q].count = 0
      BY DEF RunsFenced
    <3>2. CASE q = r
      BY <1>3, <2>1, <3>2
    <3>3. CASE q # r
      BY <1>3, <3>3 DEF RunsFenced
    <3> QED BY <3>2, <3>3
  <2>3. EvidenceKept'
    BY <1>1, <1>3 DEF EvidenceKept
  <2> QED BY <2>2, <2>3
<1>7. StaleRunsHoldNoProse'
  BY <1>1, <1>3 DEF StaleRunsHoldNoProse
<1>8. ActiveEditionIsCurrent'
  <2>1. ~edition[r].active
    BY <1>1 DEF ActiveEditionIsCurrent
  <2>2. SUFFICES ASSUME NEW q \in Runs, edition'[q].active
        PROVE /\ head'.edition = q
              /\ open'
              /\ run'[q].state = "completed"
              /\ run'[q].authority = authority'
              /\ staged'[q] = 1..run'[q].count
              /\ run'[q].evidence
    BY DEF ActiveEditionIsCurrent, Ordinals
  <2>3. edition[q].active
    BY <1>1, <2>2
  <2>4. q # r /\ run'[q] = run[q]
    BY <1>3, <2>1, <2>3
  <2>5. /\ head.edition = q /\ open /\ run[q].state = "completed" /\ run[q].authority = authority
        /\ staged[q] = 1..run[q].count /\ run[q].evidence
    BY <2>3 DEF ActiveEditionIsCurrent, Ordinals
  <2> QED BY <1>1, <2>4, <2>5
<1>9. OneUnfinishedRun'
  BY <1>1, <1>3 DEF OneUnfinishedRun
<1>10. Advances
  <2>1. run[r].fence \in Nat
    BY <1>2 DEF Run
  <2>2. \A token \in 1..run[r].fence : token # run'[r].token
    BY <1>3, <2>1
  <2>3. \A q \in Runs : run[q].fence \in Nat
    BY DEF MemoirTypeOK, Run
  <2>4. run[r].fence <= run'[r].fence
    BY <1>3, <2>1
  <2>5. \A token \in 1..run[r].fence : ~Holder(r, token)'
    BY <1>3, <2>2 DEF Holder
  <2>6. \A q \in Runs \ {r} : \A token \in 1..run[q].fence : Holder(q, token)' => Holder(q, token)
    BY <1>3 DEF Holder
  <2>7. UNCHANGED staged
    BY <1>1
  <2>8. SUFFICES ASSUME NEW q \in Runs, run[q].state # "none"
        PROVE /\ run'[q].state # "none" /\ run'[q].count = run[q].count
              /\ run[q].fence <= run'[q].fence
              /\ \A token \in 1..run[q].fence : Holder(q, token)' => Holder(q, token) /\ staged[q] \subseteq staged'[q]
    BY DEF Advances
  <2>9. CASE q = r
    BY <1>3, <2>4, <2>5, <2>7, <2>9
  <2>10. CASE q # r
    BY <1>3, <2>3, <2>6, <2>7, <2>8, <2>10
  <2> QED BY <2>9, <2>10
<1> QED BY <1>4, <1>5, <1>6, <1>7, <1>8, <1>9, <1>10

(* Any request the database accepts.                                       *)
LEMMA ExecuteKeeps ==
  ASSUME IInv, NEW op, NEW r \in Runs, NEW token, NEW ordinal,
         Accepts(op, r, token), op = "stage" => NextUp(r, ordinal),
         Execute(op, r, ordinal), UNCHANGED authorityVars
  PROVE  DatabaseInv' /\ Advances
<1>1. CASE op = "stage" /\ StageEffect(r, ordinal)
  <2>1. run[r].state = "running"
    BY DEF Accepts, Holds
  <2> QED BY <1>1, <2>1, StageKeeps
<1>2. CASE op = "complete" /\ CompleteEffect(r)
  BY <1>2, CompleteKeeps
<1>3. CASE op = "release" /\ ReleaseEffect(r)
  BY <1>3, ReleaseKeeps
<1> QED BY <1>1, <1>2, <1>3 DEF Execute

-----------------------------------------------------------------------------
(* Every step keeps the invariant.                                         *)

(* Steps in which no worker and no abandoned request takes part.           *)
LEMMA BystandersKeep ==
  ASSUME IInv, DatabaseInv', Advances, ActorTypeOK', UNCHANGED worker, late' \subseteq late
  PROVE  IInv'
<1>1. ASSUME NEW w \in Workers PROVE WorkerOK(w)'
  BY UntouchedWorker DEF DatabaseInv
<1>2. ASSUME NEW m \in late' PROVE LateOK(m)'
  BY UntouchedLate DEF DatabaseInv
<1> QED BY <1>1, <1>2 DEF IInv, ActorInv

(* Steps of one worker, the others keeping still.                          *)
LEMMA WorkerStepKeeps ==
  ASSUME IInv, DatabaseInv', Advances, ActorTypeOK', NEW w \in Workers, WorkerOK(w)',
         \A u \in Workers : u # w => worker'[u] = worker[u], late' \subseteq late
  PROVE  IInv'
<1>1. ASSUME NEW u \in Workers PROVE WorkerOK(u)'
  <2>1. CASE u # w
    BY <2>1, UntouchedWorker DEF DatabaseInv
  <2> QED BY <2>1
<1>2. ASSUME NEW m \in late' PROVE LateOK(m)'
  BY UntouchedLate DEF DatabaseInv
<1> QED BY <1>1, <1>2 DEF IInv, ActorInv

LEMMA EnvironmentStep == IInv /\ Environment => IInv'
<1> SUFFICES ASSUME IInv, Environment PROVE IInv' OBVIOUS
<1>1. UNCHANGED <<worker, late>> /\ ActorTypeOK'
  BY DEF IInv, ActorInv, ActorTypeOK, Environment, ChangeProject, ChangePreference, ReviewPolicy,
         FinishExtraction, TurnMode, workerVars, clientVars
<1>2. ASSUME NEW field \in {"policy", "content"}, ChangeProject(field) PROVE DatabaseInv' /\ Advances
  <2>1. authority \in Authority /\ authority[field] + 1 \in 0..MaxAuthority
    BY <1>2, BoundsAssumption DEF ChangeProject, IInv, DatabaseInv, MemoirTypeOK, Authority
  <2>2. authority' \in Authority
    BY <1>2, <2>1 DEF ChangeProject, Authority
  <2>3. open' \in BOOLEAN /\ extracted' \in BOOLEAN
    BY <1>2 DEF ChangeProject, IInv, DatabaseInv, MemoirTypeOK
  <2> QED BY <1>2, <2>2, <2>3, InvalidateKeeps DEF ChangeProject
<1>3. ASSUME ChangePreference PROVE DatabaseInv' /\ Advances
  <2>1. authority \in Authority /\ authority.content + 1 \in 0..MaxAuthority
    BY <1>3, BoundsAssumption DEF ChangePreference, IInv, DatabaseInv, MemoirTypeOK, Authority
  <2>2. authority' \in Authority
    BY <1>3, <2>1 DEF ChangePreference, Authority
  <2>3. open' \in BOOLEAN /\ extracted' \in BOOLEAN
    BY <1>3 DEF ChangePreference, IInv, DatabaseInv, MemoirTypeOK
  <2>4. Invalidate
    BY <1>3 DEF ChangePreference
  <2> QED BY <2>2, <2>3, <2>4, InvalidateKeeps
<1>4. ASSUME ReviewPolicy PROVE DatabaseInv' /\ Advances
  <2>1. open' = TRUE /\ UNCHANGED <<authority, memoirVars>> /\ UNCHANGED extracted
    BY <1>4 DEF ReviewPolicy
  <2>2. extracted' \in BOOLEAN /\ open' \in BOOLEAN /\ (open => open')
    BY <2>1 DEF IInv, DatabaseInv, MemoirTypeOK
  <2> QED BY <2>1, <2>2, QuietKeeps
<1>5. ASSUME FinishExtraction PROVE DatabaseInv' /\ Advances
  <2>1. extracted' = TRUE /\ UNCHANGED <<authority, memoirVars>> /\ UNCHANGED open
    BY <1>5 DEF FinishExtraction
  <2>2. extracted' \in BOOLEAN /\ open' \in BOOLEAN /\ (open => open')
    BY <2>1 DEF IInv, DatabaseInv, MemoirTypeOK
  <2> QED BY <2>1, <2>2, QuietKeeps
<1>6. ASSUME TurnMode PROVE DatabaseInv' /\ Advances
  <2>1. UNCHANGED <<authority, memoirVars>> /\ UNCHANGED <<open, extracted>>
    BY <1>6 DEF TurnMode
  <2>2. extracted' \in BOOLEAN /\ open' \in BOOLEAN /\ (open => open')
    BY <2>1 DEF IInv, DatabaseInv, MemoirTypeOK
  <2> QED BY <2>1, <2>2, QuietKeeps
<1>7. DatabaseInv' /\ Advances
  <2>1. CASE \E field \in {"policy", "content"} : ChangeProject(field)
    BY <1>2, <2>1
  <2> QED BY <1>3, <1>4, <1>5, <1>6, <2>1 DEF Environment
<1> QED BY <1>1, <1>7, BystandersKeep

LEMMA OwnerStep == ASSUME IInv, NEW c \in Clients, Owner(c) PROVE IInv'
<1>1. UNCHANGED <<worker, late>>
  BY DEF Owner, ReadStatus, Begin, OpenEdition, SetConsent, ServeChapter, RefuseChapter, workerVars
<1>2. ActorTypeOK'
  <2>1. view' \in [Clients -> View]
    <3>1. [revision |-> head.revision, consent |-> head.consent, edition |-> head.edition] \in View
      BY DEF IInv, DatabaseInv, MemoirTypeOK, Head, View
    <3>2. CASE ReadStatus(c)
      BY <3>1, <3>2 DEF ReadStatus, IInv, ActorInv, ActorTypeOK
    <3>3. ASSUME NEW r \in Runs, NEW decision \in {"active", "revoked"}, SetConsent(c, r, decision)
          PROVE view' \in [Clients -> View]
      <4>1. [view[c] EXCEPT !.consent = head.consent + 1] \in View
        BY DEF IInv, DatabaseInv, MemoirTypeOK, Head, ActorInv, ActorTypeOK, View
      <4> QED BY <3>3, <4>1 DEF SetConsent, DecidedRevision, IInv, ActorInv, ActorTypeOK
    <3>4. CASE UNCHANGED view
      BY <3>4 DEF IInv, ActorInv, ActorTypeOK
    <3> QED BY <3>2, <3>3, <3>4 DEF Owner, Begin, OpenEdition, ServeChapter, RefuseChapter, clientVars
  <2>2. opened' \in [Clients -> Runs \cup {NoRun}]
    BY DEF Owner, ReadStatus, Begin, OpenEdition, SetConsent, ServeChapter, RefuseChapter, clientVars,
           IInv, ActorInv, ActorTypeOK
  <2>3. UNCHANGED faults
    BY DEF Owner, ReadStatus, Begin, OpenEdition, SetConsent, ServeChapter, RefuseChapter, workerVars
  <2> QED BY <1>1, <2>1, <2>2, <2>3 DEF IInv, ActorInv, ActorTypeOK
<1>3. DatabaseInv' /\ Advances
  <2>1. CASE ReadStatus(c) \/ ServeChapter(c) \/ RefuseChapter(c) \/ \E r \in Runs : OpenEdition(c, r)
    <3>1. UNCHANGED <<authorityVars, memoirVars>>
      BY <2>1 DEF ReadStatus, ServeChapter, RefuseChapter, OpenEdition
    <3> QED BY <3>1, QuietKeeps DEF authorityVars, IInv, DatabaseInv, MemoirTypeOK
  <2>2. CASE \E r \in Runs : Begin(c, r)
    BY <2>2, BeginKeeps
  <2>3. CASE \E r \in Runs, decision \in {"active", "revoked"} : SetConsent(c, r, decision)
    BY <2>3, ConsentKeeps
  <2> QED BY <2>1, <2>2, <2>3 DEF Owner
<1> QED BY <1>1, <1>2, <1>3, BystandersKeep

LEMMA LapseStep == ASSUME IInv, NEW r \in Runs, Lapse(r) PROVE IInv'
<1>1. UNCHANGED <<worker, late, view, opened>>
  BY DEF Lapse, clientVars
<1>2. faults' \in 0..MaxFaults
  BY BoundsAssumption DEF Lapse, IInv, ActorInv, ActorTypeOK
<1>3. ActorTypeOK'
  BY <1>1, <1>2 DEF IInv, ActorInv, ActorTypeOK
<1> QED BY <1>1, <1>3, LapseKeeps, BystandersKeep

(* The claimant's cursor starts behind the staged prefix.                  *)
LEMMA ClaimStep == ASSUME IInv, NEW w \in Workers, NEW r \in Runs, Claim(w, r) PROVE IInv'
<1>a. PICK start : start = NextOrdinal(r)
  OBVIOUS
<1>b. PICK count : count = run[r].count
  OBVIOUS
<1>c. PICK stop : stop = QuantumStop(start, count)
  OBVIOUS
<1>d. PICK next : next = run[r].fence + 1
  OBVIOUS
<1> DEFINE claimed == [pc |-> IF start < stop THEN "read" ELSE "complete", run |-> r, token |-> next,
                       ordinal |-> start, stop |-> stop, count |-> count]
<1>1. /\ worker' = [worker EXCEPT ![w] = claimed]
      /\ UNCHANGED <<late, faults, view, opened, staged>>
      /\ run' = [run EXCEPT ![r].state = "running", ![r].token = next,
                            ![r].fence = @ + 1, ![r].live = TRUE]
  BY <1>a, <1>b, <1>c, <1>d DEF Claim, clientVars
<1>2. DatabaseInv' /\ Advances
  BY ClaimKeeps
<1>3. run[r] \in Run /\ run \in [Runs -> Run] /\ run[r].fence \in Nat /\ count \in 0..Capacity
  BY <1>b DEF IInv, DatabaseInv, MemoirTypeOK, Run
<1>4. start \in 1..count + 1 /\ staged[r] = 1..(start - 1)
  BY <1>a, <1>b, NextOrdinalOfPrefix DEF IInv, DatabaseInv
<1>5. stop \in 1..count + 1 /\ (start < stop \/ start = count + 1)
  BY <1>c, <1>3, <1>4, QuantumAssumption, CapacityAssumption DEF QuantumStop
<1>6. next \in Nat /\ 1 <= next
  BY <1>d, <1>3
<1>7. claimed \in Worker
  BY <1>3, <1>4, <1>5, <1>6, CapacityAssumption DEF Worker
<1>8. ActorTypeOK'
  BY <1>1, <1>7 DEF IInv, ActorInv, ActorTypeOK
<1>9. run'[r].state = "running" /\ run'[r].token = next /\ run'[r].fence = next
      /\ run'[r].count = count /\ worker'[w] = claimed /\ staged'[r] = 1..(start - 1)
  BY <1>b, <1>d, <1>1, <1>3, <1>4 DEF Run, IInv, ActorInv, ActorTypeOK
<1>10. WorkerOK(w)'
  <2>1. Issued(r, next)'
    BY <1>6, <1>9 DEF Issued
  <2>2. start < stop => NextUp(r, start)'
    <3>1. SUFFICES ASSUME start < stop PROVE start \in 1..count /\ 1..(start - 1) \subseteq staged'[r]
      BY <1>9 DEF NextUp
    <3> QED BY <1>3, <1>4, <1>5, <1>9, <3>1, CapacityAssumption
  <2>3. ~(start < stop) => staged'[r] = 1..run'[r].count
    BY <1>3, <1>4, <1>5, <1>9, CapacityAssumption
  <2>4. stop <= count + 1
    BY <1>3, <1>5, CapacityAssumption
  <2>5. Cursor(w)'
    BY <1>9, <2>2, <2>3, <2>4 DEF Cursor, Ordinals
  <2> QED BY <1>9, <2>1, <2>5 DEF WorkerOK
<1>11. \A u \in Workers : u # w => worker'[u] = worker[u]
  BY <1>1 DEF IInv, ActorInv, ActorTypeOK
<1> QED BY <1>1, <1>2, <1>8, <1>10, <1>11, WorkerStepKeeps

(* A worker that only moves its program counter, without gaining a cursor. *)
LEMMA PcStep ==
  ASSUME IInv, DatabaseInv', Advances, NEW w \in Workers, worker[w].pc # "idle",
         NEW pc \in {"stage", "abort"}, pc = "stage" => worker[w].pc = "read",
         worker' = [worker EXCEPT ![w].pc = pc], ActorTypeOK'
  PROVE  WorkerOK(w)' /\ \A u \in Workers : u # w => worker'[u] = worker[u]
<1>1. worker[w] \in Worker /\ worker \in [Workers -> Worker]
  BY DEF IInv, ActorInv, ActorTypeOK
<1>2. /\ worker'[w].pc = pc
      /\ worker'[w].run = worker[w].run
      /\ worker'[w].token = worker[w].token
      /\ worker'[w].ordinal = worker[w].ordinal
      /\ worker'[w].stop = worker[w].stop
      /\ worker'[w].count = worker[w].count
  BY <1>1 DEF Worker
<1> DEFINE r == worker[w].run
<1>3. Issued(r, worker[w].token) /\ r \in Runs /\ worker[w].token \in Nat /\ run[r] \in Run /\ run'[r] \in Run
  BY <1>1 DEF IInv, ActorInv, WorkerOK, Issued, Worker, DatabaseInv, MemoirTypeOK
<1>4. Issued(r, worker[w].token)'
  BY <1>3 DEF Issued, Advances, Run
<1>5. ASSUME Holder(r, worker[w].token)'
      PROVE /\ Holder(r, worker[w].token)
            /\ staged[r] \subseteq staged'[r]
            /\ run'[r].count = run[r].count
  <2>1. worker[w].token \in 1..run[r].fence
    BY <1>3 DEF Issued, Run
  <2> QED BY <1>3, <1>5, <2>1 DEF Advances, Issued
<1>6. ASSUME Holder(r, worker[w].token)' PROVE Cursor(w)'
  BY <1>2, <1>5, <1>6 DEF Cursor, NextUp, IInv, ActorInv, WorkerOK
<1>7. WorkerOK(w)'
  BY <1>2, <1>4, <1>6 DEF WorkerOK
<1> QED BY <1>1, <1>7

(* A worker that returns to idle.                                          *)
LEMMA IdleStep ==
  ASSUME IInv, NEW w \in Workers, worker' = [worker EXCEPT ![w] = IdleWorker]
  PROVE  /\ worker' \in [Workers -> Worker]
         /\ WorkerOK(w)'
         /\ \A u \in Workers : u # w => worker'[u] = worker[u]
<1>1. IdleWorker \in Worker
  BY CapacityAssumption DEF IdleWorker, Worker
<1>2. worker \in [Workers -> Worker]
  BY DEF IInv, ActorInv, ActorTypeOK
<1>3. worker'[w].pc = "idle"
  BY <1>2 DEF IdleWorker
<1> QED BY <1>1, <1>2, <1>3 DEF WorkerOK

(* The row a waiting worker may act on.                                    *)
LEMMA WorkerFacts ==
  ASSUME IInv, NEW w \in Workers, worker[w].pc # "idle"
  PROVE  /\ worker[w] \in Worker /\ worker \in [Workers -> Worker]
         /\ worker[w].run \in Runs
         /\ Issued(worker[w].run, worker[w].token)
         /\ Holder(worker[w].run, worker[w].token) => Cursor(w)
  BY DEF IInv, ActorInv, ActorTypeOK, WorkerOK, Issued

LEMMA StageStep == ASSUME IInv, NEW w \in Workers, Stage(w) PROVE IInv'
<1>1. PICK r : r = worker[w].run
  OBVIOUS
<1>2. PICK ordinal : ordinal = worker[w].ordinal
  OBVIOUS
<1>3. PICK token : token = worker[w].token
  OBVIOUS
<1>4. PICK pc : pc = AfterStage(w)
  OBVIOUS
<1>5. worker[w].pc = "stage" /\ Accepts("stage", r, token) /\ Execute("stage", r, ordinal)
      /\ UNCHANGED <<authorityVars, late, faults, view, opened>>
      /\ worker' = [worker EXCEPT ![w].pc = pc, ![w].ordinal = ordinal + 1]
  BY <1>1, <1>2, <1>3, <1>4 DEF Stage, clientVars
<1>6. /\ worker[w] \in Worker /\ worker \in [Workers -> Worker] /\ r \in Runs
      /\ Issued(r, token) /\ Holder(r, token) /\ Cursor(w) /\ NextUp(r, ordinal)
  <2>1. Holder(r, token)
    BY <1>5 DEF Accepts, Holds, Holder
  <2> QED BY <1>1, <1>2, <1>3, <1>5, <2>1, WorkerFacts DEF Cursor
<1>7. DatabaseInv' /\ Advances
  BY <1>5, <1>6, ExecuteKeeps
<1>8. ordinal \in Nat /\ token \in Nat /\ run[r].count \in Nat /\ run[r].fence \in Nat
      /\ worker[w].stop \in Nat /\ ordinal + 1 \in 0..Capacity + 1 /\ run[r].count \in 0..Capacity
  BY <1>1, <1>2, <1>3, <1>6, CapacityAssumption
     DEF NextUp, Worker, IInv, DatabaseInv, MemoirTypeOK, Run
<1>9. pc \in {"read", "complete", "yield"}
  BY <1>4 DEF AfterStage
<1>10. /\ worker'[w].pc = pc /\ worker'[w].ordinal = ordinal + 1 /\ worker'[w].run = r
       /\ worker'[w].token = token /\ worker'[w].stop = worker[w].stop /\ worker'[w].count = worker[w].count
  BY <1>1, <1>3, <1>5, <1>6 DEF Worker
<1>11. ActorTypeOK'
  <2>1. [[worker[w] EXCEPT !.pc = pc] EXCEPT !.ordinal = ordinal + 1] \in Worker
    <3>1. [worker[w] EXCEPT !.pc = pc] \in Worker
      BY <1>6, <1>9 DEF Worker
    <3> QED BY <1>8, <3>1 DEF Worker
  <2>2. worker' \in [Workers -> Worker]
    BY <1>5, <1>6, <2>1
  <2> QED BY <1>5, <2>2 DEF IInv, ActorInv, ActorTypeOK
<1>12. /\ staged'[r] = staged[r] \cup {ordinal}
       /\ run' = run
  BY <1>5, <1>6 DEF Execute, StageEffect, IInv, DatabaseInv, MemoirTypeOK
<1>13. 1..ordinal \subseteq staged'[r] /\ ordinal \in 1..run[r].count
  BY <1>6, <1>8, <1>12 DEF NextUp
<1>14. WorkerOK(w)'
  <2>1. Issued(r, token)'
    BY <1>6, <1>12 DEF Issued
  <2>2. worker[w].count = run[r].count /\ worker[w].stop <= run[r].count + 1 /\ ordinal < worker[w].stop
    BY <1>1, <1>2, <1>5, <1>6 DEF Cursor
  <2>3. pc = "read" => ordinal + 1 < worker[w].stop
    BY <1>2, <1>4 DEF AfterStage
  <2>4. pc = "complete" => ordinal = run[r].count
    BY <1>2, <1>4, <1>8, <2>2 DEF AfterStage
  <2>5. pc = "read" => NextUp(r, ordinal + 1)'
    BY <1>8, <1>12, <1>13, <2>2, <2>3 DEF NextUp
  <2>6. pc = "complete" => staged'[r] = 1..run'[r].count
    <3>1. PICK k \in 0..run'[r].count : staged'[r] = 1..k
      BY <1>6, <1>7 DEF DatabaseInv, StagedPrefix
    <3>2. \A n \in 1..k : n \in 1..run'[r].count
      BY <1>8, <1>12, <3>1
    <3> QED BY <1>12, <1>13, <2>4, <3>1, <3>2
  <2>7. Cursor(w)'
    BY <1>9, <1>10, <1>12, <2>2, <2>3, <2>5, <2>6 DEF Cursor, Ordinals
  <2> QED BY <1>10, <2>1, <2>7 DEF WorkerOK
<1>15. \A u \in Workers : u # w => worker'[u] = worker[u]
  BY <1>5, <1>6
<1> QED BY <1>5, <1>7, <1>11, <1>14, <1>15, WorkerStepKeeps

LEMMA CompleteStep == ASSUME IInv, NEW w \in Workers, Complete(w) PROVE IInv'
<1>1. /\ worker[w].pc = "complete"
      /\ Accepts("complete", worker[w].run, worker[w].token)
      /\ Execute("complete", worker[w].run, worker[w].ordinal)
      /\ worker' = [worker EXCEPT ![w] = IdleWorker]
      /\ UNCHANGED <<authorityVars, late, faults, view, opened>>
  BY DEF Complete, clientVars
<1>2. worker[w].run \in Runs
  BY <1>1, WorkerFacts
<1>3. DatabaseInv' /\ Advances
  BY <1>1, <1>2, ExecuteKeeps
<1>4. ActorTypeOK'
  BY <1>1, IdleStep DEF IInv, ActorInv, ActorTypeOK
<1> QED BY <1>1, <1>3, <1>4, IdleStep, WorkerStepKeeps

LEMMA ReleaseStep == ASSUME IInv, NEW w \in Workers, Release(w) PROVE IInv'
<1>1. /\ worker[w].pc \in {"yield", "abort"}
      /\ worker' = [worker EXCEPT ![w] = IdleWorker]
      /\ UNCHANGED <<authorityVars, late, faults, view, opened>>
  BY DEF Release, clientVars
<1>2. worker[w].run \in Runs
  BY <1>1, WorkerFacts
<1>3. DatabaseInv' /\ Advances
  <2>1. CASE Accepts("release", worker[w].run, worker[w].token)
    BY <1>1, <1>2, <2>1, ExecuteKeeps DEF Release
  <2>2. CASE ~Accepts("release", worker[w].run, worker[w].token)
    <3>1. UNCHANGED <<authorityVars, memoirVars>>
      BY <1>1, <2>2 DEF Release
    <3> QED BY <3>1, QuietKeeps DEF authorityVars, IInv, DatabaseInv, MemoirTypeOK
  <2> QED BY <2>1, <2>2
<1>4. ActorTypeOK'
  BY <1>1, IdleStep DEF IInv, ActorInv, ActorTypeOK
<1> QED BY <1>1, <1>3, <1>4, IdleStep, WorkerStepKeeps

LEMMA ReadStep == ASSUME IInv, NEW w \in Workers, Read(w) \/ Rejected(w) PROVE IInv'
<1>1. PICK pc \in {"stage", "abort"} :
        /\ worker' = [worker EXCEPT ![w].pc = pc]
        /\ pc = "stage" => worker[w].pc = "read"
        /\ worker[w].pc # "idle"
  BY DEF Read, Rejected
<1>2. UNCHANGED <<authorityVars, memoirVars, late, faults, view, opened>>
  BY DEF Read, Rejected, clientVars
<1>3. DatabaseInv' /\ Advances
  BY <1>2, QuietKeeps DEF authorityVars, IInv, DatabaseInv, MemoirTypeOK
<1>4. ActorTypeOK'
  <2>1. [worker[w] EXCEPT !.pc = pc] \in Worker
    BY <1>1, WorkerFacts DEF Worker
  <2> QED BY <1>1, <1>2, <2>1 DEF IInv, ActorInv, ActorTypeOK
<1> QED BY <1>1, <1>2, <1>3, <1>4, PcStep, WorkerStepKeeps

(* A request left behind obeys the cursor of the worker that sent it.      *)
LEMMA InFlightOK ==
  ASSUME IInv, NEW w \in Workers, worker[w].pc # "idle", NEW m \in InFlight(w)
  PROVE  m \in Request /\ LateOK(m)
<1>1. worker[w].pc # "read" /\ worker[w].pc \in {"stage", "complete", "yield", "abort"}
  BY WorkerFacts DEF InFlight, Worker
<1>2. m = [op |-> IF worker[w].pc \in {"yield", "abort"} THEN "release" ELSE worker[w].pc,
           run |-> worker[w].run, token |-> worker[w].token, ordinal |-> worker[w].ordinal]
  BY DEF InFlight
<1>3. m \in Request
  BY <1>1, <1>2, WorkerFacts, CapacityAssumption DEF Worker, Request
<1>4. m.op = "stage" => worker[w].pc = "stage"
  BY <1>1, <1>2
<1>5. m.run = worker[w].run /\ m.token = worker[w].token /\ m.ordinal = worker[w].ordinal
  BY <1>2
<1>6. LateOK(m)
  BY <1>4, <1>5, WorkerFacts DEF LateOK, Cursor
<1> QED BY <1>3, <1>6

LEMMA FaultStep == ASSUME IInv, NEW w \in Workers, Interrupt(w) \/ Crash(w) PROVE IInv'
<1>1. /\ worker[w].pc # "idle"
      /\ faults < MaxFaults /\ faults' = faults + 1
      /\ UNCHANGED <<authorityVars, memoirVars, view, opened>>
      /\ late' \subseteq late \cup InFlight(w)
  BY DEF Interrupt, Crash, Abandon, clientVars
<1>2. DatabaseInv' /\ Advances
  BY <1>1, QuietKeeps DEF authorityVars, IInv, DatabaseInv, MemoirTypeOK
<1>3. faults' \in 0..MaxFaults /\ late' \subseteq Request /\ view' \in [Clients -> View]
      /\ opened' \in [Clients -> Runs \cup {NoRun}]
  <2>1. faults \in 0..MaxFaults /\ late \subseteq Request
    BY DEF IInv, ActorInv, ActorTypeOK
  <2>2. late' \subseteq Request
    BY <1>1, <2>1, InFlightOK
  <2>3. faults' \in 0..MaxFaults
    BY <1>1, <2>1, BoundsAssumption
  <2> QED BY <1>1, <2>2, <2>3 DEF IInv, ActorInv, ActorTypeOK
<1>4. \A m \in late' : LateOK(m)'
  <2>1. SUFFICES ASSUME NEW m \in late' PROVE LateOK(m)'
    OBVIOUS
  <2>2. LateOK(m)
    BY <1>1, InFlightOK DEF IInv, ActorInv
  <2>3. run' = run /\ staged' = staged
    BY <1>1 DEF memoirVars
  <2> QED BY <2>2, <2>3 DEF LateOK, Issued, Holder, NextUp
<1>5. worker' \in [Workers -> Worker] /\ WorkerOK(w)' /\ \A u \in Workers : u # w => worker'[u] = worker[u]
  <2>1. CASE Interrupt(w)
    <3>1. worker' = [worker EXCEPT ![w].pc = "abort"]
      BY <2>1 DEF Interrupt
    <3>2. [worker[w] EXCEPT !.pc = "abort"] \in Worker
      BY <1>1, WorkerFacts DEF Worker
    <3>3. worker' \in [Workers -> Worker]
      BY <1>1, <3>1, <3>2, WorkerFacts
    <3>4. worker[w] \in Worker /\ worker \in [Workers -> Worker]
      BY <1>1, WorkerFacts
    <3>5. /\ worker'[w].pc = "abort"
          /\ worker'[w].run = worker[w].run
          /\ worker'[w].token = worker[w].token
          /\ worker'[w].ordinal = worker[w].ordinal
          /\ worker'[w].stop = worker[w].stop
          /\ worker'[w].count = worker[w].count
      BY <3>1, <3>4 DEF Worker
    <3>6. run' = run /\ staged' = staged
      BY <1>1 DEF memoirVars
    <3>7. WorkerOK(w)'
      BY <1>1, <3>5, <3>6, WorkerFacts DEF WorkerOK, Issued, Holder, Cursor, NextUp, Ordinals
    <3> QED BY <3>1, <3>3, <3>4, <3>7
  <2>2. CASE Crash(w)
    BY <2>2, IdleStep DEF Crash
  <2> QED BY <2>1, <2>2
<1>6. \A u \in Workers : WorkerOK(u)'
  BY <1>2, <1>5, UntouchedWorker DEF DatabaseInv
<1> QED BY <1>2, <1>3, <1>4, <1>5, <1>6 DEF IInv, ActorInv, ActorTypeOK

LEMMA DeliverStep == ASSUME IInv, NEW m \in late, Deliver(m) PROVE IInv'
<1>1. /\ UNCHANGED <<authorityVars, worker, faults, view, opened>>
      /\ late' \subseteq late
  BY DEF Deliver, clientVars
<1>2. m \in Request /\ LateOK(m) /\ m.run \in Runs
  BY DEF IInv, ActorInv, ActorTypeOK, Request
<1>3. DatabaseInv' /\ Advances
  <2>1. CASE Accepts(m.op, m.run, m.token)
    <3>1. Holder(m.run, m.token)
      BY <2>1 DEF Accepts, Holds, Holder
    <3>2. m.op = "stage" => NextUp(m.run, m.ordinal)
      BY <1>2, <3>1 DEF LateOK
    <3>3. Execute(m.op, m.run, m.ordinal)
      BY <2>1 DEF Deliver
    <3> QED BY <1>1, <1>2, <2>1, <3>2, <3>3, ExecuteKeeps
  <2>2. CASE ~Accepts(m.op, m.run, m.token)
    <3>1. UNCHANGED <<authorityVars, memoirVars>>
      BY <1>1, <2>2 DEF Deliver
    <3> QED BY <3>1, QuietKeeps DEF authorityVars, IInv, DatabaseInv, MemoirTypeOK
  <2> QED BY <2>1, <2>2
<1>4. ActorTypeOK'
  BY <1>1 DEF IInv, ActorInv, ActorTypeOK
<1> QED BY <1>1, <1>3, <1>4, BystandersKeep

LEMMA NextIInv == IInv /\ [Next]_vars => IInv'
<1> SUFFICES ASSUME IInv, [Next]_vars PROVE IInv' OBVIOUS
<1>1. CASE Environment
  BY <1>1, EnvironmentStep
<1>2. CASE \E w \in Workers : Advance(w)
  <2>1. PICK w \in Workers : Advance(w)
    BY <1>2
  <2>2. CASE \E r \in Runs : Claim(w, r)
    BY <2>2, ClaimStep
  <2>3. CASE Read(w) \/ Rejected(w)
    BY <2>3, ReadStep
  <2>4. CASE Stage(w)
    BY <2>4, StageStep
  <2>5. CASE Complete(w)
    BY <2>5, CompleteStep
  <2>6. CASE Release(w)
    BY <2>6, ReleaseStep
  <2> QED BY <2>1, <2>2, <2>3, <2>4, <2>5, <2>6 DEF Advance
<1>3. CASE Failure
  BY <1>3, FaultStep, DeliverStep, LapseStep DEF Failure
<1>4. CASE \E c \in Clients : Owner(c)
  BY <1>4, OwnerStep
<1>5. CASE UNCHANGED vars
  <2>1. UNCHANGED <<authorityVars, memoirVars, worker, late, faults, view, opened>>
    BY <1>5 DEF vars, workerVars, clientVars
  <2>2. DatabaseInv' /\ Advances
    BY <2>1, QuietKeeps DEF authorityVars, IInv, DatabaseInv, MemoirTypeOK
  <2>3. ActorTypeOK'
    BY <2>1 DEF IInv, ActorInv, ActorTypeOK
  <2> QED BY <2>1, <2>2, <2>3, BystandersKeep
<1> QED BY <1>1, <1>2, <1>3, <1>4, <1>5 DEF Next

THEOREM Invariance == Spec => []IInv
<1> QED BY InitIInv, NextIInv, PTL DEF Spec

-----------------------------------------------------------------------------
(* The properties.                                                         *)

\* Only a delivered reply or the operator turns the conversation to shape, and
\* such a step leaves the authority and the memoir as they are.
LEMMA ModeMoves ==
  ASSUME [Next]_vars
  PROVE  shaping' = shaping \/ shaping' = FALSE \/ TurnMode
<1>1. CASE Environment
  <2>1. ASSUME NEW field \in {"policy", "content"}, ChangeProject(field)
        PROVE  shaping' = shaping \/ shaping' = FALSE
    BY <2>1 DEF ChangeProject
  <2>2. ASSUME ChangePreference PROVE shaping' = FALSE
    BY <2>2 DEF ChangePreference
  <2>3. ASSUME ReviewPolicy \/ FinishExtraction PROVE shaping' = shaping
    BY <2>3 DEF ReviewPolicy, FinishExtraction
  <2> QED BY <1>1, <2>1, <2>2, <2>3 DEF Environment
<1>2. UNCHANGED authorityVars => shaping' = shaping
  BY DEF authorityVars
<1>3. \A w \in Workers : Advance(w) => UNCHANGED authorityVars
  BY DEF Advance, Claim, Read, Stage, Complete, Rejected, Release
<1>4. Failure => UNCHANGED authorityVars
  BY DEF Failure, Interrupt, Crash, Deliver, Lapse
<1>5. \A c \in Clients : Owner(c) => UNCHANGED authorityVars
  BY DEF Owner, ReadStatus, Begin, OpenEdition, SetConsent, ServeChapter, RefuseChapter
<1>6. UNCHANGED vars => UNCHANGED authorityVars
  BY DEF vars
<1> QED BY <1>1, <1>2, <1>3, <1>4, <1>5, <1>6 DEF Next

ModeTyped == shaping \in BOOLEAN

\* Every reachable state is well typed.
THEOREM TypeCorrect == Spec => []TypeOK
<1>1. IInv /\ ModeTyped => TypeOK
  BY DEF IInv, DatabaseInv, ActorInv, TypeOK, ModeTyped
<1>2. Init => ModeTyped
  BY DEF Init, ModeTyped
<1>3. ModeTyped /\ [Next]_vars => ModeTyped'
  BY ModeMoves DEF ModeTyped, TurnMode
<1> QED BY <1>1, <1>2, <1>3, Invariance, PTL DEF Spec

\* What can be read is complete and rests on the current authority.
THEOREM EditionsAreCurrent == Spec => []ActiveEditionIsCurrent
<1>1. IInv => ActiveEditionIsCurrent
  BY DEF IInv, DatabaseInv
<1> QED BY <1>1, Invariance, PTL

\* No prose of a stale run survives or comes back.
THEOREM StaleIsPurged == Spec => []StaleRunsHoldNoProse
<1>1. IInv => StaleRunsHoldNoProse
  BY DEF IInv, DatabaseInv
<1> QED BY <1>1, Invariance, PTL

\* One unfinished run, based on the head.
THEOREM OneRunAtATime == Spec => []OneUnfinishedRun
<1>1. IInv => OneUnfinishedRun
  BY DEF IInv, DatabaseInv
<1> QED BY <1>1, Invariance, PTL

\* A holder that reaches completion is never refused for its coverage.
THEOREM HoldersComplete == Spec => []HolderCanComplete
<1>1. ASSUME IInv PROVE HolderCanComplete
  <2>1. SUFFICES ASSUME NEW w \in Workers, worker[w].pc = "complete",
                        Holds(worker[w].run, worker[w].token)
                 PROVE Completable(worker[w].run)
    BY DEF HolderCanComplete
  <2>2. /\ worker[w].run \in Runs
        /\ run[worker[w].run].state = "running"
        /\ Cursor(w)
    BY <1>1, <2>1, WorkerFacts DEF Holds, Holder
  <2> QED BY <1>1, <2>1, <2>2 DEF Cursor, Completable, OneUnfinishedRun, IInv, DatabaseInv
<1> QED BY <1>1, Invariance, PTL

\* Both together: the completion of a lease holder is refused for nothing else.
THEOREM RunsComplete == Spec => []RunsCanComplete
<1>1. OneUnfinishedRun /\ HolderCanComplete => RunsCanComplete
  BY DEF RunsCanComplete
<1> QED BY <1>1, OneRunAtATime, HoldersComplete, PTL

-----------------------------------------------------------------------------
(* What a step does to editions, head and consent, seen without workers.   *)

\* The authority moved: everything built on the old one is invalidated.
Moves == Invalidate /\ authority' # authority /\ authority' \in Authority

\* A lease holder commits the edition of its run.
Commits(r) == run[r].state = "running" /\ CompleteEffect(r) /\ UNCHANGED authorityVars

\* Runs may change hands, but no edition, head, decision or authority moves.
Quiet ==
  /\ UNCHANGED <<authority, edition, head, consent>>
  /\ DOMAIN run' = Runs
  /\ \A r \in Runs :
       /\ (run'[r].state = "none") <=> (run[r].state = "none")
       /\ (run'[r].state \in {"completed", "stale"}) <=> (run[r].state \in {"completed", "stale"})

LEMMA ExecuteKinds ==
  ASSUME IInv, NEW op, NEW r \in Runs, NEW token, NEW ordinal,
         Accepts(op, r, token), Execute(op, r, ordinal), UNCHANGED authorityVars
  PROVE  Commits(r) \/ Quiet
<1>1. run[r].state = "running" /\ run \in [Runs -> Run]
  BY DEF Accepts, Holds, IInv, DatabaseInv, MemoirTypeOK
<1>2. CASE op = "stage" /\ StageEffect(r, ordinal)
  BY <1>1, <1>2 DEF StageEffect, Quiet, authorityVars
<1>3. CASE op = "complete" /\ CompleteEffect(r)
  BY <1>1, <1>3 DEF Commits
<1>4. CASE op = "release" /\ ReleaseEffect(r)
  <2>1. UNCHANGED <<authority, edition, head, consent>>
    BY <1>4 DEF ReleaseEffect, authorityVars
  <2>2. DOMAIN run' = Runs /\ (\A q \in Runs : q # r => run'[q] = run[q]) /\ run'[r].state = "pending"
    BY <1>1, <1>4 DEF ReleaseEffect, Run
  <2> QED BY <1>1, <2>1, <2>2 DEF Quiet
<1> QED BY <1>2, <1>3, <1>4 DEF Execute

LEMMA StepKinds ==
  ASSUME IInv, [Next]_vars
  PROVE  \/ Moves
         \/ \E r \in Runs : Commits(r)
         \/ \E c \in Clients, r \in Runs : Begin(c, r)
         \/ \E c \in Clients, r \in Runs, decision \in {"active", "revoked"} : SetConsent(c, r, decision)
         \/ Quiet
<1>1. run \in [Runs -> Run] /\ authority \in Authority
  BY DEF IInv, DatabaseInv, MemoirTypeOK
<1>2. UNCHANGED <<authorityVars, memoirVars>> => Quiet
  BY <1>1 DEF Quiet, authorityVars, memoirVars
<1>3. CASE Environment
  <2>1. ASSUME NEW field \in {"policy", "content"}, ChangeProject(field) PROVE Moves
    <3>1. /\ authority[field] \in Nat /\ authority[field] + 1 \in 0..MaxAuthority
      BY <1>1, <2>1, BoundsAssumption DEF Authority, ChangeProject
    <3>2. authority' = [authority EXCEPT ![field] = authority[field] + 1]
      BY <2>1 DEF ChangeProject
    <3>3. authority' \in Authority /\ authority'[field] # authority[field]
      BY <1>1, <3>1, <3>2 DEF Authority
    <3> QED BY <2>1, <3>3 DEF ChangeProject, Moves
  <2>2. ASSUME ChangePreference PROVE Moves
    <3>1. authority.content \in Nat /\ authority.content + 1 \in 0..MaxAuthority
      BY <1>1, <2>2, BoundsAssumption DEF Authority, ChangePreference
    <3>2. authority' = [authority EXCEPT !.content = authority.content + 1]
      BY <2>2 DEF ChangePreference
    <3>3. authority' \in Authority /\ authority'.content # authority.content
      BY <1>1, <3>1, <3>2 DEF Authority
    <3> QED BY <2>2, <3>3 DEF ChangePreference, Moves
  <2>3. ASSUME ReviewPolicy \/ FinishExtraction \/ TurnMode PROVE Quiet
    BY <1>1, <2>3 DEF ReviewPolicy, FinishExtraction, TurnMode, Quiet, memoirVars
  <2> QED BY <1>3, <2>1, <2>2, <2>3 DEF Environment
<1>4. CASE \E w \in Workers : Advance(w)
  <2>1. PICK w \in Workers : Advance(w)
    BY <1>4
  <2>2. ASSUME NEW r \in Runs, Claim(w, r) PROVE Quiet
    <3>1. run[r].state \in {"pending", "running"}
      BY <2>2 DEF Claim, LockRun
    <3>2. run' = [run EXCEPT ![r].state = "running", ![r].token = run[r].fence + 1,
                             ![r].fence = @ + 1, ![r].live = TRUE]
      BY <2>2 DEF Claim
    <3>3. DOMAIN run' = Runs /\ (\A q \in Runs : q # r => run'[q] = run[q]) /\ run'[r].state = "running"
      BY <1>1, <3>2 DEF Run
    <3> QED BY <2>2, <3>1, <3>3 DEF Claim, Quiet, authorityVars
  <2>3. ASSUME Read(w) \/ Rejected(w) PROVE Quiet
    BY <1>2, <2>3 DEF Read, Rejected
  <2>4. ASSUME Stage(w) \/ Complete(w) \/ Release(w)
        PROVE  (\E r \in Runs : Commits(r)) \/ Quiet
    <3>1. worker[w].run \in Runs
      BY <2>4, WorkerFacts DEF Stage, Complete, Release
    <3>2. PICK op : \/ /\ Accepts(op, worker[w].run, worker[w].token)
                       /\ Execute(op, worker[w].run, worker[w].ordinal)
                    \/ UNCHANGED memoirVars
      BY <2>4 DEF Stage, Complete, Release
    <3>3. UNCHANGED authorityVars
      BY <2>4 DEF Stage, Complete, Release
    <3> QED BY <1>2, <3>1, <3>2, <3>3, ExecuteKinds
  <2> QED BY <2>1, <2>2, <2>3, <2>4 DEF Advance
<1>5. CASE Failure
  <2>1. ASSUME NEW w \in Workers, Interrupt(w) \/ Crash(w) PROVE Quiet
    BY <1>2, <2>1 DEF Interrupt, Crash
  <2>2. ASSUME NEW m \in late, Deliver(m) PROVE (\E r \in Runs : Commits(r)) \/ Quiet
    <3>1. m.run \in Runs
      BY DEF IInv, ActorInv, ActorTypeOK, Request
    <3>2. UNCHANGED authorityVars
      BY <2>2 DEF Deliver
    <3> QED BY <1>2, <2>2, <3>1, <3>2, ExecuteKinds DEF Deliver
  <2>3. ASSUME NEW r \in Runs, Lapse(r) PROVE Quiet
    <3>1. run' = [run EXCEPT ![r].live = FALSE]
      BY <2>3 DEF Lapse
    <3>2. DOMAIN run' = Runs /\ (\A q \in Runs : run'[q].state = run[q].state)
      BY <1>1, <3>1 DEF Run
    <3> QED BY <2>3, <3>2 DEF Lapse, Quiet, authorityVars
  <2> QED BY <1>5, <2>1, <2>2, <2>3 DEF Failure
<1>6. CASE \E c \in Clients : Owner(c)
  <2>1. PICK c \in Clients : Owner(c)
    BY <1>6
  <2>2. ASSUME ReadStatus(c) \/ (\E r \in Runs : OpenEdition(c, r)) \/ ServeChapter(c) \/ RefuseChapter(c)
        PROVE  Quiet
    BY <1>2, <2>2 DEF ReadStatus, OpenEdition, ServeChapter, RefuseChapter
  <2> QED BY <2>1, <2>2 DEF Owner
<1>7. CASE UNCHANGED vars
  BY <1>2, <1>7 DEF vars
<1> QED BY <1>3, <1>4, <1>5, <1>6, <1>7 DEF Next

-----------------------------------------------------------------------------
(* Consent.                                                                *)

\* No decision is newer than the head's consent revision, and one as new as
\* it that grants is about the head's edition.
ConsentInv ==
  \A r \in Runs :
    /\ consent[r].revision <= head.consent
    /\ consent[r].status = "active" /\ consent[r].revision = head.consent => head.edition = r

ConsentTypes == consent \in [Runs -> Consent] /\ head \in Head

LEMMA CommitSupersedes ==
  ASSUME ConsentTypes, ConsentInv, NEW r \in Runs, Commits(r)
  PROVE  \A q \in Runs : consent'[q].revision < head'.consent
<1>1. head' = [revision |-> head.revision + 1, edition |-> r, consent |-> head.consent + 1] /\ consent' = consent
  BY DEF Commits, CompleteEffect, ConsentAfterEdition
<1>2. SUFFICES ASSUME NEW q \in Runs PROVE consent[q].revision < head.consent + 1
  BY <1>1
<1>3. consent[q].revision \in Nat /\ head.consent \in Nat
  BY DEF ConsentTypes, Consent, Head
<1> QED BY <1>3 DEF ConsentInv

LEMMA DecisionAdvances ==
  ASSUME ConsentTypes, ConsentInv, NEW c \in Clients, NEW r \in Runs,
         NEW decision \in {"active", "revoked"}, SetConsent(c, r, decision)
  PROVE  /\ head'.consent = head.consent + 1
         /\ head'.edition = head.edition
         /\ \A q \in Runs : q # r => consent'[q] = consent[q] /\ consent[q].revision < head'.consent
         /\ consent'[r].revision = head'.consent /\ consent'[r].status = decision
         /\ consent[r].revision < head'.consent
         /\ decision = "active" => head.edition = r
<1>1. head' = [head EXCEPT !.consent = head.consent + 1]
  BY DEF SetConsent, DecidedRevision
<1>2. head'.consent = head.consent + 1 /\ head'.edition = head.edition
  BY <1>1 DEF ConsentTypes, Head
<1>3. \A q \in Runs : consent[q].revision \in Nat /\ head.consent \in Nat
  BY DEF ConsentTypes, Consent, Head
<1>4. \A q \in Runs : consent[q].revision < head.consent + 1
  BY <1>3 DEF ConsentInv
<1>5. consent' = [consent EXCEPT ![r] = [status |-> decision, policy |-> authority.policy,
                                         revision |-> head.consent + 1]]
  BY DEF SetConsent, DecidedRevision
<1>6. /\ \A q \in Runs : q # r => consent'[q] = consent[q]
      /\ consent'[r].revision = head.consent + 1 /\ consent'[r].status = decision
  BY <1>5 DEF ConsentTypes
<1>7. decision = "active" => head.edition = r
  BY DEF SetConsent
<1> QED BY <1>2, <1>4, <1>6, <1>7

LEMMA ConsentStep == ASSUME IInv, ConsentInv, [Next]_vars PROVE ConsentInv'
<1>1. ConsentTypes
  BY DEF ConsentTypes, IInv, DatabaseInv, MemoirTypeOK
<1>2. CASE UNCHANGED <<head, consent>>
  BY <1>2 DEF ConsentInv
<1>3. ASSUME NEW r \in Runs, Commits(r) PROVE ConsentInv'
  <2>1. \A q \in Runs : consent'[q].revision < head'.consent
    BY <1>1, <1>3, CommitSupersedes
  <2>2. \A q \in Runs : consent'[q].revision \in Nat /\ head'.consent \in Nat
    BY <1>1, <1>3 DEF Commits, CompleteEffect, ConsentAfterEdition, ConsentTypes, Consent, Head
  <2>3. SUFFICES ASSUME NEW q \in Runs
                 PROVE consent'[q].revision <= head'.consent /\ consent'[q].revision # head'.consent
    BY DEF ConsentInv
  <2> QED BY <2>1, <2>2
<1>4. ASSUME NEW c \in Clients, NEW r \in Runs, NEW decision \in {"active", "revoked"},
             SetConsent(c, r, decision)
      PROVE  ConsentInv'
  <2>1. /\ head'.edition = head.edition
        /\ \A q \in Runs : q # r => consent'[q] = consent[q] /\ consent[q].revision < head'.consent
        /\ consent'[r].revision = head'.consent /\ consent'[r].status = decision
        /\ decision = "active" => head.edition = r
    BY <1>1, <1>4, DecisionAdvances
  <2>2. head'.consent \in Nat /\ \A q \in Runs : consent[q].revision \in Nat
    BY <1>1, <1>4, DecisionAdvances DEF ConsentTypes, Consent, Head
  <2>3. SUFFICES ASSUME NEW q \in Runs
                 PROVE /\ consent'[q].revision <= head'.consent
                       /\ consent'[q].status = "active" /\ consent'[q].revision = head'.consent
                            => head'.edition = q
    BY DEF ConsentInv
  <2>4. CASE q = r
    BY <2>1, <2>2, <2>4
  <2>5. CASE q # r
    BY <2>1, <2>2, <2>5
  <2> QED BY <2>4, <2>5
<1>5. Moves \/ Quiet \/ (\E c \in Clients, r \in Runs : Begin(c, r)) => UNCHANGED <<head, consent>>
  BY DEF Moves, Invalidate, Quiet, Begin
<1> QED BY <1>2, <1>3, <1>4, <1>5, StepKinds

LEMMA ConsentInvariance == Spec => []ConsentInv
<1>1. Init => ConsentInv
  BY DEF Init, ConsentInv
<1>2. IInv /\ ConsentInv /\ [Next]_vars => ConsentInv'
  BY ConsentStep
<1> QED BY <1>1, <1>2, Invariance, PTL DEF Spec

\* A consent in force is about the edition at the head.
THEOREM ConsentIsAboutTheHead == Spec => []ConsentFollowsHead
<1>1. ConsentInv => ConsentFollowsHead
  BY DEF ConsentInv, ConsentFollowsHead, ConsentInForce
<1> QED BY <1>1, ConsentInvariance, PTL

\* An active edition at the head is always one that can be adapted, but for consent.
LEMMA HeadIsReadable ==
  ASSUME IInv, NEW r \in Runs, edition[r].active
  PROVE  LockRun(r)
BY DEF IInv, DatabaseInv, ActiveEditionIsCurrent, LockRun

\* Permission comes only with a decision to grant it; eligibility with that, or
\* with the conversation's turn to shape under a grant already in force.
THEOREM OnlyGrants == Spec => [][OnlyAGrantPermits]_vars
<1>1. ASSUME IInv, ConsentInv, [Next]_vars, NEW r \in Runs, ~Permitted(r), Permitted(r)'
      PROVE  Granted(r)
  <2>2. /\ head'.edition = r /\ edition'[r].active
        /\ consent'[r].status = "active" /\ consent'[r].revision = head'.consent
        /\ consent'[r].policy = authority'.policy
    BY <1>1 DEF Permitted, ConsentInForce
  <2>3. ConsentTypes /\ edition \in [Runs -> Edition]
    BY <1>1 DEF ConsentTypes, IInv, DatabaseInv, MemoirTypeOK
  <2>4. CASE Moves
    BY <2>2, <2>3, <2>4 DEF Moves, Invalidate, Retired, Edition
  <2>5. ASSUME NEW q \in Runs, Commits(q) PROVE FALSE
    <3>1. consent'[r].revision < head'.consent
      BY <1>1, <2>3, <2>5, CommitSupersedes
    <3>2. consent'[r].revision \in Nat /\ head'.consent \in Nat
      BY <2>3, <2>5 DEF Commits, CompleteEffect, ConsentAfterEdition, ConsentTypes, Consent, Head
    <3> QED BY <2>2, <3>1, <3>2
  <2>6. CASE Quiet \/ (\E c \in Clients, q \in Runs : Begin(c, q))
    <3>1. UNCHANGED <<authority, edition, head, consent>>
      BY <2>6 DEF Quiet, Begin, authorityVars
    <3>2. LockRun(r)
      BY <1>1, <2>2, <3>1, HeadIsReadable
    <3> QED BY <1>1, <2>2, <3>1, <3>2 DEF Permitted, ConsentInForce
  <2>7. ASSUME NEW c \in Clients, NEW q \in Runs, NEW decision \in {"active", "revoked"},
               SetConsent(c, q, decision)
        PROVE  consent' # consent
    <3>1. consent'[q].revision = head'.consent /\ consent[q].revision < head'.consent
      BY <1>1, <2>3, <2>7, DecisionAdvances
    <3>2. consent[q].revision \in Nat
      BY <2>3 DEF ConsentTypes, Consent
    <3> QED BY <3>1, <3>2
  <2> QED BY <1>1, <2>2, <2>4, <2>5, <2>6, <2>7, StepKinds DEF Granted
<1>2. ASSUME IInv, ConsentInv, [Next]_vars, NEW r \in Runs, ~Eligible(r), Eligible(r)'
      PROVE  Granted(r) \/ (Permitted(r) /\ UNCHANGED <<authority, memoirVars>>)
  <2>1. Permitted(r)' /\ shaping'
    BY <1>2 DEF Eligible
  <2>2. CASE ~Permitted(r)
    BY <1>1, <1>2, <2>1, <2>2
  <2>3. CASE Permitted(r)
    <3>1. TurnMode
      BY <1>2, <2>1, <2>3, ModeMoves DEF Eligible
    <3> QED BY <2>3, <3>1 DEF TurnMode
  <2> QED BY <2>2, <2>3
<1>3. IInv /\ ConsentInv /\ [Next]_vars => [OnlyAGrantPermits]_vars
  BY <1>1, <1>2 DEF OnlyAGrantPermits
<1> QED BY <1>3, Invariance, ConsentInvariance, PTL DEF Spec

-----------------------------------------------------------------------------
(* Reading an edition.                                                     *)

\* What a reader found before the lock was an edition.
OpenedInv ==
  \A c \in Clients : opened[c] # NoRun =>
    opened[c] \in Runs /\ run[opened[c]].state \in {"completed", "stale"}

LEMMA OpenedStep == ASSUME IInv, OpenedInv, [Next]_vars PROVE OpenedInv'
<1>1. SUFFICES ASSUME NEW c \in Clients, opened'[c] # NoRun
               PROVE opened'[c] \in Runs /\ run'[opened'[c]].state \in {"completed", "stale"}
  BY DEF OpenedInv
<1>2. run \in [Runs -> Run] /\ opened \in [Clients -> Runs \cup {NoRun}]
  BY DEF IInv, DatabaseInv, MemoirTypeOK, ActorInv, ActorTypeOK
<1>3. \A r \in Runs : run[r].state \in {"completed", "stale"} => run'[r].state \in {"completed", "stale"}
  <2>1. CASE Moves
    BY <1>2, <2>1 DEF Moves, Invalidate, StaleRun, Run
  <2>2. ASSUME NEW q \in Runs, Commits(q)
        PROVE  \A r \in Runs : run[r].state \in {"completed", "stale"} => run'[r].state \in {"completed", "stale"}
    <3>1. run' = [run EXCEPT ![q].state = "completed", ![q].live = FALSE]
      BY <2>2 DEF Commits, CompleteEffect
    <3> QED BY <1>2, <3>1 DEF Run
  <2>3. ASSUME NEW d \in Clients, NEW q \in Runs, Begin(d, q)
        PROVE  \A r \in Runs : run[r].state \in {"completed", "stale"} => run'[r].state \in {"completed", "stale"}
    BY <1>2, <2>3 DEF Begin
  <2>4. ASSUME NEW d \in Clients, NEW q \in Runs, NEW decision \in {"active", "revoked"},
               SetConsent(d, q, decision)
        PROVE  \A r \in Runs : run[r].state \in {"completed", "stale"} => run'[r].state \in {"completed", "stale"}
    BY <2>4 DEF SetConsent
  <2>5. CASE Quiet
    BY <2>5 DEF Quiet
  <2> QED BY <2>1, <2>2, <2>3, <2>4, <2>5, StepKinds
<1>4. CASE opened'[c] = opened[c]
  BY <1>1, <1>3, <1>4 DEF OpenedInv
<1>5. CASE \E d \in Clients, r \in Runs : OpenEdition(d, r)
  <2>1. PICK d \in Clients, r \in Runs : OpenEdition(d, r)
    BY <1>5
  <2>2. opened' = [opened EXCEPT ![d] = r] /\ run' = run /\ edition[r].active
    BY <2>1 DEF OpenEdition, memoirVars
  <2>3. run[r].state = "completed"
    BY <2>2 DEF IInv, DatabaseInv, ActiveEditionIsCurrent
  <2> QED BY <1>1, <1>2, <1>4, <2>2, <2>3
<1>6. CASE \E d \in Clients : ServeChapter(d) \/ RefuseChapter(d)
  <2>1. PICK d \in Clients : opened' = [opened EXCEPT ![d] = NoRun]
    BY <1>6 DEF ServeChapter, RefuseChapter
  <2> QED BY <1>1, <1>2, <1>4, <2>1
<1>7. \/ opened' = opened
      \/ \E d \in Clients, r \in Runs : OpenEdition(d, r)
      \/ \E d \in Clients : ServeChapter(d) \/ RefuseChapter(d)
  <2>1. Environment => opened' = opened
    BY DEF Environment, ChangeProject, ChangePreference, ReviewPolicy, FinishExtraction, TurnMode,
           clientVars
  <2>2. \A w \in Workers : Advance(w) => opened' = opened
    BY DEF Advance, Claim, Read, Stage, Complete, Rejected, Release, clientVars
  <2>3. Failure => opened' = opened
    BY DEF Failure, Interrupt, Crash, Deliver, Lapse, clientVars
  <2>4. ASSUME NEW d \in Clients, Owner(d)
        PROVE  \/ opened' = opened
               \/ \E r \in Runs : OpenEdition(d, r)
               \/ ServeChapter(d) \/ RefuseChapter(d)
    BY <2>4 DEF Owner, ReadStatus, Begin, SetConsent, clientVars
  <2>5. UNCHANGED vars => opened' = opened
    BY DEF vars, clientVars
  <2> QED BY <2>1, <2>2, <2>3, <2>4, <2>5 DEF Next
<1> QED BY <1>4, <1>5, <1>6, <1>7

\* A chapter is served from the edition that is active at that moment.
THEOREM ServesTheActiveEdition == Spec => [][ServesOnlyActiveEdition]_vars
<1>1. Init => OpenedInv
  BY DEF Init, OpenedInv
<1>2. IInv /\ OpenedInv /\ [Next]_vars => OpenedInv'
  BY OpenedStep
<1>3. IInv /\ OpenedInv /\ [Next]_vars => [ServesOnlyActiveEdition]_vars
  <2>1. ASSUME OpenedInv, NEW c \in Clients, ServeChapter(c) PROVE edition[opened[c]].active
    BY <2>1 DEF OpenedInv, ServeChapter, LockRun
  <2> QED BY <2>1 DEF ServesOnlyActiveEdition
<1> QED BY <1>1, <1>2, <1>3, Invariance, PTL DEF Spec

\* Whatever is adapted or served is so by the owner's last decision and the
\* edition of this moment.
THEOREM UseIsAuthorized == Spec => UseFollowsAuthority
BY OnlyGrants, ServesTheActiveEdition, PTL DEF UseFollowsAuthority

\* Editions are complete and current, stale prose is gone, consent is about the head.
THEOREM EditionsTrue == Spec => []EditionsAreTrue
<1>1. ActiveEditionIsCurrent /\ StaleRunsHoldNoProse /\ ConsentFollowsHead => EditionsAreTrue
  BY DEF EditionsAreTrue
<1> QED BY <1>1, EditionsAreCurrent, StaleIsPurged, ConsentIsAboutTheHead, PTL

-----------------------------------------------------------------------------
(* The machine implements MemoirPublication.                               *)

Asked == [r \in Runs |-> [asked |-> run[r].state # "none",
                          done |-> run[r].state \in {"completed", "stale"}]]

Current == IF head.edition \in Runs /\ edition[head.edition].active THEN head.edition ELSE NoRun

(* A request's two flags, by the state of its run.                         *)
LEMMA FlagsOf ==
  ASSUME NEW state
  PROVE  LET flags == [asked |-> state # "none", done |-> state \in {"completed", "stale"}]
         IN /\ state = "none" => flags = [asked |-> FALSE, done |-> FALSE]
            /\ state \in {"pending", "running"} => flags = [asked |-> TRUE, done |-> FALSE]
            /\ state \in {"completed", "stale"} => flags = [asked |-> TRUE, done |-> TRUE]
<1> DEFINE a == state # "none"
           d == state \in {"completed", "stale"}
<1>1. /\ state = "none" => a = FALSE /\ d = FALSE
      /\ state \in {"pending", "running"} => a = TRUE /\ d = FALSE
      /\ state \in {"completed", "stale"} => a = TRUE /\ d = TRUE
  OBVIOUS
<1>2. /\ state = "none" => [asked |-> a, done |-> d] = [asked |-> FALSE, done |-> FALSE]
      /\ state \in {"pending", "running"} => [asked |-> a, done |-> d] = [asked |-> TRUE, done |-> FALSE]
      /\ state \in {"completed", "stale"} => [asked |-> a, done |-> d] = [asked |-> TRUE, done |-> TRUE]
  <2> HIDE DEF a, d
  <2> QED BY <1>1, Zenon
<1> QED BY <1>2

LEMMA AskedIs ==
  ASSUME NEW r \in Runs
  PROVE  /\ run[r].state = "none" => Asked[r] = [asked |-> FALSE, done |-> FALSE]
         /\ run[r].state \in {"pending", "running"} => Asked[r] = [asked |-> TRUE, done |-> FALSE]
         /\ run[r].state \in {"completed", "stale"} => Asked[r] = [asked |-> TRUE, done |-> TRUE]
         /\ run'[r].state = "none" => Asked'[r] = [asked |-> FALSE, done |-> FALSE]
         /\ run'[r].state \in {"pending", "running"} => Asked'[r] = [asked |-> TRUE, done |-> FALSE]
         /\ run'[r].state \in {"completed", "stale"} => Asked'[r] = [asked |-> TRUE, done |-> TRUE]
<1>1. /\ Asked[r] = [asked |-> run[r].state # "none", done |-> run[r].state \in {"completed", "stale"}]
      /\ Asked'[r] = [asked |-> run'[r].state # "none", done |-> run'[r].state \in {"completed", "stale"}]
  BY Zenon DEF Asked
<1> QED BY <1>1, FlagsOf, Zenon

LEMMA InitPublishes == ASSUME Init PROVE Publication!Init
<1>1. authority \in [policy : Nat, content : Nat]
  BY BoundsAssumption DEF Init, NoAuthority
<1>2. Asked = [r \in Runs |-> [asked |-> FALSE, done |-> FALSE]]
  <2>1. \A r \in Runs : run[r].state = "none"
    BY DEF Init
  <2>2. \A r \in Runs : Asked[r] = [asked |-> FALSE, done |-> FALSE]
    BY <2>1, AskedIs
  <2> QED BY <2>2 DEF Asked
<1>3. head.revision = 0 /\ Current = NoRun
  BY RunsAssumption DEF Init, Current
<1> QED BY <1>1, <1>2, <1>3 DEF Publication!Init, Publication!Unasked, Asked, Current

LEMMA MovesPublishes == ASSUME IInv, Moves PROVE Publication!Retract
<1>1. /\ run \in [Runs -> Run] /\ edition \in [Runs -> Edition]
  BY DEF IInv, DatabaseInv, MemoirTypeOK
<1>2. authority' \in [policy : Nat, content : Nat] /\ authority' # authority /\ head'.revision = head.revision
  BY BoundsAssumption DEF Moves, Authority, Invalidate
<1>3. Asked' = [r \in Runs |-> [Asked[r] EXCEPT !.done = Asked[r].asked]]
  <2>1. \A r \in Runs : /\ (run'[r].state # "none") <=> (run[r].state # "none")
                        /\ (run'[r].state \in {"completed", "stale"}) <=> (run[r].state # "none")
    BY <1>1 DEF Moves, Invalidate, StaleRun, Run
  <2>2. \A r \in Runs : Asked[r] = [asked |-> run[r].state # "none",
                                    done |-> run[r].state \in {"completed", "stale"}]
    BY DEF Asked
  <2>3. \A r \in Runs : [Asked[r] EXCEPT !.done = Asked[r].asked]
                        = [asked |-> run[r].state # "none", done |-> run[r].state # "none"]
    <3>1. SUFFICES ASSUME NEW r \in Runs
                   PROVE [Asked[r] EXCEPT !.done = Asked[r].asked]
                         = [asked |-> run[r].state # "none", done |-> run[r].state # "none"]
      OBVIOUS
    <3> DEFINE a == run[r].state # "none"
               d == run[r].state \in {"completed", "stale"}
    <3>2. Asked[r] = [asked |-> a, done |-> d]
      BY <2>2
    <3>3. [[asked |-> a, done |-> d] EXCEPT !.done = [asked |-> a, done |-> d].asked] = [asked |-> a, done |-> a]
      <4> HIDE DEF a, d
      <4> QED OBVIOUS
    <3> QED BY <3>2, <3>3, Zenon
  <2> QED BY <2>1, <2>3 DEF Asked
<1>4. Current' = NoRun
  <2>1. \A r \in Runs : ~edition'[r].active
    BY <1>1 DEF Moves, Invalidate, Retired, Edition
  <2> QED BY <2>1 DEF Current
<1> QED BY <1>2, <1>3, <1>4 DEF Publication!Retract, Asked, Current

LEMMA CommitsPublishes == ASSUME IInv, NEW r \in Runs, Commits(r) PROVE Publication!Publish(r)
<1>1. run \in [Runs -> Run]
  BY DEF IInv, DatabaseInv, MemoirTypeOK
<1>2. Asked[r].asked /\ ~Asked[r].done
  BY DEF Asked, Commits
<1>3. head' = [revision |-> head.revision + 1, edition |-> r, consent |-> head.consent + 1]
  BY DEF Commits, CompleteEffect, ConsentAfterEdition
<1>4. edition'[r].active
  BY DEF Commits, CompleteEffect
<1>5. Current' = r
  BY <1>3, <1>4 DEF Current
<1>6. Asked' = [Asked EXCEPT ![r].done = TRUE]
  <2>1. run' = [run EXCEPT ![r].state = "completed", ![r].live = FALSE]
    BY DEF Commits, CompleteEffect
  <2>2. \A q \in Runs : q # r => run'[q] = run[q]
    BY <1>1, <2>1
  <2>3. run'[r].state = "completed"
    BY <1>1, <2>1 DEF Run
  <2>4. Asked'[r] = [Asked[r] EXCEPT !.done = TRUE]
    <3>1. Asked[r] = [asked |-> TRUE, done |-> FALSE]
      BY AskedIs DEF Commits
    <3>2. Asked'[r] = [asked |-> TRUE, done |-> TRUE]
      BY <2>3, AskedIs
    <3> DEFINE t == TRUE
               f == FALSE
    <3>3. [[asked |-> t, done |-> f] EXCEPT !.done = t] = [asked |-> t, done |-> t]
      <4> HIDE DEF t, f
      <4> QED OBVIOUS
    <3> QED BY <3>1, <3>2, <3>3, Zenon
  <2>5. \A q \in Runs : q # r => Asked'[q] = Asked[q]
    BY <2>2 DEF Asked
  <2> QED BY <2>4, <2>5 DEF Asked
<1>7. authority' = authority
  BY DEF Commits, authorityVars
<1> QED BY <1>2, <1>3, <1>5, <1>6, <1>7 DEF Publication!Publish, Asked, Current

LEMMA BeginPublishes ==
  ASSUME IInv, NEW c \in Clients, NEW r \in Runs, Begin(c, r) PROVE Publication!Ask(r)
<1>1. run \in [Runs -> Run]
  BY DEF IInv, DatabaseInv, MemoirTypeOK
<1>2. ~Asked[r].asked /\ \A q \in Runs : Asked[q].asked => Asked[q].done
  <2>1. \A q \in Runs : run[q].state \in {"none", "completed", "stale"}
    BY <1>1 DEF Begin, NoUnfinishedRun, Run
  <2> QED BY <2>1 DEF Asked, Begin
<1>3. Asked' = [Asked EXCEPT ![r].asked = TRUE]
  <2>1. run'[r].state = "pending" /\ run[r].state = "none" /\ \A q \in Runs : q # r => run'[q] = run[q]
    BY <1>1 DEF Begin
  <2>2. Asked'[r] = [Asked[r] EXCEPT !.asked = TRUE]
    <3>1. Asked[r] = [asked |-> FALSE, done |-> FALSE]
      BY <2>1, AskedIs
    <3>2. Asked'[r] = [asked |-> TRUE, done |-> FALSE]
      BY <2>1, AskedIs
    <3> DEFINE t == TRUE
               f == FALSE
    <3>3. [[asked |-> f, done |-> f] EXCEPT !.asked = t] = [asked |-> t, done |-> f]
      <4> HIDE DEF t, f
      <4> QED OBVIOUS
    <3> QED BY <3>1, <3>2, <3>3, Zenon
  <2>3. \A q \in Runs : q # r => Asked'[q] = Asked[q]
    BY <2>1 DEF Asked
  <2> QED BY <2>2, <2>3 DEF Asked
<1>4. UNCHANGED <<authority, head, edition>>
  BY DEF Begin, authorityVars
<1> QED BY <1>2, <1>3, <1>4 DEF Publication!Ask, Asked, Current

LEMMA StutterPublishes ==
  ASSUME IInv, UNCHANGED <<authority, edition>>, head'.revision = head.revision,
         head'.edition = head.edition, Asked' = Asked
  PROVE  UNCHANGED Publication!pubVars
BY DEF Publication!pubVars, Asked, Current

\* What the owner sees is the abstract publication: every step of workers,
\* late requests, clients and writers is one of its steps or none.
THEOREM Implementation == Spec => ImplementsPublication
<1>1. Init => Publication!Init
  BY InitPublishes
<1>2. IInv /\ [Next]_vars => [Publication!Next]_(Publication!pubVars)
  <2>1. SUFFICES ASSUME IInv, [Next]_vars PROVE Publication!Next \/ UNCHANGED Publication!pubVars
    OBVIOUS
  <2>2. head \in Head
    BY <2>1 DEF IInv, DatabaseInv, MemoirTypeOK
  <2>3. CASE Moves
    BY <2>1, <2>3, MovesPublishes DEF Publication!Next
  <2>4. ASSUME NEW r \in Runs, Commits(r) PROVE Publication!Next
    BY <2>1, <2>4, CommitsPublishes DEF Publication!Next
  <2>5. ASSUME NEW c \in Clients, NEW r \in Runs, Begin(c, r) PROVE Publication!Next
    BY <2>1, <2>5, BeginPublishes DEF Publication!Next
  <2>6. ASSUME NEW c \in Clients, NEW r \in Runs, NEW decision \in {"active", "revoked"},
               SetConsent(c, r, decision)
        PROVE  UNCHANGED Publication!pubVars
    <3>1. head' = [head EXCEPT !.consent = head.consent + 1] /\ UNCHANGED <<authority, edition, run>>
      BY <2>6 DEF SetConsent, DecidedRevision, authorityVars
    <3>2. head'.revision = head.revision /\ head'.edition = head.edition
      BY <2>2, <3>1 DEF Head
    <3>3. Asked' = Asked
      BY <3>1 DEF Asked
    <3> QED BY <2>1, <3>1, <3>2, <3>3, StutterPublishes
  <2>7. ASSUME Quiet PROVE UNCHANGED Publication!pubVars
    <3>1. Asked' = Asked
      BY <2>7 DEF Quiet, Asked
    <3> QED BY <2>1, <2>7, <3>1, StutterPublishes DEF Quiet
  <2> QED BY <2>1, <2>3, <2>4, <2>5, <2>6, <2>7, StepKinds
<1> QED BY <1>1, <1>2, Invariance, PTL DEF Spec, ImplementsPublication, Publication!Spec
=============================================================================
