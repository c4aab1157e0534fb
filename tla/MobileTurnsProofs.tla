------------------------- MODULE MobileTurnsProofs -------------------------
(***************************************************************************)
(* For any turns, transmissions and faults: the safety properties of       *)
(* MobileTurns are invariants of its specification.  The inductive         *)
(* invariant says, of each turn, what its row, its one run, its enqueue    *)
(* and its discard may be together, and that only one enqueue is about to  *)
(* store a row, when no other row is pending.                              *)
(***************************************************************************)
EXTENDS MobileTurns, TLAPS

Rows == Row \cup {NoRow}
Open(row) == row.state \in {"queued", "sending", "unsettled"}
Untried(row) == row.state = "queued" /\ row.attempts = 0

\* A run: before it transmits it works on a row that is pending; it commits
\* what is saved; a transmission is counted and fresh.
RunOK(t, row, run, p, n, A, S, Q, src) ==
  /\ t \in Q
  /\ run.pc \in {"list", "receipt", "put"} => run.commit = "none"
  /\ run.pc \in {"receipt", "put"} => Open(row)
  /\ run.pc = "stream" /\ run.commit = "none" => Open(row)
  /\ run.pc \in {"receipt", "put", "stream"} => Open(run.item)
  /\ run.pc = "put" => Open(run.next)
  /\ run.commit = "put" => Open(row) /\ run.item.state # "none"
  /\ run.commit = "delete" => t \in A
  /\ run.commit # "none" => run.committed
  /\ run.committed \/ run.answer = "saved" => t \in S
  /\ run.item.attempts <= n /\ run.next.attempts <= n
  /\ run.mode # "check" /\ run.pc \in {"list", "receipt"} =>
       row.attempts < n /\ p < n /\ run.item.attempts < n
  /\ run.pc = "put" /\ run.next.state = "sending" =>
       p < n /\ run.mode # "check" /\ ~run.stale /\ run.next.attempts # 0
  /\ run.pc = "receipt" /\ Untried(run.item) => p = 0
  /\ run.pc = "put" /\ Untried(run.next) => p = 0
  /\ run.answer = "unsaved" => ~run.stale
  /\ run.stale => t \in S \/ src = "changed"

\* A turn, with its row, run, enqueue, discard, life, transmissions and source.
TurnOK(t, row, run, e, d, m, p, src, n, A, D, S, Q, E) ==
  /\ row.attempts <= n /\ p <= n
  /\ run # Idle => RunOK(t, row, run, p, n, A, S, Q, src)
  /\ e # "no" => m # "unused"
  /\ e = "putting" => row.state = "none" /\ t \notin A /\ t \notin Q
  /\ d # "no" => t \in D /\ m # "unused"
  /\ d = "deleting" => e = "no" /\ run = Idle
  /\ t \in A => t \in S /\ ~Open(row)
  /\ row.state = "committed" => t \in S
  /\ t \in Q => m # "unused" /\ (row.state # "none" \/ t \in S \/ t \in E)
  /\ t \in Q /\ row.state = "none" => t \in A \/ (e = "no" /\ (m = "past" \/ t \in D))
  /\ t \notin Q => p = 0 /\ row.state = "none"
  /\ t \in E => row.state = "none" /\ e = "no" /\ m # "unused" /\ (m = "past" \/ t \in D)
  /\ p = 0 => t \notin S /\ src = "none"
  /\ Untried(row) => p = 0

EveryTurnOK ==
  \A t \in Turns : TurnOK(t, outbox[t], running[t], enqueuing[t], discarding[t], minted[t],
                          posts[t], source[t], sends, acknowledged, discarded, saved, queued,
                          erased)

\* Only one row is pending or about to be.
OneAtATime ==
  /\ \A t, u \in Turns : Open(outbox[t]) /\ Open(outbox[u]) => t = u
  /\ \A t, u \in Turns : enqueuing[t] = "putting" => ~Open(outbox[u])
  /\ \A t, u \in Turns : enqueuing[t] = "putting" /\ enqueuing[u] = "putting" => t = u

IInv == TypeOK /\ EveryTurnOK /\ OneAtATime

-----------------------------------------------------------------------------
(* Rows and the records a step of a run writes.                            *)

LEMMA RowFacts ==
  ASSUME NEW row \in Rows
  PROVE  /\ row = NoRow <=> row.state = "none"
         /\ Uncommitted(row) <=> Open(row)
         /\ row \in Row <=> row.state # "none"
         /\ row.state \in RowStates \cup {"none"}
         /\ row.attempts \in 0..MaxSends /\ row.wait \in BOOLEAN
<1>1. CASE row = NoRow
  <2>1. row.state = "none" /\ row.attempts = 0 /\ row.wait = FALSE
    BY <1>1 DEF NoRow
  <2>2. row \notin Row
    BY <2>1 DEF Row, RowStates
  <2>3. 0 \in 0..MaxSends
    BY BoundsAssumption
  <2>4. ~Uncommitted(row) /\ ~Open(row)
    BY <1>1, <2>1 DEF Uncommitted, Open
  <2> QED  BY <1>1, <2>1, <2>2, <2>3, <2>4
<1>2. CASE row \in Row
  <2>1. row.state \in RowStates /\ row.attempts \in 0..MaxSends /\ row.wait \in BOOLEAN
    BY <1>2 DEF Row
  <2>2. row.state # "none"
    BY <2>1 DEF RowStates
  <2>3. row # NoRow
    BY <2>2 DEF NoRow
  <2>4. Uncommitted(row) <=> Open(row)
    BY <2>1, <2>3 DEF Uncommitted, Open, RowStates
  <2> QED  BY <1>2, <2>1, <2>2, <2>3, <2>4
<1> QED  BY <1>1, <1>2 DEF Rows

LEMMA IdleIsNoRun == Idle \notin Run
  BY DEF Idle, Run

LEMMA OverRecord ==
  ASSUME NEW run \in Run
  PROVE  LET x == Over(run) IN
         /\ x \in Run
         /\ x.pc = "finish" /\ x.mode = run.mode /\ x.commit = run.commit
         /\ x.committed = run.committed /\ x.stale = run.stale /\ x.answer = "none"
         /\ x.next = NoRow
         /\ x.item = IF run.commit = "none" THEN NoRow ELSE run.item
  BY DEF Over, Run, NoRow

LEMMA PutRecord ==
  ASSUME NEW run \in Run, NEW next \in Row
  PROVE  LET x == [run EXCEPT !.pc = "put", !.next = next, !.answer = "none"] IN
         /\ x \in Run
         /\ x.pc = "put" /\ x.mode = run.mode /\ x.commit = run.commit
         /\ x.committed = run.committed /\ x.stale = run.stale /\ x.answer = "none"
         /\ x.next = next /\ x.item = run.item
  BY DEF Run

LEMMA CommittingRecord ==
  ASSUME NEW t \in Turns, NEW run \in Run
  PROVE  LET x == Committing(t, run) IN
         /\ x \in Run
         /\ x.pc = run.pc /\ x.mode = run.mode /\ x.committed /\ x.stale = run.stale
         /\ x.answer = run.answer /\ x.next = run.next /\ x.item = run.item
         /\ x.commit \in {run.commit, "put"} /\ (x.commit # run.commit => run.commit = "none")
  BY DEF Committing, Run

-----------------------------------------------------------------------------
(* Steps of one turn.                                                      *)

\* Every turn but t, whose row, run and the rest are as they were, is as it
\* was, also when t enters a set and more runs are counted.
LEMMA OthersStay ==
  ASSUME NEW u \in Turns, NEW row \in Rows, NEW run \in Run \cup {Idle}, NEW e, NEW d, NEW m,
         NEW p \in Nat, NEW src, NEW n \in Nat, NEW n2 \in Nat, n <= n2,
         NEW A, NEW D, NEW S, NEW Q, NEW E, NEW A2, NEW D2, NEW S2, NEW Q2, NEW E2,
         u \in A2 <=> u \in A, u \in D2 <=> u \in D, u \in S2 <=> u \in S,
         u \in Q2 <=> u \in Q, u \in E2 <=> u \in E,
         TurnOK(u, row, run, e, d, m, p, src, n, A, D, S, Q, E)
  PROVE  TurnOK(u, row, run, e, d, m, p, src, n2, A2, D2, S2, Q2, E2)
<1>1. row.attempts \in Nat
  BY RowFacts, BoundsAssumption
<1>2. ASSUME run # Idle PROVE RunOK(u, row, run, p, n2, A2, S2, Q2, src)
  <2>1. run \in Run
    BY <1>2
  <2>2. run.item \in Rows /\ run.next \in Rows
    BY <2>1 DEF Run, Rows
  <2>3. run.item.attempts \in Nat /\ run.next.attempts \in Nat
    BY <2>2, RowFacts, BoundsAssumption
  <2>4. RunOK(u, row, run, p, n, A, S, Q, src)
    BY <1>2 DEF TurnOK
  <2>5. /\ run.item.attempts <= n2 /\ run.next.attempts <= n2
        /\ row.attempts < n => row.attempts < n2
        /\ p < n => p < n2
        /\ run.item.attempts < n => run.item.attempts < n2
    BY <1>1, <2>3, <2>4 DEF RunOK
  <2> QED  BY <2>4, <2>5 DEF RunOK
<1>3. row.attempts <= n2 /\ p <= n2
  BY <1>1 DEF TurnOK
<1> QED  BY <1>2, <1>3 DEF TurnOK

\* A step of turn t gives it the values named, and may let it enter sets.
Becomes(t, row, run, e, d, m, p, src) ==
  /\ row \in Rows /\ run \in Run \cup {Idle}
  /\ e \in {"no", "waiting", "putting"} /\ d \in {"no", "waiting", "deleting"}
  /\ m \in {"unused", "current", "past"} /\ p \in 0..MaxSends
  /\ src \in {"none", "accepted", "changed"}
  /\ outbox' = [outbox EXCEPT ![t] = row] /\ running' = [running EXCEPT ![t] = run]
  /\ enqueuing' = [enqueuing EXCEPT ![t] = e] /\ discarding' = [discarding EXCEPT ![t] = d]
  /\ minted' = [minted EXCEPT ![t] = m] /\ posts' = [posts EXCEPT ![t] = p]
  /\ source' = [source EXCEPT ![t] = src]

Grows(t) ==
  /\ acknowledged' \in {acknowledged, acknowledged \cup {t}}
  /\ discarded' \in {discarded, discarded \cup {t}}
  /\ saved' \in {saved, saved \cup {t}}
  /\ queued' \in {queued, queued \cup {t}}
  /\ erased' \in {erased, erased \cup {t}}
  /\ sends' \in 0..MaxSends /\ sends <= sends' /\ faults' \in 0..MaxFaults

OKAfter(t, row, run, e, d, m, p, src) ==
  TurnOK(t, row, run, e, d, m, p, src, sends', acknowledged', discarded', saved', queued', erased')

\* The row is pending only if it was, or was about to be; and it is about to
\* be only when no other is.
TakesItsTurn(t, row, e) ==
  /\ Open(row) => Open(outbox[t]) \/ enqueuing[t] = "putting"
  /\ e = "putting" => \/ enqueuing[t] = "putting"
                      \/ \A u \in Turns : ~Open(outbox[u]) /\ (u # t => enqueuing[u] # "putting")

LEMMA TurnStep ==
  ASSUME IInv, NEW t \in Turns, NEW row, NEW run, NEW e, NEW d, NEW m, NEW p, NEW src,
         Becomes(t, row, run, e, d, m, p, src), Grows(t), TakesItsTurn(t, row, e),
         OKAfter(t, row, run, e, d, m, p, src)
  PROVE  IInv'
<1> USE DEF IInv, Becomes, Grows, TakesItsTurn, OKAfter
<1>1. TypeOK'
  BY DEF TypeOK, Rows
<1>2. EveryTurnOK'
  <2> SUFFICES ASSUME NEW u \in Turns
               PROVE  TurnOK(u, outbox'[u], running'[u], enqueuing'[u], discarding'[u], minted'[u],
                             posts'[u], source'[u], sends', acknowledged', discarded', saved',
                             queued', erased')
    BY DEF EveryTurnOK
  <2>1. CASE u = t
    <3>1. /\ outbox'[t] = row /\ running'[t] = run /\ enqueuing'[t] = e /\ discarding'[t] = d
          /\ minted'[t] = m /\ posts'[t] = p /\ source'[t] = src
      BY DEF TypeOK
    <3> QED  BY <2>1, <3>1
  <2>2. CASE u # t
    <3>1. /\ outbox'[u] = outbox[u] /\ running'[u] = running[u] /\ enqueuing'[u] = enqueuing[u]
          /\ discarding'[u] = discarding[u] /\ minted'[u] = minted[u] /\ posts'[u] = posts[u]
          /\ source'[u] = source[u]
      BY <2>2 DEF TypeOK
    <3>2. /\ u \in acknowledged' <=> u \in acknowledged
          /\ u \in discarded' <=> u \in discarded
          /\ u \in saved' <=> u \in saved
          /\ u \in queued' <=> u \in queued
          /\ u \in erased' <=> u \in erased
      BY <2>2
    <3>3. TurnOK(u, outbox[u], running[u], enqueuing[u], discarding[u], minted[u], posts[u],
                 source[u], sends, acknowledged, discarded, saved, queued, erased)
      BY DEF EveryTurnOK
    <3>4. /\ outbox[u] \in Rows /\ running[u] \in Run \cup {Idle} /\ posts[u] \in Nat
          /\ sends \in Nat /\ sends' \in Nat /\ sends <= sends'
      BY BoundsAssumption DEF TypeOK, Rows
    <3> HIDE DEF IInv, Becomes, Grows, TakesItsTurn, OKAfter
    <3>5. TurnOK(u, outbox[u], running[u], enqueuing[u], discarding[u], minted[u], posts[u],
                 source[u], sends', acknowledged', discarded', saved', queued', erased')
      BY <3>2, <3>3, <3>4, OthersStay
    <3> QED  BY <3>1, <3>5
  <2> QED  BY <2>1, <2>2
<1>3. OneAtATime'
  <2>1. \A u \in Turns : outbox'[u] = IF u = t THEN row ELSE outbox[u]
    BY DEF TypeOK
  <2>2. \A u \in Turns : enqueuing'[u] = IF u = t THEN e ELSE enqueuing[u]
    BY DEF TypeOK
  <2>3. e = "putting" => ~Open(row)
    BY DEF TurnOK, Open
  <2>4. \A u \in Turns : Open(outbox'[u]) => Open(outbox[u]) \/ (u = t /\ enqueuing[t] = "putting")
    BY <2>1
  <2>5. ASSUME NEW u \in Turns, NEW v \in Turns, Open(outbox'[u]), Open(outbox'[v]) PROVE u = v
    BY <2>4, <2>5 DEF OneAtATime
  <2>6. ASSUME NEW u \in Turns, NEW v \in Turns, enqueuing'[u] = "putting", Open(outbox'[v])
        PROVE  FALSE
    <3>1. CASE u = t
      <4>1. e = "putting" /\ v # t
        BY <2>1, <2>2, <2>3, <2>6, <3>1
      <4>2. Open(outbox[v])
        BY <2>4, <2>6, <4>1
      <4> QED  BY <4>1, <4>2 DEF OneAtATime
    <3>2. CASE u # t
      <4>1. enqueuing[u] = "putting"
        BY <2>2, <2>6, <3>2
      <4> QED  BY <2>4, <2>6, <3>2, <4>1 DEF OneAtATime
    <3> QED  BY <3>1, <3>2
  <2>7. ASSUME NEW u \in Turns, NEW v \in Turns, enqueuing'[u] = "putting",
               enqueuing'[v] = "putting"
        PROVE  u = v
    BY <2>2, <2>7 DEF OneAtATime
  <2> QED  BY <2>5, <2>6, <2>7 DEF OneAtATime
<1> QED  BY <1>1, <1>2, <1>3

\* A step that changes nothing but the run there is of turn t (or a fault).
LEMMA StepOfRun ==
  ASSUME IInv, NEW t \in Turns, running[t] # Idle, NEW x \in Run \cup {Idle},
         running' = [running EXCEPT ![t] = x],
         UNCHANGED <<outbox, controller, enqueuing, discarding, server, history, sends>>,
         faults' \in 0..MaxFaults,
         x # Idle => RunOK(t, outbox[t], x, posts[t], sends, acknowledged, saved, queued, source[t])
  PROVE  IInv'
<1> DEFINE row == outbox[t]  e == enqueuing[t]  d == discarding[t]  m == minted[t]
           p == posts[t]  src == source[t]
<1>1. TypeOK
  BY DEF IInv
<1>2. Becomes(t, row, x, e, d, m, p, src)
  BY <1>1 DEF Becomes, TypeOK, Rows, controller, server, history
<1>3. Grows(t)
  BY <1>1, BoundsAssumption DEF Grows, TypeOK, controller, server, history
<1>4. TurnOK(t, row, running[t], e, d, m, p, src, sends, acknowledged, discarded, saved, queued,
             erased)
  BY DEF IInv, EveryTurnOK
<1>5. OKAfter(t, row, x, e, d, m, p, src)
  BY <1>4 DEF OKAfter, TurnOK, controller, server, history
<1>6. TakesItsTurn(t, row, e)
  BY DEF TakesItsTurn
<1> HIDE DEF row, e, d, m, p, src
<1> QED  BY <1>2, <1>3, <1>5, <1>6, TurnStep

-----------------------------------------------------------------------------
(* What a run may go on to: its end, or a write.                           *)

\* What is so of a run wherever it stands.
Sound(t, row, run, n, A, S, Q, src) ==
  /\ t \in Q
  /\ run.commit = "put" => Open(row) /\ run.item.state # "none"
  /\ run.commit = "delete" => t \in A
  /\ run.commit # "none" => run.committed
  /\ run.committed => t \in S
  /\ run.item.attempts <= n
  /\ run.stale => t \in S \/ src = "changed"

LEMMA OverOK ==
  ASSUME NEW t, NEW row, NEW run \in Run, NEW p, NEW n \in Nat, NEW A, NEW S, NEW Q, NEW src,
         Sound(t, row, run, n, A, S, Q, src)
  PROVE  Over(run) \in Run /\ RunOK(t, row, Over(run), p, n, A, S, Q, src)
<1>1. PICK x : x = Over(run)
  OBVIOUS
<1>2. /\ x \in Run
      /\ x.pc = "finish" /\ x.mode = run.mode /\ x.commit = run.commit
      /\ x.committed = run.committed /\ x.stale = run.stale /\ x.answer = "none"
      /\ x.next = NoRow
      /\ x.item = IF run.commit = "none" THEN NoRow ELSE run.item
  BY <1>1, OverRecord
<1>3. x.item.attempts <= n /\ x.next.attempts <= n
  BY <1>2 DEF Sound, NoRow
<1>4. RunOK(t, row, x, p, n, A, S, Q, src)
  BY <1>2, <1>3 DEF RunOK, Sound
<1> QED  BY <1>1, <1>2, <1>4

\* A row that a write may store for the run.
MayStore(run, next, p, n) ==
  /\ Open(next) /\ next.attempts <= n
  /\ next.state = "sending" => p < n /\ run.mode # "check" /\ ~run.stale /\ next.attempts # 0
  /\ Untried(next) => p = 0

LEMMA PutOK ==
  ASSUME NEW t, NEW row, NEW run \in Run, NEW next \in Row, NEW p, NEW n \in Nat,
         NEW A, NEW S, NEW Q, NEW src,
         Sound(t, row, run, n, A, S, Q, src), Open(row), Open(run.item), run.commit = "none",
         MayStore(run, next, p, n)
  PROVE  LET x == [run EXCEPT !.pc = "put", !.next = next, !.answer = "none"]
         IN  x \in Run /\ RunOK(t, row, x, p, n, A, S, Q, src)
<1>1. PICK x : x = [run EXCEPT !.pc = "put", !.next = next, !.answer = "none"]
  OBVIOUS
<1>2. /\ x \in Run
      /\ x.pc = "put" /\ x.mode = run.mode /\ x.commit = run.commit
      /\ x.committed = run.committed /\ x.stale = run.stale /\ x.answer = "none"
      /\ x.next = next /\ x.item = run.item
  BY <1>1, PutRecord
<1>3. RunOK(t, row, x, p, n, A, S, Q, src)
  BY <1>2 DEF RunOK, Sound, MayStore
<1> QED  BY <1>1, <1>2, <1>3

\* The steps of a run that leave all else as it is (but for a fault).
OnlyItsRun == UNCHANGED <<outbox, controller, enqueuing, discarding, server, history, sends>>

LEMMA LeaveStep ==
  ASSUME IInv, NEW t \in Turns, running[t] # Idle, NEW run \in Run,
         running' = [running EXCEPT ![t] = Over(run)], OnlyItsRun, faults' \in 0..MaxFaults,
         Sound(t, outbox[t], run, sends, acknowledged, saved, queued, source[t])
  PROVE  IInv'
<1>1. sends \in Nat
  BY BoundsAssumption DEF IInv, TypeOK
<1>2. PICK x : x = Over(run)
  OBVIOUS
<1>3. x \in Run
  BY <1>1, <1>2, OverOK
<1>4. RunOK(t, outbox[t], x, posts[t], sends, acknowledged, saved, queued, source[t])
  BY <1>1, <1>2, OverOK
<1> QED  BY <1>2, <1>3, <1>4, StepOfRun DEF OnlyItsRun

LEMMA PersistStep ==
  ASSUME IInv, NEW t \in Turns, running[t] # Idle, NEW run \in Run, NEW next \in Row,
         Persist(t, run, next), OnlyItsRun, faults' \in 0..MaxFaults,
         Sound(t, outbox[t], run, sends, acknowledged, saved, queued, source[t]),
         Open(outbox[t]), Open(run.item), run.commit = "none",
         MayStore(run, next, posts[t], sends)
  PROVE  IInv'
<1>1. sends \in Nat
  BY BoundsAssumption DEF IInv, TypeOK
<1>2. CASE running' = [running EXCEPT ![t] = Over(run)]
  BY <1>2, LeaveStep
<1>3. CASE running' = [running EXCEPT ![t] =
               [run EXCEPT !.pc = "put", !.next = next, !.answer = "none"]]
  <2>1. PICK x : x = [run EXCEPT !.pc = "put", !.next = next, !.answer = "none"]
    OBVIOUS
  <2>2. x \in Run /\ RunOK(t, outbox[t], x, posts[t], sends, acknowledged, saved, queued, source[t])
    BY <1>1, <2>1, PutOK
  <2>3. running' = [running EXCEPT ![t] = x]
    BY <1>3, <2>1
  <2> QED  BY <2>2, <2>3, StepOfRun DEF OnlyItsRun
<1> QED  BY <1>2, <1>3 DEF Persist

\* What the invariant says of the run there is.
LEMMA RunFacts ==
  ASSUME IInv, NEW t \in Turns, running[t] # Idle
  PROVE  /\ running[t] \in Run /\ outbox[t] \in Rows /\ posts[t] \in Nat /\ sends \in 0..MaxSends
         /\ running[t].item \in Rows /\ running[t].next \in Rows
         /\ RunOK(t, outbox[t], running[t], posts[t], sends, acknowledged, saved, queued, source[t])
         /\ Sound(t, outbox[t], running[t], sends, acknowledged, saved, queued, source[t])
<1>1. running[t] \in Run /\ outbox[t] \in Rows /\ posts[t] \in Nat /\ sends \in 0..MaxSends
  BY BoundsAssumption DEF IInv, TypeOK, Rows
<1>2. running[t].item \in Rows /\ running[t].next \in Rows
  BY <1>1 DEF Run, Rows
<1>3. RunOK(t, outbox[t], running[t], posts[t], sends, acknowledged, saved, queued, source[t])
  BY DEF IInv, EveryTurnOK, TurnOK
<1>4. Sound(t, outbox[t], running[t], sends, acknowledged, saved, queued, source[t])
  BY <1>3 DEF RunOK, Sound
<1> QED  BY <1>1, <1>2, <1>3, <1>4

-----------------------------------------------------------------------------
(* The steps of a run that write nothing.                                  *)

LEMMA ReadReceiptStep ==
  ASSUME IInv, NEW t \in Turns, ReadReceipt(t)
  PROVE  IInv'
<1>1. running[t] # Idle /\ running[t].pc = "receipt"
  BY DEF ReadReceipt, At, Running
<1>2. PICK x : x = [running[t] EXCEPT !.answer = Receipt(t)]
  OBVIOUS
<1>3. /\ Receipt(t) \in {"saved", "changed", "unsaved"}
      /\ Receipt(t) = "saved" => t \in saved
      /\ Receipt(t) = "unsaved" => t \notin saved /\ source[t] # "changed"
  BY DEF Receipt
<1>4. /\ x \in Run /\ x.pc = "receipt" /\ x.mode = running[t].mode /\ x.item = running[t].item
      /\ x.next = running[t].next /\ x.commit = running[t].commit
      /\ x.committed = running[t].committed /\ x.stale = running[t].stale /\ x.answer = Receipt(t)
  BY <1>1, <1>2, <1>3, RunFacts DEF Run
<1>5. RunOK(t, outbox[t], x, posts[t], sends, acknowledged, saved, queued, source[t])
  BY <1>1, <1>3, <1>4, RunFacts DEF RunOK
<1>6. faults' \in 0..MaxFaults
  BY DEF ReadReceipt, bounds, IInv, TypeOK
<1>7. running' = [running EXCEPT ![t] = x]
  BY <1>2 DEF ReadReceipt
<1> QED  BY <1>1, <1>4, <1>5, <1>6, <1>7, StepOfRun DEF ReadReceipt, bounds

\* A run with its end or the next write of an unsaved turn.
LEMMA EndsUnsavedStep ==
  ASSUME IInv, NEW t \in Turns, running[t] # Idle, NEW wait \in BOOLEAN, NEW caught \in BOOLEAN,
         EndsUnsaved(t, wait, caught), OnlyItsRun, faults' \in 0..MaxFaults,
         running[t].pc \in {"receipt", "put", "stream"}, running[t].commit = "none"
  PROVE  IInv'
<1>1. PICK run : run = [running[t] EXCEPT !.caught = caught]
  OBVIOUS
<1>2. /\ run \in Run /\ run.pc = running[t].pc /\ run.mode = running[t].mode
      /\ run.item = running[t].item /\ run.commit = "none" /\ run.stale = running[t].stale
      /\ run.committed = running[t].committed
  BY <1>1, RunFacts DEF Run
<1>3. PICK next : next = [run.item EXCEPT !.state = "unsettled", !.wait = wait]
  OBVIOUS
<1>4. Open(outbox[t]) /\ Open(run.item)
  BY <1>2, RunFacts DEF RunOK
<1>5. run.item \in Row
  BY <1>2, <1>4, RunFacts, RowFacts DEF Open
<1>6. next \in Row /\ next.state = "unsettled" /\ next.attempts = run.item.attempts
  BY <1>3, <1>5 DEF Row, RowStates
<1>7. Sound(t, outbox[t], run, sends, acknowledged, saved, queued, source[t])
  BY <1>2, RunFacts DEF Sound
<1>8. MayStore(run, next, posts[t], sends)
  BY <1>6, <1>7 DEF MayStore, Open, Untried, Sound
<1>9. Persist(t, run, next)
  BY <1>1, <1>3 DEF EndsUnsaved
<1> QED  BY <1>2, <1>4, <1>6, <1>7, <1>8, <1>9, PersistStep

LEMMA ReceiptFailsStep ==
  ASSUME IInv, NEW t \in Turns, NEW wait \in BOOLEAN, ReceiptFails(t, wait)
  PROVE  IInv'
<1>1. running[t] # Idle /\ running[t].pc = "receipt"
  BY DEF ReceiptFails, At, Running
<1>2. running[t].commit = "none"
  BY <1>1, RunFacts DEF RunOK
<1>3. faults' \in 0..MaxFaults /\ OnlyItsRun
  BY DEF ReceiptFails, bounds, OnlyItsRun, IInv, TypeOK
<1> QED  BY <1>1, <1>2, <1>3, EndsUnsavedStep DEF ReceiptFails

LEMMA StreamEndsStep ==
  ASSUME IInv, NEW t \in Turns, NEW wait \in BOOLEAN, NEW caught \in BOOLEAN,
         StreamEnds(t, wait, caught)
  PROVE  IInv'
<1>1. running[t] # Idle /\ running[t].pc = "stream"
  BY DEF StreamEnds, At, Running
<1>2. faults' \in 0..MaxFaults /\ OnlyItsRun
  BY DEF StreamEnds, bounds, OnlyItsRun, IInv, TypeOK
<1>3. CASE running[t].committed
  <2>1. PICK x : x = Committing(t, running[t])
    OBVIOUS
  <2>2. /\ x \in Run /\ x.committed /\ x.stale = running[t].stale /\ x.item = running[t].item
        /\ x.commit \in {running[t].commit, "put"}
        /\ (x.commit # running[t].commit => running[t].commit = "none")
    BY <1>1, <2>1, RunFacts, CommittingRecord
  <2>3. x.commit = "put" => Open(outbox[t]) /\ x.item.state # "none"
    BY <1>1, <2>2, RunFacts DEF RunOK, Open
  <2>4. Sound(t, outbox[t], x, sends, acknowledged, saved, queued, source[t])
    BY <1>1, <1>3, <2>2, <2>3, RunFacts DEF Sound
  <2>5. running' = [running EXCEPT ![t] = Over(x)]
    BY <1>3, <2>1 DEF StreamEnds
  <2> QED  BY <1>1, <1>2, <2>2, <2>4, <2>5, LeaveStep
<1>4. CASE ~running[t].committed
  <2>1. running[t].commit = "none"
    BY <1>1, <1>4, RunFacts DEF RunOK
  <2>2. EndsUnsaved(t, wait, caught)
    BY <1>4 DEF StreamEnds
  <2> QED  BY <1>1, <1>2, <2>1, <2>2, EndsUnsavedStep
<1> QED  BY <1>3, <1>4

LEMMA PutRowFailsStep ==
  ASSUME IInv, NEW t \in Turns, PutRowFails(t)
  PROVE  IInv'
<1>1. running[t] # Idle /\ running[t].pc = "put"
  BY DEF PutRowFails, At, Running
<1>2. running[t].commit = "none"
  BY <1>1, RunFacts DEF RunOK
<1>3. OnlyItsRun
  BY DEF PutRowFails, OnlyItsRun
<1>4. faults' \in 0..MaxFaults
  BY BoundsAssumption DEF PutRowFails, IInv, TypeOK
<1>5. CASE running' = [running EXCEPT ![t] = Over(running[t])]
  BY <1>1, <1>3, <1>4, <1>5, RunFacts, LeaveStep
<1>6. CASE EndsUnsaved(t, FALSE, TRUE)
  BY <1>1, <1>2, <1>3, <1>4, <1>6, EndsUnsavedStep
<1> QED  BY <1>5, <1>6 DEF PutRowFails, Leave

LEMMA SavedEventStep ==
  ASSUME IInv, NEW t \in Turns, SavedEvent(t)
  PROVE  IInv'
<1>1. running[t] # Idle /\ running[t].pc = "stream" /\ t \in saved
  BY DEF SavedEvent, At, Running
<1>2. PICK x : x = Committing(t, running[t])
  OBVIOUS
<1>3. /\ x \in Run /\ x.pc = "stream" /\ x.mode = running[t].mode /\ x.committed
      /\ x.stale = running[t].stale /\ x.answer = running[t].answer /\ x.next = running[t].next
      /\ x.item = running[t].item /\ x.commit \in {running[t].commit, "put"}
      /\ (x.commit # running[t].commit => running[t].commit = "none")
  BY <1>1, <1>2, RunFacts, CommittingRecord
<1>4. x.commit = "put" => Open(outbox[t]) /\ x.item.state # "none"
  BY <1>1, <1>3, RunFacts DEF RunOK, Open
<1>5. x.commit = "none" => running[t].commit = "none"
  BY <1>3
<1>6. RunOK(t, outbox[t], x, posts[t], sends, acknowledged, saved, queued, source[t])
  BY <1>1, <1>3, <1>4, <1>5, RunFacts DEF RunOK
<1>7. faults' \in 0..MaxFaults
  BY DEF SavedEvent, bounds, IInv, TypeOK
<1>8. running' = [running EXCEPT ![t] = x]
  BY <1>2 DEF SavedEvent
<1> QED  BY <1>1, <1>3, <1>6, <1>7, <1>8, StepOfRun DEF SavedEvent, bounds

LEMMA CommitFailsStep ==
  ASSUME IInv, NEW t \in Turns, CommitFails(t)
  PROVE  IInv'
<1>1. running[t] # Idle /\ running[t].commit \in {"put", "delete"}
  BY DEF CommitFails, Running
<1>2. PICK x : x = [running[t] EXCEPT !.commit = "done"]
  OBVIOUS
<1>3. /\ x \in Run /\ x.pc = running[t].pc /\ x.mode = running[t].mode
      /\ x.committed = running[t].committed /\ x.stale = running[t].stale
      /\ x.answer = running[t].answer /\ x.next = running[t].next /\ x.item = running[t].item
      /\ x.commit = "done"
  BY <1>1, <1>2, RunFacts DEF Run
<1>4. RunOK(t, outbox[t], x, posts[t], sends, acknowledged, saved, queued, source[t])
  BY <1>1, <1>3, RunFacts DEF RunOK
<1>5. faults' \in 0..MaxFaults
  BY BoundsAssumption DEF CommitFails, IInv, TypeOK
<1>6. running' = [running EXCEPT ![t] = x]
  BY <1>2 DEF CommitFails
<1> QED  BY <1>1, <1>3, <1>4, <1>5, <1>6, StepOfRun DEF CommitFails

LEMMA FinishStep ==
  ASSUME IInv, NEW t \in Turns, Finish(t)
  PROVE  IInv'
<1>1. running[t] # Idle /\ running' = [running EXCEPT ![t] = Idle] /\ Idle \in Run \cup {Idle}
  BY DEF Finish, At, Running
<1>2. faults' \in 0..MaxFaults
  BY DEF Finish, bounds, IInv, TypeOK
<1> QED  BY <1>1, <1>2, StepOfRun DEF Finish, bounds

LEMMA CancelStep ==
  ASSUME IInv, NEW t \in Turns, Cancel(t)
  PROVE  IInv'
<1>1. running[t] # Idle
  BY DEF Cancel, Running
<1>2. PICK x : x = [running[t] EXCEPT !.aborted = TRUE]
  OBVIOUS
<1>3. /\ x \in Run /\ x.pc = running[t].pc /\ x.mode = running[t].mode
      /\ x.committed = running[t].committed /\ x.stale = running[t].stale
      /\ x.answer = running[t].answer /\ x.next = running[t].next /\ x.item = running[t].item
      /\ x.commit = running[t].commit
  BY <1>1, <1>2, RunFacts DEF Run
<1>4. RunOK(t, outbox[t], x, posts[t], sends, acknowledged, saved, queued, source[t])
  BY <1>1, <1>3, RunFacts DEF RunOK
<1>5. faults' \in 0..MaxFaults
  BY BoundsAssumption DEF Cancel, IInv, TypeOK
<1>6. running' = [running EXCEPT ![t] = x]
  BY <1>2 DEF Cancel
<1> QED  BY <1>1, <1>3, <1>4, <1>5, <1>6, StepOfRun DEF Cancel

\* The record of the write that precedes a transmission.
LEMMA SendingRecord ==
  ASSUME NEW row \in Rows, NEW n \in 0..MaxSends, row.attempts < n
  PROVE  /\ Sending(row) \in Row /\ Sending(row).state = "sending"
         /\ Sending(row).attempts <= n /\ Sending(row).attempts # 0
<1>1. row.attempts \in Nat /\ row.attempts + 1 \in 0..MaxSends
  BY RowFacts, BoundsAssumption
<1>2. PICK w \in Nat : w = row.attempts + 1
  BY <1>1
<1>3. Sending(row) = [state |-> "sending", attempts |-> w, wait |-> FALSE]
  BY <1>2 DEF Sending
<1>4. w \in 0..MaxSends /\ w <= n /\ w # 0
  BY <1>1, <1>2
<1> QED  BY <1>3, <1>4 DEF Row, RowStates

LEMMA ReceiptArrivesStep ==
  ASSUME IInv, NEW t \in Turns, ReceiptArrives(t)
  PROVE  IInv'
<1> DEFINE run == running[t]
<1>1. run # Idle /\ run.pc = "receipt" /\ run.answer # "none"
  BY DEF ReceiptArrives, At, Running
<1>2. /\ run \in Run /\ outbox[t] \in Rows /\ posts[t] \in Nat /\ sends \in 0..MaxSends
      /\ run.item \in Rows
      /\ RunOK(t, outbox[t], run, posts[t], sends, acknowledged, saved, queued, source[t])
      /\ Sound(t, outbox[t], run, sends, acknowledged, saved, queued, source[t])
  BY <1>1, RunFacts
<1>3. OnlyItsRun
  BY DEF ReceiptArrives, OnlyItsRun, bounds
<1>4. faults' \in 0..MaxFaults
  BY DEF ReceiptArrives, bounds, IInv, TypeOK
<1>5. Open(outbox[t]) /\ Open(run.item) /\ run.commit = "none"
  BY <1>1, <1>2 DEF RunOK
<1>6. run.item \in Row /\ run.item.attempts \in 0..MaxSends /\ run.item.state \in RowStates
  BY <1>2, <1>5, RowFacts DEF Open, Row
<1> HIDE DEF run
<1>7. CASE running' = [running EXCEPT ![t] = Over(run)]
  BY <1>1, <1>2, <1>3, <1>4, <1>7, LeaveStep DEF run
<1>8. CASE run.answer = "saved" /\ running' = [running EXCEPT ![t] = Over(Committing(t, run))]
  <2>1. PICK x : x = Committing(t, run)
    OBVIOUS
  <2>2. /\ x \in Run /\ x.committed /\ x.stale = run.stale /\ x.item = run.item
        /\ x.commit \in {run.commit, "put"}
    BY <1>2, <2>1, CommittingRecord
  <2>3. Sound(t, outbox[t], x, sends, acknowledged, saved, queued, source[t])
    BY <1>2, <1>5, <1>8, <2>2 DEF Sound, RunOK, Open
  <2> QED  BY <1>1, <1>3, <1>4, <1>8, <2>1, <2>2, <2>3, LeaveStep DEF run
<1>9. ASSUME NEW next \in Row, Persist(t, run, next), MayStore(run, next, posts[t], sends)
      PROVE  IInv'
  BY <1>1, <1>2, <1>3, <1>4, <1>5, <1>9, PersistStep DEF run
<1>10. CASE Persist(t, run, [run.item EXCEPT !.state = "unsettled", !.wait = FALSE])
  <2>1. PICK next : next = [run.item EXCEPT !.state = "unsettled", !.wait = FALSE]
    OBVIOUS
  <2>2. next \in Row /\ next.state = "unsettled" /\ next.attempts = run.item.attempts
    BY <1>6, <2>1 DEF Row, RowStates
  <2>3. MayStore(run, next, posts[t], sends)
    BY <1>2, <2>2 DEF MayStore, Open, Untried, Sound
  <2> QED  BY <1>9, <1>10, <2>1, <2>2, <2>3
<1>11. CASE Persist(t, run, [run.item EXCEPT !.state =
               IF run.item.attempts = 0 /\ run.item.state = "queued" THEN "queued" ELSE "unsettled"])
  <2>1. PICK s \in {"queued", "unsettled"} :
          s = IF run.item.attempts = 0 /\ run.item.state = "queued" THEN "queued" ELSE "unsettled"
    OBVIOUS
  <2>2. PICK next : next = [run.item EXCEPT !.state = s]
    OBVIOUS
  <2>3. next \in Row /\ next.state = s /\ next.attempts = run.item.attempts
    BY <1>6, <2>2 DEF Row, RowStates
  <2>4. Untried(next) => Untried(run.item)
    BY <2>1, <2>3 DEF Untried
  <2>5. MayStore(run, next, posts[t], sends)
    BY <1>1, <1>2, <2>3, <2>4 DEF MayStore, Open, Sound, RunOK
  <2> QED  BY <1>9, <1>11, <2>1, <2>2, <2>3, <2>5
<1>12. CASE /\ run.answer = "unsaved" /\ run.mode # "check"
            /\ Persist(t, run, Sending(run.item))
  <2>1. run.item.attempts < sends /\ posts[t] < sends /\ ~run.stale
    BY <1>1, <1>2, <1>12 DEF RunOK
  <2>2. PICK next : next = Sending(run.item)
    OBVIOUS
  <2>3. next \in Row /\ next.state = "sending" /\ next.attempts <= sends /\ next.attempts # 0
    BY <1>2, <2>1, <2>2, SendingRecord
  <2>4. MayStore(run, next, posts[t], sends)
    BY <1>12, <2>1, <2>3 DEF MayStore, Open, Untried
  <2> QED  BY <1>9, <1>12, <2>2, <2>3, <2>4
<1> QED  BY <1>7, <1>8, <1>10, <1>11, <1>12 DEF ReceiptArrives, Leave, run

LEMMA ListRowStep ==
  ASSUME IInv, NEW t \in Turns, ListRow(t)
  PROVE  IInv'
<1> DEFINE row == outbox[t]
<1>1. running[t] # Idle /\ running[t].pc = "list"
  BY DEF ListRow, At, Running
<1>2. /\ running[t] \in Run /\ row \in Rows /\ posts[t] \in Nat /\ sends \in 0..MaxSends
      /\ RunOK(t, row, running[t], posts[t], sends, acknowledged, saved, queued, source[t])
      /\ Sound(t, row, running[t], sends, acknowledged, saved, queued, source[t])
  BY <1>1, RunFacts
<1>3. TurnOK(t, row, running[t], enqueuing[t], discarding[t], minted[t], posts[t],
             source[t], sends, acknowledged, discarded, saved, queued, erased)
  BY DEF IInv, EveryTurnOK
<1>4. faults' \in 0..MaxFaults
  BY DEF ListRow, bounds, IInv, TypeOK
<1>5. PICK run : run = [running[t] EXCEPT !.item = row]
  OBVIOUS
<1>6. /\ run \in Run /\ run.item = row /\ run.pc = "list" /\ run.mode = running[t].mode
      /\ run.next = running[t].next /\ run.commit = "none" /\ run.stale = running[t].stale
      /\ run.committed = running[t].committed /\ run.answer = running[t].answer
  BY <1>1, <1>2, <1>5 DEF Run, Rows, RunOK
<1>7. Sound(t, row, run, sends, acknowledged, saved, queued, source[t])
  BY <1>2, <1>3, <1>6 DEF Sound, TurnOK
<1>8. CASE Leave(t) /\ UNCHANGED acknowledged
  <2>1. OnlyItsRun
    BY <1>8 DEF ListRow, OnlyItsRun, bounds, controller
  <2> QED  BY <1>1, <1>2, <1>4, <1>8, <2>1, LeaveStep DEF Leave
<1>9. CASE /\ row.state = "committed" /\ Leave(t)
           /\ acknowledged' = acknowledged \cup {t}
  <2> DEFINE e == enqueuing[t]  d == discarding[t]  m == minted[t]  p == posts[t]  src == source[t]
  <2>1. PICK x : x = Over(running[t])
    OBVIOUS
  <2>2. x \in Run /\ RunOK(t, row, x, p, sends, acknowledged, saved, queued, src)
    BY <1>2, <2>1, OverOK
  <2>3. Becomes(t, row, x, e, d, m, p, src)
    BY <1>2, <1>9, <2>1, <2>2 DEF Becomes, IInv, TypeOK, Rows, ListRow, Leave, server, history
  <2>4. Grows(t)
    BY <1>4, <1>9, BoundsAssumption DEF Grows, IInv, TypeOK, ListRow, server, history, bounds
  <2>5. TakesItsTurn(t, row, e)
    BY DEF TakesItsTurn
  <2>6. RunOK(t, row, x, p, sends, acknowledged', saved, queued, src)
    BY <1>9, <2>2 DEF RunOK
  <2>7. OKAfter(t, row, x, e, d, m, p, src)
    BY <1>1, <1>3, <1>9, <2>6 DEF OKAfter, TurnOK, Open, ListRow, server, history, bounds
  <2> HIDE DEF row, e, d, m, p, src
  <2> QED  BY <2>3, <2>4, <2>5, <2>7, TurnStep
<1>10. CASE /\ Uncommitted(row) /\ UNCHANGED acknowledged
            /\ running' = [running EXCEPT ![t] = [run EXCEPT !.pc = "receipt"]]
  <2>1. PICK x : x = [run EXCEPT !.pc = "receipt"]
    OBVIOUS
  <2>2. /\ x \in Run /\ x.item = row /\ x.pc = "receipt" /\ x.mode = run.mode
        /\ x.next = run.next /\ x.commit = "none" /\ x.stale = run.stale
        /\ x.committed = run.committed /\ x.answer = run.answer
    BY <1>6, <2>1 DEF Run
  <2>3. Open(row)
    BY <1>2, <1>10, RowFacts
  <2>4. RunOK(t, row, x, posts[t], sends, acknowledged, saved, queued, source[t])
    BY <1>1, <1>2, <1>3, <1>6, <1>7, <2>2, <2>3 DEF RunOK, TurnOK
  <2>5. running' = [running EXCEPT ![t] = x]
    BY <1>10, <2>1
  <2>6. OnlyItsRun
    BY <1>10 DEF ListRow, OnlyItsRun, bounds, controller
  <2> QED  BY <1>1, <1>4, <2>2, <2>4, <2>5, <2>6, StepOfRun DEF OnlyItsRun
<1>11. CASE /\ Uncommitted(row) /\ UNCHANGED acknowledged
            /\ ~NeedsReceipt(run, row) /\ Persist(t, run, Sending(row))
  <2>1. Open(row)
    BY <1>2, <1>11, RowFacts
  <2>2. run.mode = "queued" /\ row.attempts = 0 /\ row.state = "queued"
    <3>1. row.attempts \in Nat
      BY <1>2, RowFacts, BoundsAssumption
    <3> QED  BY <1>11, <3>1 DEF NeedsReceipt
  <2>3. posts[t] = 0 /\ ~run.stale
    BY <1>3, <1>7, <2>2 DEF TurnOK, Untried, Sound
  <2>4. row.attempts < sends /\ posts[t] < sends
    BY <1>1, <1>2, <1>6, <2>2 DEF RunOK
  <2>5. PICK next : next = Sending(row)
    OBVIOUS
  <2>6. next \in Row /\ next.state = "sending" /\ next.attempts <= sends /\ next.attempts # 0
    BY <1>2, <2>4, <2>5, SendingRecord
  <2>7. MayStore(run, next, posts[t], sends)
    BY <2>2, <2>3, <2>4, <2>6 DEF MayStore, Open, Untried
  <2>8. OnlyItsRun
    BY <1>11 DEF ListRow, OnlyItsRun, bounds, controller
  <2>9. Persist(t, run, next)
    BY <1>11, <2>5
  <2> QED  BY <1>1, <1>4, <1>6, <1>7, <2>1, <2>6, <2>7, <2>8, <2>9, PersistStep
<1> HIDE DEF row
<1> QED  BY <1>5, <1>8, <1>9, <1>10, <1>11 DEF ListRow, row

-----------------------------------------------------------------------------
(* The writes of a run.                                                    *)

LEMMA TurnFacts ==
  ASSUME IInv, NEW t \in Turns
  PROVE  /\ outbox[t] \in Rows /\ running[t] \in Run \cup {Idle}
         /\ enqueuing[t] \in {"no", "waiting", "putting"}
         /\ discarding[t] \in {"no", "waiting", "deleting"}
         /\ minted[t] \in {"unused", "current", "past"} /\ posts[t] \in 0..MaxSends
         /\ source[t] \in {"none", "accepted", "changed"}
         /\ sends \in 0..MaxSends /\ faults \in 0..MaxFaults
         /\ TurnOK(t, outbox[t], running[t], enqueuing[t], discarding[t], minted[t], posts[t],
                   source[t], sends, acknowledged, discarded, saved, queued, erased)
  BY DEF IInv, EveryTurnOK, TypeOK, Rows

LEMMA PutRowStep ==
  ASSUME IInv, NEW t \in Turns, PutRow(t)
  PROVE  IInv'
<1> DEFINE run == running[t]  row == running[t].next
           e == enqueuing[t]  d == discarding[t]  m == minted[t]  src == source[t]
           sent == Valid(t) /\ running[t].next.state = "sending"
<1>1. run # Idle /\ run.pc = "put"
  BY DEF PutRow, At, Running
<1>2. /\ run \in Run /\ posts[t] \in Nat /\ sends \in 0..MaxSends /\ row \in Rows
      /\ RunOK(t, outbox[t], run, posts[t], sends, acknowledged, saved, queued, src)
      /\ Sound(t, outbox[t], run, sends, acknowledged, saved, queued, src)
  BY <1>1, RunFacts
<1>3. Open(row) /\ Open(outbox[t]) /\ run.commit = "none" /\ row.attempts <= sends
  BY <1>1, <1>2 DEF RunOK
<1>4. row \in Row /\ row.state \in RowStates
  BY <1>2, <1>3, RowFacts DEF Open, Row
<1>5. TurnOK(t, outbox[t], run, e, d, m, posts[t], src, sends, acknowledged, discarded, saved,
             queued, erased)
  BY TurnFacts
<1>6. PICK p \in 0..MaxSends :
        /\ p = IF sent THEN posts[t] + 1 ELSE posts[t]
        /\ p <= sends /\ posts[t] <= p
  <2>1. posts[t] <= sends
    BY <1>5 DEF TurnOK
  <2>2. sent => posts[t] < sends
    BY <1>1, <1>2 DEF RunOK
  <2> QED  BY <1>2, <2>1, <2>2, BoundsAssumption
<1>7. PICK x : x = IF sent THEN [run EXCEPT !.pc = "stream", !.item = row, !.next = NoRow]
                   ELSE Over(run)
  OBVIOUS
<1>8. x \in Run /\ RunOK(t, row, x, p, sends, acknowledged, saved, queued, src)
  <2>1. CASE ~sent
    <3>1. Sound(t, row, run, sends, acknowledged, saved, queued, src)
      BY <1>2, <1>3 DEF Sound
    <3> QED  BY <1>2, <1>7, <2>1, <3>1, OverOK, BoundsAssumption
  <2>2. CASE sent
    <3>1. x = [run EXCEPT !.pc = "stream", !.item = row, !.next = NoRow]
      BY <1>7, <2>2
    <3>2. /\ x \in Run /\ x.pc = "stream" /\ x.item = row /\ x.next = NoRow /\ x.mode = run.mode
          /\ x.commit = "none" /\ x.committed = run.committed /\ x.stale = run.stale
          /\ x.answer = run.answer
      BY <1>2, <1>3, <1>4, <3>1 DEF Run
    <3>3. x.item.attempts <= sends /\ x.next.attempts <= sends
      BY <1>2, <1>3, <3>2, BoundsAssumption DEF NoRow
    <3> QED  BY <1>2, <1>3, <3>2, <3>3 DEF RunOK
  <2> QED  BY <2>1, <2>2
<1>9. Becomes(t, row, x, e, d, m, p, src)
  <2>1. running' = [running EXCEPT ![t] = x]
    BY <1>7 DEF PutRow
  <2>2. posts' = [posts EXCEPT ![t] = p]
    BY <1>6 DEF PutRow
  <2>3. TypeOK
    BY DEF IInv
  <2> QED  BY <1>2, <1>6, <1>8, <2>1, <2>2, <2>3
           DEF Becomes, TypeOK, Rows, PutRow, controller, history
<1>10. Grows(t)
  BY TurnFacts, BoundsAssumption DEF Grows, PutRow, controller, history, bounds
<1>11. TakesItsTurn(t, row, e)
  BY <1>3 DEF TakesItsTurn
<1>12. Untried(row) => p = 0
  <2>1. Untried(row) => ~sent
    BY DEF Untried
  <2> QED  BY <1>1, <1>2, <1>6, <2>1 DEF RunOK
<1>13. p = 0 => posts[t] = 0
  BY <1>2, <1>6
<1>14. OKAfter(t, row, x, e, d, m, p, src)
  <2>1. /\ sends' = sends /\ acknowledged' = acknowledged /\ discarded' = discarded
        /\ saved' = saved /\ queued' = queued /\ erased' = erased
    BY DEF PutRow, controller, history, bounds
  <2>2. outbox[t].state # "none" /\ row.state # "none" /\ row.state # "committed"
    BY <1>3 DEF Open
  <2>3. TurnOK(t, row, x, e, d, m, p, src, sends, acknowledged, discarded, saved, queued, erased)
    BY <1>1, <1>3, <1>5, <1>6, <1>8, <1>12, <1>13, <2>2 DEF TurnOK
  <2> QED  BY <2>1, <2>3 DEF OKAfter
<1> HIDE DEF run, row, e, d, m, src
<1> QED  BY <1>9, <1>10, <1>11, <1>14, TurnStep

LEMMA CommitPutStep ==
  ASSUME IInv, NEW t \in Turns, CommitPut(t)
  PROVE  IInv'
<1> DEFINE run == running[t]  e == enqueuing[t]  d == discarding[t]  m == minted[t]
           p == posts[t]  src == source[t]
<1>1. run # Idle /\ run.commit = "put"
  BY DEF CommitPut, Running
<1>2. /\ run \in Run /\ run.item \in Rows /\ sends \in 0..MaxSends
      /\ RunOK(t, outbox[t], run, p, sends, acknowledged, saved, queued, src)
  BY <1>1, RunFacts
<1>3. Open(outbox[t]) /\ run.item.state # "none" /\ t \in saved
  BY <1>1, <1>2 DEF RunOK
<1>4. run.item \in Row
  BY <1>2, <1>3, RowFacts
<1>5. PICK row : row = [run.item EXCEPT !.state = "committed", !.wait = FALSE]
  OBVIOUS
<1>6. row \in Row /\ row.state = "committed" /\ row.attempts <= sends
  BY <1>2, <1>4, <1>5 DEF Row, RowStates, RunOK
<1>7. PICK c \in {"delete", "done"} : c = IF Valid(t) THEN "delete" ELSE "done"
  OBVIOUS
<1>8. PICK x : x = [run EXCEPT !.commit = c]
  OBVIOUS
<1>9. /\ x \in Run /\ x.pc = run.pc /\ x.mode = run.mode /\ x.committed = run.committed
      /\ x.stale = run.stale /\ x.answer = run.answer /\ x.next = run.next /\ x.item = run.item
      /\ x.commit = c
  BY <1>2, <1>8 DEF Run
<1>10. acknowledged' \in {acknowledged, acknowledged \cup {t}} /\ (c = "delete" => t \in acknowledged')
  BY <1>7 DEF CommitPut
<1>11. RunOK(t, row, x, p, sends, acknowledged', saved, queued, src)
  BY <1>1, <1>2, <1>9, <1>10 DEF RunOK
<1>12. Becomes(t, row, x, e, d, m, p, src)
  <2>1. TypeOK
    BY DEF IInv
  <2>2. outbox' = [outbox EXCEPT ![t] = row]
    BY <1>5 DEF CommitPut
  <2>3. running' = [running EXCEPT ![t] = x]
    BY <1>7, <1>8 DEF CommitPut
  <2> QED  BY <1>6, <1>9, <2>1, <2>2, <2>3 DEF Becomes, TypeOK, Rows, CommitPut, server, history
<1>13. Grows(t)
  BY <1>10, TurnFacts, BoundsAssumption DEF Grows, CommitPut, server, history, bounds
<1>14. TakesItsTurn(t, row, e)
  BY <1>3 DEF TakesItsTurn
<1>15. OKAfter(t, row, x, e, d, m, p, src)
  <2>1. /\ sends' = sends /\ discarded' = discarded /\ saved' = saved /\ queued' = queued
        /\ erased' = erased
    BY DEF CommitPut, server, history, bounds
  <2>2. TurnOK(t, outbox[t], run, e, d, m, p, src, sends, acknowledged, discarded, saved,
               queued, erased)
    BY TurnFacts
  <2>3. row.state # "none" /\ ~Open(row) /\ ~Untried(row) /\ outbox[t].state # "none"
    BY <1>3, <1>6 DEF Open, Untried
  <2>4. TurnOK(t, row, x, e, d, m, p, src, sends, acknowledged', discarded, saved, queued, erased)
    BY <1>1, <1>3, <1>6, <1>10, <1>11, <2>2, <2>3 DEF TurnOK
  <2> QED  BY <2>1, <2>4 DEF OKAfter
<1> HIDE DEF run, e, d, m, p, src
<1> QED  BY <1>12, <1>13, <1>14, <1>15, TurnStep

LEMMA CommitDeleteStep ==
  ASSUME IInv, NEW t \in Turns, CommitDelete(t)
  PROVE  IInv'
<1> DEFINE run == running[t]  e == enqueuing[t]  d == discarding[t]  m == minted[t]
           p == posts[t]  src == source[t]
<1>1. run # Idle /\ run.commit = "delete"
  BY DEF CommitDelete, Running
<1>2. /\ run \in Run /\ run.item \in Rows /\ sends \in 0..MaxSends
      /\ RunOK(t, outbox[t], run, p, sends, acknowledged, saved, queued, src)
  BY <1>1, RunFacts
<1>3. t \in acknowledged
  BY <1>1, <1>2 DEF RunOK
<1>4. PICK x : x = [run EXCEPT !.commit = "done"]
  OBVIOUS
<1>5. /\ x \in Run /\ x.pc = run.pc /\ x.mode = run.mode /\ x.committed = run.committed
      /\ x.stale = run.stale /\ x.answer = run.answer /\ x.next = run.next /\ x.item = run.item
      /\ x.commit = "done"
  BY <1>2, <1>4 DEF Run
<1>6. RunOK(t, NoRow, x, p, sends, acknowledged, saved, queued, src)
  BY <1>1, <1>2, <1>5 DEF RunOK
<1>7. NoRow.state = "none" /\ NoRow.attempts = 0 /\ ~Open(NoRow) /\ ~Untried(NoRow)
  BY DEF NoRow, Open, Untried
<1>8. Becomes(t, NoRow, x, e, d, m, p, src)
  <2>1. TypeOK
    BY DEF IInv
  <2>2. running' = [running EXCEPT ![t] = x]
    BY <1>4 DEF CommitDelete
  <2> QED  BY <1>5, <2>1, <2>2
           DEF Becomes, TypeOK, Rows, CommitDelete, controller, server, history
<1>9. Grows(t)
  BY TurnFacts, BoundsAssumption DEF Grows, CommitDelete, controller, server, history, bounds
<1>10. TakesItsTurn(t, NoRow, e)
  <2>1. e = "putting" => enqueuing[t] = "putting"
    OBVIOUS
  <2> QED  BY <1>7, <2>1 DEF TakesItsTurn
<1>11. OKAfter(t, NoRow, x, e, d, m, p, src)
  <2>1. /\ sends' = sends /\ discarded' = discarded /\ saved' = saved /\ queued' = queued
        /\ erased' = erased /\ acknowledged' = acknowledged
    BY DEF CommitDelete, controller, server, history, bounds
  <2>2. TurnOK(t, outbox[t], run, e, d, m, p, src, sends, acknowledged, discarded, saved,
               queued, erased)
    BY TurnFacts
  <2>3. 0 <= sends
    BY <1>2, BoundsAssumption
  <2>4. TurnOK(t, NoRow, x, e, d, m, p, src, sends, acknowledged, discarded, saved, queued, erased)
    BY <1>1, <1>3, <1>6, <1>7, <2>2, <2>3 DEF TurnOK
  <2> QED  BY <2>1, <2>4 DEF OKAfter
<1> HIDE DEF run, e, d, m, p, src
<1> QED  BY <1>8, <1>9, <1>10, <1>11, TurnStep

-----------------------------------------------------------------------------
(* The narrator's calls, the server and the process.                       *)

LEMMA EnqueueCallStep ==
  ASSUME IInv, NEW t \in Turns, EnqueueCall(t)
  PROVE  IInv'
<1> DEFINE row == outbox[t]  run == running[t]  e == enqueuing[t]  d == discarding[t]
           m == minted[t]  p == posts[t]  src == source[t]
<1>1. TurnOK(t, row, run, e, d, m, p, src, sends, acknowledged, discarded, saved, queued, erased)
  BY TurnFacts
<1>2. TypeOK
  BY DEF IInv
<1>3. Becomes(t, row, run, "waiting", d, "current", p, src)
  BY <1>2, TurnFacts DEF Becomes, TypeOK, Rows, EnqueueCall, controller, server, history
<1>4. Grows(t)
  BY <1>2, BoundsAssumption DEF Grows, TypeOK, EnqueueCall, controller, server, history, bounds
<1>5. TakesItsTurn(t, row, "waiting")
  BY DEF TakesItsTurn
<1>6. OKAfter(t, row, run, "waiting", d, "current", p, src)
  BY <1>1, <1>2 DEF OKAfter, TurnOK, EnqueueCall, controller, server, history, bounds
<1> HIDE DEF row, run, e, d, m, p, src
<1> QED  BY <1>3, <1>4, <1>5, <1>6, TurnStep

LEMMA EnqueueListStep ==
  ASSUME IInv, NEW t \in Turns, EnqueueList(t)
  PROVE  IInv'
<1> DEFINE row == outbox[t]  run == running[t]  e == enqueuing[t]  d == discarding[t]
           m == minted[t]  p == posts[t]  src == source[t]
<1>1. TurnOK(t, row, run, e, d, m, p, src, sends, acknowledged, discarded, saved, queued, erased)
  BY TurnFacts
<1>2. TypeOK
  BY DEF IInv
<1>3. PICK e2 \in {"no", "putting"} : e2 = IF MayQueue(t) THEN "putting" ELSE "no"
  OBVIOUS
<1>4. e2 = "putting" => /\ row = NoRow /\ t \notin acknowledged
                        /\ \A u \in Turns : ~Uncommitted(outbox[u])
                        /\ \A u \in Turns \ {t} : enqueuing[u] # "putting"
  BY <1>3 DEF EnqueueList, MayQueue, TailIsFree
<1>5. \A u \in Turns : Uncommitted(outbox[u]) <=> Open(outbox[u])
  BY TurnFacts, RowFacts
<1>6. NoRow.state = "none"
  BY DEF NoRow
<1>7. Becomes(t, row, run, e2, d, m, p, src)
  BY <1>2, <1>3, TurnFacts DEF Becomes, TypeOK, Rows, EnqueueList, controller, server, history
<1>8. Grows(t)
  BY <1>2, BoundsAssumption DEF Grows, TypeOK, EnqueueList, controller, server, history, bounds
<1>9. TakesItsTurn(t, row, e2)
  BY <1>4, <1>5 DEF TakesItsTurn
<1>10. OKAfter(t, row, run, e2, d, m, p, src)
  <2>1. e = "waiting"
    BY DEF EnqueueList
  <2>2. TurnOK(t, row, run, e2, d, m, p, src, sends, acknowledged, discarded, saved, queued, erased)
    BY <1>1, <1>4, <1>6, <2>1 DEF TurnOK
  <2> QED  BY <2>2 DEF OKAfter, EnqueueList, controller, server, history, bounds
<1> HIDE DEF row, run, e, d, m, p, src
<1> QED  BY <1>7, <1>8, <1>9, <1>10, TurnStep

LEMMA EnqueuePutStep ==
  ASSUME IInv, NEW t \in Turns, EnqueuePut(t)
  PROVE  IInv'
<1> DEFINE row == outbox[t]  run == running[t]  e == enqueuing[t]  d == discarding[t]
           m == minted[t]  p == posts[t]  src == source[t]
<1>1. TurnOK(t, row, run, e, d, m, p, src, sends, acknowledged, discarded, saved, queued, erased)
  BY TurnFacts
<1>2. TypeOK
  BY DEF IInv
<1>3. PICK new : new = [state |-> "queued", attempts |-> 0, wait |-> FALSE]
  OBVIOUS
<1>4. new \in Rows /\ new.state = "queued" /\ new.attempts = 0
  BY <1>3, BoundsAssumption DEF Rows, Row, RowStates
<1>5. e = "putting"
  BY DEF EnqueuePut
<1>6. run = Idle
  BY <1>1, <1>5 DEF TurnOK, RunOK
<1>7. Becomes(t, new, run, "no", d, m, p, src)
  <2>1. outbox' = [outbox EXCEPT ![t] = new]
    BY <1>3 DEF EnqueuePut
  <2> QED  BY <1>2, <1>4, <2>1, TurnFacts DEF Becomes, TypeOK, Rows, EnqueuePut, controller, server
<1>8. Grows(t)
  BY <1>2, BoundsAssumption DEF Grows, TypeOK, EnqueuePut, controller, server, bounds
<1>9. TakesItsTurn(t, new, "no")
  BY <1>5 DEF TakesItsTurn
<1>10. OKAfter(t, new, run, "no", d, m, p, src)
  <2>1. 0 <= sends
    BY <1>2, BoundsAssumption DEF TypeOK
  <2>2. new.state # "none" /\ new.state # "committed"
    BY <1>4
  <2>3. queued' = queued \cup {t}
    BY DEF EnqueuePut
  <2>4. TurnOK(t, new, run, "no", d, m, p, src, sends, acknowledged, discarded, saved, queued',
               erased)
    BY <1>1, <1>4, <1>5, <1>6, <2>1, <2>2, <2>3 DEF TurnOK
  <2> QED  BY <2>4 DEF OKAfter, EnqueuePut, controller, server, bounds
<1> HIDE DEF row, run, e, d, m, p, src
<1> QED  BY <1>7, <1>8, <1>9, <1>10, TurnStep

LEMMA EnqueuePutFailsStep ==
  ASSUME IInv, NEW t \in Turns, EnqueuePutFails(t)
  PROVE  IInv'
<1> DEFINE row == outbox[t]  run == running[t]  e == enqueuing[t]  d == discarding[t]
           m == minted[t]  p == posts[t]  src == source[t]
<1>1. TurnOK(t, row, run, e, d, m, p, src, sends, acknowledged, discarded, saved, queued, erased)
  BY TurnFacts
<1>2. TypeOK
  BY DEF IInv
<1>3. Becomes(t, row, run, "no", d, m, p, src)
  BY <1>2, TurnFacts DEF Becomes, TypeOK, Rows, EnqueuePutFails, controller, server, history
<1>4. Grows(t)
  BY <1>2, BoundsAssumption DEF Grows, TypeOK, EnqueuePutFails, controller, server, history, bounds
<1>5. TakesItsTurn(t, row, "no")
  BY DEF TakesItsTurn
<1>6. OKAfter(t, row, run, "no", d, m, p, src)
  BY <1>1, <1>2 DEF OKAfter, TurnOK, EnqueuePutFails, controller, server, history, bounds
<1> HIDE DEF row, run, e, d, m, p, src
<1> QED  BY <1>3, <1>4, <1>5, <1>6, TurnStep

LEMMA StartStep ==
  ASSUME IInv, NEW t \in Turns, NEW mode \in {"queued", "retry", "check"}, Start(t, mode)
  PROVE  IInv'
<1> DEFINE row == outbox[t]  run == running[t]  e == enqueuing[t]  d == discarding[t]
           m == minted[t]  p == posts[t]  src == source[t]
<1>1. TurnOK(t, row, run, e, d, m, p, src, sends, acknowledged, discarded, saved, queued, erased)
  BY TurnFacts
<1>2. TypeOK
  BY DEF IInv
<1>3. PICK stale \in BOOLEAN : stale = (t \in saved \/ source[t] = "changed")
  OBVIOUS
<1>4. PICK x : x = [mode |-> mode, pc |-> "list", item |-> NoRow, next |-> NoRow,
                    caught |-> FALSE, answer |-> "none", committed |-> FALSE, commit |-> "none",
                    aborted |-> FALSE, stale |-> stale]
  OBVIOUS
<1>5. /\ x \in Run /\ x.pc = "list" /\ x.mode = mode /\ x.item = NoRow /\ x.next = NoRow
      /\ x.commit = "none" /\ x.committed = FALSE /\ x.answer = "none" /\ x.stale = stale
  BY <1>4 DEF Run
<1>6. /\ sends \in 0..MaxSends /\ sends' \in 0..MaxSends /\ sends <= sends'
      /\ mode # "check" => sends < sends'
  BY <1>2, BoundsAssumption DEF Start, TypeOK
<1>7. row.attempts \in Nat /\ row.attempts <= sends /\ p \in Nat /\ p <= sends
  BY <1>1, TurnFacts, RowFacts, BoundsAssumption DEF TurnOK
<1>8. row.attempts <= sends' /\ p <= sends' /\ 0 <= sends'
  BY <1>6, <1>7, BoundsAssumption
<1>9. mode # "check" => row.attempts < sends' /\ p < sends' /\ 0 < sends'
  BY <1>6, <1>7, BoundsAssumption
<1>10. NoRow.attempts = 0
  BY DEF NoRow
<1>11. RunOK(t, row, x, p, sends', acknowledged, saved, queued, src)
  BY <1>3, <1>5, <1>8, <1>9, <1>10 DEF RunOK, Start
<1>12. d = "no" /\ t \in queued
  BY <1>1 DEF Start, TurnOK
<1>13. Becomes(t, row, x, e, d, m, p, src)
  <2>1. running' = [running EXCEPT ![t] = x]
    BY <1>3, <1>4 DEF Start
  <2> QED  BY <1>2, <1>5, <2>1, TurnFacts
           DEF Becomes, TypeOK, Rows, Start, controller, server, history
<1>14. Grows(t)
  BY <1>2, <1>6 DEF Grows, TypeOK, Start, controller, server, history
<1>15. TakesItsTurn(t, row, e)
  BY DEF TakesItsTurn
<1>16. OKAfter(t, row, x, e, d, m, p, src)
  <2>1. TurnOK(t, row, x, e, d, m, p, src, sends', acknowledged, discarded, saved, queued, erased)
    BY <1>1, <1>8, <1>11, <1>12 DEF TurnOK
  <2> QED  BY <2>1 DEF OKAfter, Start, controller, server, history
<1> HIDE DEF row, run, e, d, m, p, src
<1> QED  BY <1>13, <1>14, <1>15, <1>16, TurnStep

LEMMA DiscardCallStep ==
  ASSUME IInv, NEW t \in Turns, DiscardCall(t)
  PROVE  IInv'
<1> DEFINE row == outbox[t]  run == running[t]  e == enqueuing[t]  d == discarding[t]
           m == minted[t]  p == posts[t]  src == source[t]
<1>1. TurnOK(t, row, run, e, d, m, p, src, sends, acknowledged, discarded, saved, queued, erased)
  BY TurnFacts
<1>2. TypeOK
  BY DEF IInv
<1>3. PICK x : x = IF Running(t) THEN [run EXCEPT !.aborted = TRUE] ELSE Idle
  OBVIOUS
<1>4. run # Idle =>
        /\ x \in Run /\ x.pc = run.pc /\ x.mode = run.mode
        /\ x.committed = run.committed /\ x.stale = run.stale /\ x.answer = run.answer
        /\ x.next = run.next /\ x.item = run.item /\ x.commit = run.commit
  BY <1>3, TurnFacts DEF Run, Running
<1>5. run # Idle => RunOK(t, row, x, p, sends, acknowledged, saved, queued, src)
  BY <1>1, <1>4 DEF RunOK, TurnOK
<1>6. run = Idle => x = Idle
  BY <1>3 DEF Running
<1>7. Becomes(t, row, x, e, "waiting", m, p, src)
  <2>1. running' = [running EXCEPT ![t] = x]
    <3>1. CASE run # Idle
      BY <1>3, <3>1 DEF DiscardCall, Running
    <3>2. CASE run = Idle
      BY <1>2, <1>6, <3>2 DEF DiscardCall, Running, TypeOK
    <3> QED  BY <3>1, <3>2
  <2> QED  BY <1>2, <1>4, <1>6, <2>1, TurnFacts
           DEF Becomes, TypeOK, Rows, DiscardCall, server, history
<1>8. Grows(t)
  BY <1>2, BoundsAssumption DEF Grows, TypeOK, DiscardCall, server, history, bounds
<1>9. TakesItsTurn(t, row, e)
  BY DEF TakesItsTurn
<1>10. OKAfter(t, row, x, e, "waiting", m, p, src)
  <2>1. discarded' = discarded \cup {t} /\ m # "unused"
    BY DEF DiscardCall
  <2>2. TurnOK(t, row, x, e, "waiting", m, p, src, sends, acknowledged, discarded', saved,
               queued, erased)
    BY <1>1, <1>5, <1>6, <2>1 DEF TurnOK
  <2> QED  BY <2>2 DEF OKAfter, DiscardCall, server, history, bounds
<1> HIDE DEF row, run, e, d, m, p, src
<1> QED  BY <1>7, <1>8, <1>9, <1>10, TurnStep

LEMMA DiscardListStep ==
  ASSUME IInv, NEW t \in Turns, DiscardList(t)
  PROVE  IInv'
<1> DEFINE row == outbox[t]  run == running[t]  e == enqueuing[t]  d == discarding[t]
           m == minted[t]  p == posts[t]  src == source[t]
<1>1. TurnOK(t, row, run, e, d, m, p, src, sends, acknowledged, discarded, saved, queued, erased)
  BY TurnFacts
<1>2. TypeOK
  BY DEF IInv
<1>3. PICK d2 \in {"no", "deleting"} : d2 = IF outbox[t] = NoRow THEN "no" ELSE "deleting"
  OBVIOUS
<1>4. Becomes(t, row, run, e, d2, m, p, src)
  BY <1>2, TurnFacts, <1>3 DEF Becomes, TypeOK, Rows, DiscardList, NothingUnderWay, Running, controller, server, history
<1>5. Grows(t)
  BY <1>2, BoundsAssumption DEF Grows, TypeOK, DiscardList, NothingUnderWay, Running, controller, server, history, bounds
<1>6. TakesItsTurn(t, row, e)
  BY DEF TakesItsTurn
<1>7. OKAfter(t, row, run, e, d2, m, p, src)
  BY <1>1, <1>2, <1>3 DEF OKAfter, TurnOK, DiscardList, NothingUnderWay, Running, controller, server, history, bounds
<1> HIDE DEF row, run, e, d, m, p, src
<1> QED  BY <1>4, <1>5, <1>6, <1>7, TurnStep

LEMMA DiscardDeleteStep ==
  ASSUME IInv, NEW t \in Turns, DiscardDelete(t)
  PROVE  IInv'
<1> DEFINE row == outbox[t]  run == running[t]  e == enqueuing[t]  d == discarding[t]
           m == minted[t]  p == posts[t]  src == source[t]
<1>1. TurnOK(t, row, run, e, d, m, p, src, sends, acknowledged, discarded, saved, queued, erased)
  BY TurnFacts
<1>2. TypeOK
  BY DEF IInv
<1>3. NoRow.state = "none" /\ NoRow.attempts = 0 /\ ~Open(NoRow) /\ ~Untried(NoRow)
  BY DEF NoRow, Open, Untried
<1>4. 0 <= sends
  BY <1>2, BoundsAssumption DEF TypeOK
<1>5. Becomes(t, NoRow, run, e, "no", m, p, src)
  BY <1>2, TurnFacts DEF Becomes, TypeOK, Rows, DiscardDelete, controller, server
<1>6. Grows(t)
  BY <1>2, BoundsAssumption DEF Grows, TypeOK, DiscardDelete, controller, server, bounds
<1>7. TakesItsTurn(t, NoRow, e)
  <2>1. e = "putting" => enqueuing[t] = "putting"
    OBVIOUS
  <2> QED  BY <1>3, <2>1 DEF TakesItsTurn
<1>8. OKAfter(t, NoRow, run, e, "no", m, p, src)
  <2>1. d = "deleting" /\ erased' = erased \cup {t}
    BY DEF DiscardDelete
  <2>2. run = Idle /\ e = "no" /\ t \in discarded /\ m # "unused"
    BY <1>1, <2>1 DEF TurnOK
  <2>3. TurnOK(t, NoRow, run, e, "no", m, p, src, sends, acknowledged, discarded, saved, queued,
               erased')
    BY <1>1, <1>3, <1>4, <2>1, <2>2 DEF TurnOK
  <2> QED  BY <2>3 DEF OKAfter, DiscardDelete, controller, server, bounds
<1> HIDE DEF row, run, e, d, m, p, src
<1> QED  BY <1>5, <1>6, <1>7, <1>8, TurnStep

LEMMA DiscardFailsStep ==
  ASSUME IInv, NEW t \in Turns, DiscardFails(t)
  PROVE  IInv'
<1> DEFINE row == outbox[t]  run == running[t]  e == enqueuing[t]  d == discarding[t]
           m == minted[t]  p == posts[t]  src == source[t]
<1>1. TurnOK(t, row, run, e, d, m, p, src, sends, acknowledged, discarded, saved, queued, erased)
  BY TurnFacts
<1>2. TypeOK
  BY DEF IInv
<1>3. Becomes(t, row, run, e, "no", m, p, src)
  BY <1>2, TurnFacts DEF Becomes, TypeOK, Rows, DiscardFails, controller, server, history
<1>4. Grows(t)
  BY <1>2, BoundsAssumption DEF Grows, TypeOK, DiscardFails, controller, server, history, bounds
<1>5. TakesItsTurn(t, row, e)
  BY DEF TakesItsTurn
<1>6. OKAfter(t, row, run, e, "no", m, p, src)
  BY <1>1, <1>2 DEF OKAfter, TurnOK, DiscardFails, controller, server, history, bounds
<1> HIDE DEF row, run, e, d, m, p, src
<1> QED  BY <1>3, <1>4, <1>5, <1>6, TurnStep

LEMMA AcceptStep ==
  ASSUME IInv, NEW t \in Turns, Accept(t)
  PROVE  IInv'
<1> DEFINE row == outbox[t]  run == running[t]  e == enqueuing[t]  d == discarding[t]
           m == minted[t]  p == posts[t]  src == source[t]
<1>1. TurnOK(t, row, run, e, d, m, p, src, sends, acknowledged, discarded, saved, queued, erased)
  BY TurnFacts
<1>2. TypeOK
  BY DEF IInv
<1>3. run # Idle => RunOK(t, row, run, p, sends, acknowledged, saved', queued, "accepted")
  BY <1>1 DEF TurnOK, RunOK, Accept
<1>4. Becomes(t, row, run, e, d, m, p, "accepted")
  BY <1>2, TurnFacts DEF Becomes, TypeOK, Rows, Accept, controller, history
<1>5. Grows(t)
  BY <1>2, BoundsAssumption DEF Grows, TypeOK, Accept, controller, history, bounds
<1>6. TakesItsTurn(t, row, e)
  BY DEF TakesItsTurn
<1>7. OKAfter(t, row, run, e, d, m, p, "accepted")
  <2>1. p # 0
    BY <1>2, BoundsAssumption DEF TypeOK, Accept
  <2>2. TurnOK(t, row, run, e, d, m, p, "accepted", sends, acknowledged, discarded, saved', queued, erased)
    BY <1>1, <1>3, <2>1 DEF TurnOK, Accept
  <2> QED  BY <2>2 DEF OKAfter, Accept, controller, history, bounds
<1> HIDE DEF row, run, e, d, m, p, src
<1> QED  BY <1>4, <1>5, <1>6, <1>7, TurnStep

LEMMA SaveStep ==
  ASSUME IInv, NEW t \in Turns, Save(t)
  PROVE  IInv'
<1> DEFINE row == outbox[t]  run == running[t]  e == enqueuing[t]  d == discarding[t]
           m == minted[t]  p == posts[t]  src == source[t]
<1>1. TurnOK(t, row, run, e, d, m, p, src, sends, acknowledged, discarded, saved, queued, erased)
  BY TurnFacts
<1>2. TypeOK
  BY DEF IInv
<1>3. run # Idle => RunOK(t, row, run, p, sends, acknowledged, saved', queued, src)
  BY <1>1 DEF TurnOK, RunOK, Save
<1>4. Becomes(t, row, run, e, d, m, p, src)
  BY <1>2, TurnFacts DEF Becomes, TypeOK, Rows, Save, controller, history
<1>5. Grows(t)
  BY <1>2, BoundsAssumption DEF Grows, TypeOK, Save, controller, history, bounds
<1>6. TakesItsTurn(t, row, e)
  BY DEF TakesItsTurn
<1>7. OKAfter(t, row, run, e, d, m, p, src)
  <2>1. p # 0
    BY <1>2, BoundsAssumption DEF TypeOK, Save
  <2>2. TurnOK(t, row, run, e, d, m, p, src, sends, acknowledged, discarded, saved', queued, erased)
    BY <1>1, <1>3, <2>1 DEF TurnOK, Save
  <2> QED  BY <2>2 DEF OKAfter, Save, controller, history, bounds
<1> HIDE DEF row, run, e, d, m, p, src
<1> QED  BY <1>4, <1>5, <1>6, <1>7, TurnStep

LEMMA ChangeStep ==
  ASSUME IInv, NEW t \in Turns, Change(t)
  PROVE  IInv'
<1> DEFINE row == outbox[t]  run == running[t]  e == enqueuing[t]  d == discarding[t]
           m == minted[t]  p == posts[t]  src == source[t]
<1>1. TurnOK(t, row, run, e, d, m, p, src, sends, acknowledged, discarded, saved, queued, erased)
  BY TurnFacts
<1>2. TypeOK
  BY DEF IInv
<1>3. run # Idle => RunOK(t, row, run, p, sends, acknowledged, saved', queued, "changed")
  BY <1>1 DEF TurnOK, RunOK, Change
<1>4. Becomes(t, row, run, e, d, m, p, "changed")
  BY <1>2, TurnFacts DEF Becomes, TypeOK, Rows, Change, controller, history
<1>5. Grows(t)
  BY <1>2, BoundsAssumption DEF Grows, TypeOK, Change, controller, history, bounds
<1>6. TakesItsTurn(t, row, e)
  BY DEF TakesItsTurn
<1>7. OKAfter(t, row, run, e, d, m, p, "changed")
  <2>1. p # 0
    BY <1>1 DEF TurnOK, Change
  <2>2. TurnOK(t, row, run, e, d, m, p, "changed", sends, acknowledged, discarded, saved', queued, erased)
    BY <1>1, <1>3, <2>1 DEF TurnOK, Change
  <2> QED  BY <2>2 DEF OKAfter, Change, controller, history, bounds
<1> HIDE DEF row, run, e, d, m, p, src
<1> QED  BY <1>4, <1>5, <1>6, <1>7, TurnStep

LEMMA WaitRecord ==
  ASSUME NEW row \in Rows
  PROVE  LET x == [row EXCEPT !.wait = FALSE] IN
         x \in Rows /\ x.state = row.state /\ x.attempts = row.attempts
<1>1. CASE row = NoRow
  <2> DEFINE Empty == [state : {"none"}, attempts : {0}, wait : {FALSE}]
  <2>1. row \in Empty
    BY <1>1 DEF NoRow
  <2>2. PICK x : x = [row EXCEPT !.wait = FALSE]
    OBVIOUS
  <2>3. x \in Empty
    BY <2>1, <2>2
  <2>4. x = NoRow
    BY <2>3 DEF NoRow
  <2> QED  BY <1>1, <2>2, <2>4 DEF Rows
<1>2. CASE row \in Row
  BY <1>2 DEF Rows, Row
<1> QED  BY <1>1, <1>2 DEF Rows

LEMMA ElapseStep ==
  ASSUME IInv, NEW t \in Turns, Elapse(t)
  PROVE  IInv'
<1> DEFINE row == outbox[t]  run == running[t]  e == enqueuing[t]  d == discarding[t]
           m == minted[t]  p == posts[t]  src == source[t]
<1>1. TurnOK(t, row, run, e, d, m, p, src, sends, acknowledged, discarded, saved, queued, erased)
  BY TurnFacts
<1>2. TypeOK
  BY DEF IInv
<1>3. row \in Rows /\ run \in Run \cup {Idle}
  BY TurnFacts
<1>4. PICK row2 : row2 = [row EXCEPT !.wait = FALSE]
  OBVIOUS
<1>5. row2 \in Rows /\ row2.state = row.state /\ row2.attempts = row.attempts
  BY <1>3, <1>4, WaitRecord
<1>6. PICK x : x = IF run # Idle THEN [run EXCEPT !.item = [@ EXCEPT !.wait = FALSE]] ELSE Idle
  OBVIOUS
<1>7. ASSUME run # Idle
      PROVE  /\ x \in Run /\ x.pc = run.pc /\ x.mode = run.mode /\ x.commit = run.commit
             /\ x.committed = run.committed /\ x.stale = run.stale /\ x.answer = run.answer
             /\ x.next = run.next /\ x.item.state = run.item.state
             /\ x.item.attempts = run.item.attempts
  <2>1. run \in Run /\ run.item \in Rows
    BY <1>7, RunFacts
  <2>2. PICK item : item = [run.item EXCEPT !.wait = FALSE]
    OBVIOUS
  <2>3. item \in Rows /\ item.state = run.item.state /\ item.attempts = run.item.attempts
    BY <2>1, <2>2, WaitRecord
  <2>4. x = [run EXCEPT !.item = item]
    BY <1>6, <1>7, <2>2
  <2>5. /\ x \in Run /\ x.pc = run.pc /\ x.mode = run.mode /\ x.commit = run.commit
        /\ x.committed = run.committed /\ x.stale = run.stale /\ x.answer = run.answer
        /\ x.next = run.next /\ x.item = item
    BY <2>1, <2>3, <2>4 DEF Run, Rows
  <2> QED  BY <2>3, <2>5
<1>8. run # Idle => x # Idle
  BY <1>7, IdleIsNoRun
<1>9. (Open(row2) <=> Open(row)) /\ (Untried(row2) <=> Untried(row))
  BY <1>5 DEF Open, Untried
<1>10. ASSUME run # Idle
       PROVE  RunOK(t, row2, x, p, sends, acknowledged, saved, queued, src)
  <2>1. RunOK(t, row, run, p, sends, acknowledged, saved, queued, src)
    BY <1>10, RunFacts
  <2>2. (Open(x.item) <=> Open(run.item)) /\ (Untried(x.item) <=> Untried(run.item))
    BY <1>7, <1>10 DEF Open, Untried
  <2> QED  BY <1>5, <1>7, <1>9, <1>10, <2>1, <2>2 DEF RunOK
<1>11. run = Idle => x = Idle
  BY <1>6
<1>12. Becomes(t, row2, x, e, d, m, p, src)
  <2>1. running' = [running EXCEPT ![t] = x]
    <3>1. CASE run # Idle
      BY <1>6, <3>1 DEF Elapse, Running
    <3>2. CASE run = Idle
      BY <1>2, <1>11, <3>2 DEF Elapse, Running, TypeOK
    <3> QED  BY <3>1, <3>2
  <2>2. outbox' = [outbox EXCEPT ![t] = row2]
    BY <1>4 DEF Elapse
  <2>3. x \in Run \cup {Idle}
    BY <1>7, <1>11
  <2> QED  BY <1>2, <1>5, <2>1, <2>2, <2>3, TurnFacts
           DEF Becomes, TypeOK, Elapse, controller, server, history
<1>13. Grows(t)
  BY <1>2, BoundsAssumption DEF Grows, TypeOK, Elapse, controller, server, history, bounds
<1>14. TakesItsTurn(t, row2, e)
  <2>1. e = "putting" => enqueuing[t] = "putting"
    OBVIOUS
  <2> QED  BY <1>9, <2>1 DEF TakesItsTurn
<1>15. OKAfter(t, row2, x, e, d, m, p, src)
  <2>1. TurnOK(t, row2, x, e, d, m, p, src, sends, acknowledged, discarded, saved, queued, erased)
    BY <1>1, <1>5, <1>9, <1>10, <1>11 DEF TurnOK
  <2> QED  BY <2>1 DEF OKAfter, Elapse, controller, server, history, bounds
<1> HIDE DEF row, run, e, d, m, p, src
<1> QED  BY <1>12, <1>13, <1>14, <1>15, TurnStep

LEMMA RestartStep ==
  ASSUME IInv, Restart
  PROVE  IInv'
<1>1. TypeOK'
  BY BoundsAssumption DEF IInv, TypeOK, Restart, server
<1>2. EveryTurnOK'
  <2> SUFFICES ASSUME NEW t \in Turns
               PROVE  TurnOK(t, outbox[t], Idle, "no", "no", minted'[t], posts[t], source[t],
                             sends, {}, {}, saved, queued, erased)
    BY DEF EveryTurnOK, Restart, server
  <2>1. minted'[t] = IF minted[t] = "current" THEN "past" ELSE minted[t]
    BY DEF Restart
  <2> QED  BY <2>1, TurnFacts DEF TurnOK
<1>3. OneAtATime'
  BY DEF IInv, OneAtATime, Restart
<1> QED  BY <1>1, <1>2, <1>3 DEF IInv

-----------------------------------------------------------------------------
(* The invariant.                                                          *)

LEMMA InitIInv == Init => IInv
<1> SUFFICES ASSUME Init PROVE IInv
  OBVIOUS
<1>1. NoRow.state = "none" /\ NoRow.attempts = 0 /\ ~Open(NoRow) /\ ~Untried(NoRow)
  BY DEF NoRow, Open, Untried
<1>2. TypeOK
  BY BoundsAssumption DEF Init, TypeOK
<1>3. EveryTurnOK
  BY <1>1 DEF Init, EveryTurnOK, TurnOK
<1>4. OneAtATime
  BY <1>1 DEF Init, OneAtATime
<1> QED  BY <1>2, <1>3, <1>4 DEF IInv

LEMMA NextIInv == IInv /\ [Next]_vars => IInv'
<1> SUFFICES ASSUME IInv, [Next]_vars PROVE IInv'
  OBVIOUS
<1>1. CASE Restart
  BY <1>1, RestartStep
<1>2. ASSUME NEW t \in Turns, RunStep(t) PROVE IInv'
  BY <1>2, ListRowStep, ReadReceiptStep, ReceiptArrivesStep, PutRowStep, PutRowFailsStep,
     SavedEventStep, CommitPutStep, CommitDeleteStep, CommitFailsStep, FinishStep,
     ReceiptFailsStep, StreamEndsStep DEF RunStep
<1>3. ASSUME NEW t \in Turns, CallStep(t) PROVE IInv'
  BY <1>3, EnqueueCallStep, EnqueueListStep, EnqueuePutStep, EnqueuePutFailsStep, StartStep,
     CancelStep, DiscardCallStep, DiscardListStep, DiscardDeleteStep, DiscardFailsStep
     DEF CallStep
<1>4. ASSUME NEW t \in Turns, ServerStep(t) PROVE IInv'
  BY <1>4, AcceptStep, SaveStep, ChangeStep DEF ServerStep
<1>5. ASSUME NEW t \in Turns, Elapse(t) PROVE IInv'
  BY <1>5, ElapseStep
<1>6. CASE UNCHANGED vars
  BY <1>6 DEF vars, controller, server, history, bounds, IInv, TypeOK, EveryTurnOK, OneAtATime
<1> QED  BY <1>1, <1>2, <1>3, <1>4, <1>5, <1>6 DEF Next

(* For any turns and bounds the inductive invariant holds of every state   *)
(* the controller, the vault and the server reach.                         *)
THEOREM Invariance == Spec => []IInv
<1> QED  BY InitIInv, NextIInv, PTL DEF Spec

(* Type correctness; in particular a turn is never counted or transmitted  *)
(* more often than runs were asked for it (start, the sending write).      *)
THEOREM TypesHold == Spec => []TypeOK
<1>1. IInv => TypeOK
  BY DEF IInv
<1> QED  BY Invariance, <1>1, PTL

(* No turn whose enqueue succeeded is lost before it is saved or           *)
(* discarded, and no discarded row returns, whatever runs, writes and      *)
(* restarts overlap (persist, commit, discard).                            *)
THEOREM WordIsKept == Spec => []OutboxKeepsItsWord
<1>1. ASSUME IInv PROVE OutboxKeepsItsWord
  <2>1. ASSUME NEW t \in queued PROVE outbox[t] # NoRow \/ t \in saved \/ t \in erased
    <3>1. t \in Turns
      BY <1>1 DEF IInv, TypeOK
    <3> QED  BY <1>1, <3>1, TurnFacts, RowFacts DEF TurnOK
  <2>2. ASSUME NEW t \in erased PROVE outbox[t] = NoRow
    <3>1. t \in Turns
      BY <1>1 DEF IInv, TypeOK
    <3> QED  BY <1>1, <3>1, TurnFacts, RowFacts DEF TurnOK
  <2> QED  BY <2>1, <2>2 DEF OutboxKeepsItsWord, NothingIsLost, DiscardedStaysGone
<1> QED  BY Invariance, <1>1, PTL

(* Once acknowledged, a turn is saved at the server and never pending      *)
(* again: no later write of its run, or of another, reopens it (commit).   *)
THEOREM SettledForGood == Spec => []AcknowledgedIsSettled
<1>1. ASSUME IInv PROVE AcknowledgedIsSettled
  <2>1. ASSUME NEW t \in acknowledged PROVE t \in saved /\ ~Uncommitted(outbox[t])
    <3>1. t \in Turns
      BY <1>1 DEF IInv, TypeOK
    <3> QED  BY <1>1, <3>1, TurnFacts, RowFacts DEF TurnOK
  <2> QED  BY <2>1 DEF AcknowledgedIsSettled
<1> QED  BY Invariance, <1>1, PTL

(* For any number of turns composed and enqueued at once, at most one row  *)
(* of the project is pending (the serialized body of enqueue).             *)
THEOREM PendingTurnsExclude == Spec => []OnePendingTurn
<1>1. ASSUME IInv PROVE OnePendingTurn
  <2>1. \A t \in Turns : Uncommitted(outbox[t]) <=> Open(outbox[t])
    BY <1>1, TurnFacts, RowFacts
  <2> QED  BY <1>1, <2>1 DEF IInv, OneAtATime, OnePendingTurn
<1> QED  BY Invariance, <1>1, PTL

\* Only the write of a row transmits.
LEMMA OnlyPutRowSends ==
  ASSUME IInv, [Next]_vars, NEW t \in Turns, posts'[t] > posts[t]
  PROVE  PutRow(t)
<1>1. posts[t] \in Nat /\ ~(posts[t] > posts[t])
  BY TurnFacts, BoundsAssumption
<1>2. posts' # posts
  BY <1>1
<1>3. ~Restart
  BY <1>2 DEF Restart, server
<1>4. ASSUME NEW u \in Turns, RunStep(u) PROVE PutRow(u)
  BY <1>2, <1>4 DEF RunStep, ListRow, ReadReceipt, ReceiptArrives, PutRowFails, SavedEvent,
     CommitPut, CommitDelete, CommitFails, Finish, ReceiptFails, StreamEnds, server
<1>5. ASSUME NEW u \in Turns, CallStep(u) PROVE FALSE
  BY <1>2, <1>5 DEF CallStep, EnqueueCall, EnqueueList, EnqueuePut, EnqueuePutFails, Start,
     Cancel, DiscardCall, DiscardList, DiscardDelete, DiscardFails, server
<1>6. ASSUME NEW u \in Turns, ServerStep(u) \/ Elapse(u) PROVE FALSE
  BY <1>2, <1>6 DEF ServerStep, Accept, Save, Change, Elapse, server
<1>7. PICK u \in Turns : PutRow(u)
  BY <1>2, <1>3, <1>4, <1>5, <1>6 DEF Next, vars, server
<1>8. u = t
  BY <1>1, <1>7 DEF PutRow, IInv, TypeOK
<1> QED  BY <1>7, <1>8

(* A transmission is of a turn neither discarded nor cancelled, by a run   *)
(* asked to send, that began when the server had neither saved the turn    *)
(* nor seen its source changed (execute: the receipt before every send     *)
(* that is not the first of a turn never tried).                           *)
THEOREM SendsAreFresh == Spec => OnlyFreshTurnsAreSent
<1>1. ASSUME IInv, [Next]_vars
      PROVE  \A t \in Turns :
               posts'[t] > posts[t] =>
                 /\ running[t].mode # "check" /\ ~running[t].stale /\ ~running[t].aborted
                 /\ t \notin discarded
  <2> SUFFICES ASSUME NEW t \in Turns, posts'[t] > posts[t]
               PROVE  /\ running[t].mode # "check" /\ ~running[t].stale /\ ~running[t].aborted
                      /\ t \notin discarded
    OBVIOUS
  <2>1. PutRow(t)
    BY <1>1, OnlyPutRowSends
  <2>2. running[t] # Idle /\ running[t].pc = "put"
    BY <2>1 DEF PutRow, At, Running
  <2>3. posts[t] \in Nat /\ ~(posts[t] > posts[t])
    BY <1>1, TurnFacts, BoundsAssumption
  <2>4. Valid(t) /\ running[t].next.state = "sending"
    BY <1>1, <2>1, <2>3 DEF PutRow, IInv, TypeOK
  <2>5. running[t].mode # "check" /\ ~running[t].stale
    BY <1>1, <2>2, <2>4, RunFacts DEF RunOK
  <2> QED  BY <2>4, <2>5 DEF Valid
<1> QED  BY <1>1, Invariance, PTL DEF OnlyFreshTurnsAreSent, Spec

=============================================================================
