--------------------------- MODULE TurnLeaseProofs ---------------------------
(***************************************************************************)
(* For any number of sessions, cancellations and faults: the safety        *)
(* properties of TurnLease are invariants of its specification.  The       *)
(* inductive invariant says of each session what its two tasks may be      *)
(* doing together, and what the lease row still has to do with it.         *)
(***************************************************************************)
EXTENDS TurnLease, TLAPS

Places == {"new", "acquire", "backout", "body", "check", "commit", "settle", "release", "over",
           "dead"}
Operations == {"none", "acquire", "release", "renew", "commit"}
Exceptions == {"none", "error", "cancelled"}
Outcomes == {"none", "ok", "busy", "error", "lost", "cancelled"}

\* The heartbeat runs between the grant and the release; the heartbeat cancels
\* once; every other cancellation is the client's (n counts those).
OwnerOK(o, b, n) ==
  /\ o.pc \in {"new", "acquire", "backout"} => b.pc = "off"
  /\ o.pc = "release" => b.pc = "over"
  /\ o.pc = "over" => b.pc \in {"off", "over"}
  /\ o.pc = "acquire" => o.op = "acquire"
  /\ o.pc \in {"backout", "release"} => o.op = "release"
  /\ o.pc = "commit" => o.op = "commit"
  /\ o.pc = "check" => o.op = "renew"
  /\ o.pc \in {"new", "body", "settle", "over"} => o.call = "none"
  /\ o.pc # "over" => o.outcome = "none"
  /\ o.requested => o.lost /\ b.pc \in {"over", "dead"}
  /\ o.cancelling <= n + 1
  /\ ~o.requested => o.cancelling <= n
  /\ o.pc \in {"acquire", "release"} /\ o.cancelled => n > 0
  /\ o.pc = "backout" => n > 0
  /\ o.pc \in {"commit", "check"} /\ o.cancelled => n > 0 \/ o.requested
  /\ o.exc = "cancelled" => n > 0 \/ o.requested
  /\ o.outcome = "cancelled" => n > 0

\* The acquisition has not been executed.
Fresh(o) == o.pc = "new" \/ (o.op = "acquire" /\ o.call = "sent")

\* The session knows, or would know, that it has no row.
Cleared(o) ==
  \/ o.pc = "over"
  \/ o.pc \in {"backout", "release"} /\ o.call \in {"true", "false"}
  \/ o.pc = "acquire" /\ o.call = "false"

\* A token is granted once: a session that lost the row never has it again.
RowOK(s, o) ==
  /\ Fresh(o) => row # s /\ writer # s /\ s \notin overtaken /\ s \notin intruded
  /\ s \in overtaken \cup intruded => row # s
  /\ o.pc = "release" /\ o.call = "true" => s \notin intruded
  /\ o.outcome = "ok" => s \notin intruded
  /\ o.call = "error" => s \in failed
  /\ Cleared(o) => row # s \/ s \in failed

IInv ==
  /\ TypeOK
  /\ \A s \in Sessions : OwnerOK(owner[s], beat[s], cancels[s])
  /\ \A s \in Sessions : RowOK(s, owner[s])
  /\ WritesDoNotInterleave

-----------------------------------------------------------------------------
(* The records the steps of a session write.                               *)

LEMMA NewRecord ==
  /\ NewOwner \in Owner
  /\ NewOwner.pc = "new" /\ NewOwner.op = "none" /\ NewOwner.call = "none"
  /\ ~NewOwner.cancelled /\ NewOwner.exc = "none" /\ ~NewOwner.lost /\ ~NewOwner.requested
  /\ NewOwner.cancelling = 0 /\ NewOwner.outcome = "none"
  BY DEF NewOwner, Owner, Reply

LEMMA SendsRecord ==
  ASSUME NEW o \in Owner, NEW pc \in Places, NEW op \in Operations
  PROVE  LET x == Sends(o, pc, op) IN
         /\ x \in Owner
         /\ x.pc = pc /\ x.op = op /\ x.call = "sent" /\ ~x.cancelled
         /\ x.exc = o.exc /\ x.lost = o.lost /\ x.requested = o.requested
         /\ x.cancelling = o.cancelling /\ x.outcome = o.outcome
<1> DEFINE x == [o EXCEPT !.pc = pc, !.op = op, !.call = "sent", !.cancelled = FALSE]
<1>1. x = Sends(o, pc, op)
  BY DEF Sends
<1>2. x \in Owner
  BY DEF Owner, Reply, Places, Operations
<1>3. /\ x.pc = pc /\ x.op = op /\ x.call = "sent" /\ ~x.cancelled
      /\ x.exc = o.exc /\ x.lost = o.lost /\ x.requested = o.requested
      /\ x.cancelling = o.cancelling /\ x.outcome = o.outcome
  BY DEF Owner
<1> HIDE DEF x
<1>4. QED
  BY <1>1, <1>2, <1>3

LEMMA EndsRecord ==
  ASSUME NEW outcome \in Outcomes
  PROVE  LET x == Ends(outcome) IN
         /\ x \in Owner
         /\ x.pc = "over" /\ x.op = "none" /\ x.call = "none" /\ ~x.cancelled
         /\ x.exc = "none" /\ ~x.lost /\ ~x.requested
         /\ x.cancelling = 0 /\ x.outcome = outcome
  BY DEF Ends, NewOwner, Owner, Reply, Outcomes

LEMMA LeavingRecord ==
  ASSUME NEW s \in Sessions, NEW o \in Owner, NEW exc \in Exceptions
  PROVE  LET x == Leaving(s, o, exc) IN
         /\ x \in Owner
         /\ beat[s].pc = "over" => x.pc = "release" /\ x.op = "release" /\ x.call = "sent"
         /\ beat[s].pc # "over" => x.pc = "settle" /\ x.op = "none" /\ x.call = "none"
         /\ ~x.cancelled /\ x.exc = exc /\ x.lost = o.lost /\ x.requested = o.requested
         /\ x.cancelling = o.cancelling /\ x.outcome = o.outcome
<1>1. CASE beat[s].pc = "over"
  <2>1. PICK y \in Owner : y = Sends(o, "release", "release")
    BY SendsRecord DEF Places, Operations
  <2>2. Leaving(s, o, exc) = [y EXCEPT !.exc = exc]
    BY <1>1, <2>1 DEF Leaving
  <2>3. /\ y.pc = "release" /\ y.op = "release" /\ y.call = "sent" /\ ~y.cancelled
        /\ y.lost = o.lost /\ y.requested = o.requested
        /\ y.cancelling = o.cancelling /\ y.outcome = o.outcome
    BY <2>1, SendsRecord DEF Places, Operations
  <2>4. QED
    BY <1>1, <2>1, <2>2, <2>3 DEF Owner, Exceptions
<1>2. CASE beat[s].pc # "over"
  BY <1>2 DEF Leaving, Owner, Reply, Exceptions
<1>3. QED
  BY <1>1, <1>2

LEMMA StoppedRecord ==
  ASSUME NEW s \in Sessions, beat[s] \in Beat
  PROVE  StoppedBeat(s) \in Beat /\ StoppedBeat(s).pc = beat[s].pc
  BY DEF StoppedBeat, Beat

-----------------------------------------------------------------------------
(* A step of a session that does not reach the database.                   *)

LEMMA OwnStep ==
  ASSUME IInv, NEW s \in Sessions, NEW o \in Owner, NEW b \in Beat,
         owner' = [owner EXCEPT ![s] = o], beat' = [beat EXCEPT ![s] = b],
         UNCHANGED <<row, live, writer, overtaken, intruded>>,
         cancels' \in [Sessions -> 0..MaxCancels],
         \A t \in Sessions \ {s} : cancels'[t] = cancels[t],
         faults' \in 0..MaxFaults,
         failed' \in {failed, failed \cup {s}},
         OwnerOK(o, b, cancels'[s]),
         Fresh(o) => Fresh(owner[s]),
         o.pc = "release" /\ o.call = "true" =>
           owner[s].pc = "release" /\ owner[s].call = "true",
         o.outcome = "ok" => owner[s].pc = "release" /\ owner[s].call = "true",
         o.call \in {owner[s].call, "none", "sent"},
         Cleared(o) => Cleared(owner[s]) \/ owner[s].call = "error"
  PROVE  IInv'
<1>1. /\ owner'[s] = o /\ beat'[s] = b
      /\ \A t \in Sessions \ {s} : owner'[t] = owner[t] /\ beat'[t] = beat[t]
      /\ owner' \in [Sessions -> Owner] /\ beat' \in [Sessions -> Beat]
  BY DEF IInv, TypeOK
<1>2. TypeOK'
  BY <1>1 DEF IInv, TypeOK, OwnerOK
<1>3. (\A t \in Sessions : OwnerOK(owner[t], beat[t], cancels[t]))'
  BY <1>1 DEF IInv
<1>4. RowOK(s, owner[s])'
  <2>1. RowOK(s, owner[s])
    BY DEF IInv
  <2>2. QED
    BY <1>1, <2>1 DEF RowOK
<1>5. \A t \in Sessions \ {s} : RowOK(t, owner[t])'
  <2>1. SUFFICES ASSUME NEW t \in Sessions \ {s} PROVE RowOK(t, owner[t])'
    OBVIOUS
  <2>2. RowOK(t, owner[t]) /\ owner'[t] = owner[t]
    BY <1>1 DEF IInv
  <2>3. QED
    BY <2>2 DEF RowOK
<1>6. WritesDoNotInterleave'
  BY DEF IInv, WritesDoNotInterleave
<1>7. QED
  BY <1>2, <1>3, <1>4, <1>5, <1>6 DEF IInv

\* What the invariant says of one session.
LEMMA Session ==
  ASSUME IInv, NEW s \in Sessions
  PROVE  /\ owner[s] \in Owner /\ beat[s] \in Beat /\ cancels[s] \in Nat
         /\ cancels[s] \in 0..MaxCancels /\ cancels \in [Sessions -> 0..MaxCancels]
         /\ faults \in 0..MaxFaults /\ failed \subseteq Sessions
         /\ owner = [owner EXCEPT ![s] = owner[s]] /\ beat = [beat EXCEPT ![s] = beat[s]]
         /\ owner[s].cancelling \in Nat
         /\ OwnerOK(owner[s], beat[s], cancels[s]) /\ RowOK(s, owner[s])
  BY BoundsAssumption DEF IInv, TypeOK, Owner

\* Such a step in which nobody cancels and nothing fails.
LEMMA QuietStep ==
  ASSUME IInv, NEW s \in Sessions, NEW o \in Owner, NEW b \in Beat,
         owner' = [owner EXCEPT ![s] = o], beat' = [beat EXCEPT ![s] = b],
         UNCHANGED <<row, live, writer, overtaken, intruded, cancels, faults, failed>>,
         OwnerOK(o, b, cancels[s]),
         Fresh(o) => Fresh(owner[s]),
         o.pc = "release" /\ o.call = "true" =>
           owner[s].pc = "release" /\ owner[s].call = "true",
         o.outcome = "ok" => owner[s].pc = "release" /\ owner[s].call = "true",
         o.call \in {owner[s].call, "none", "sent"},
         Cleared(o) => Cleared(owner[s]) \/ owner[s].call = "error"
  PROVE  IInv'
  BY Session, OwnStep

\* The exit begins, with this exception: the record it begins from is the
\* owner's up to what a cancellation or a refused check has just noted.
LEMMA LeaveStep ==
  ASSUME IInv, NEW s \in Sessions, NEW o \in Owner, NEW exc \in Exceptions, Leave(s, o, exc),
         owner[s].pc \in {"body", "check", "commit"},
         o.outcome = owner[s].outcome, o.requested = owner[s].requested,
         o.requested => o.lost,
         UNCHANGED <<row, live, writer, overtaken, intruded, faults, failed>>,
         cancels' \in [Sessions -> 0..MaxCancels],
         \A t \in Sessions \ {s} : cancels'[t] = cancels[t],
         cancels[s] <= cancels'[s],
         o.cancelling <= cancels'[s] + 1, ~o.requested => o.cancelling <= cancels'[s],
         exc = "cancelled" => cancels'[s] > 0 \/ o.requested
  PROVE  IInv'
<1>1. /\ owner[s] \in Owner /\ beat[s] \in Beat /\ cancels[s] \in Nat
      /\ OwnerOK(owner[s], beat[s], cancels[s])
      /\ faults \in 0..MaxFaults /\ failed \subseteq Sessions
  BY Session
<1>2. PICK x \in Owner : x = Leaving(s, o, exc)
  BY LeavingRecord
<1>3. PICK b \in Beat : b = StoppedBeat(s) /\ b.pc = beat[s].pc
  BY <1>1, StoppedRecord
<1>4. owner' = [owner EXCEPT ![s] = x] /\ beat' = [beat EXCEPT ![s] = b]
  BY <1>2, <1>3 DEF Leave
<1>5. /\ b.pc = "over" => x.pc = "release" /\ x.op = "release" /\ x.call = "sent"
      /\ b.pc # "over" => x.pc = "settle" /\ x.op = "none" /\ x.call = "none"
      /\ ~x.cancelled /\ x.exc = exc /\ x.lost = o.lost /\ x.requested = o.requested
      /\ x.cancelling = o.cancelling /\ x.outcome = o.outcome
  BY <1>2, <1>3, LeavingRecord
<1>6. OwnerOK(x, b, cancels'[s])
  BY <1>1, <1>3, <1>5 DEF OwnerOK
<1>7. ~Fresh(x) /\ ~Cleared(x) /\ x.call # "true" /\ x.outcome # "ok"
  BY <1>1, <1>5 DEF Fresh, Cleared, OwnerOK
<1>8. x.call \in {owner[s].call, "none", "sent"}
  BY <1>5
<1>9. QED
  BY <1>1, <1>4, <1>6, <1>7, <1>8, OwnStep

-----------------------------------------------------------------------------
(* The owner.                                                              *)

LEMMA EnterStep ==
  ASSUME IInv, NEW s \in Sessions, Enter(s)
  PROVE  IInv'
<1>1. PICK x \in Owner : x = Sends(owner[s], "acquire", "acquire")
  BY Session, SendsRecord DEF Places, Operations
<1>2. /\ x.pc = "acquire" /\ x.op = "acquire" /\ x.call = "sent" /\ ~x.cancelled
      /\ x.exc = owner[s].exc /\ x.lost = owner[s].lost /\ x.requested = owner[s].requested
      /\ x.cancelling = owner[s].cancelling /\ x.outcome = owner[s].outcome
  BY <1>1, Session, SendsRecord DEF Places, Operations
<1>3. /\ owner' = [owner EXCEPT ![s] = x] /\ owner[s].pc = "new"
      /\ UNCHANGED <<row, live, beat, writer, overtaken, intruded, cancels, faults, failed>>
  BY <1>1 DEF Enter
<1>4. OwnerOK(x, beat[s], cancels[s])
  BY <1>2, <1>3, Session DEF OwnerOK
<1>5. Fresh(owner[s]) /\ ~Cleared(x) /\ x.outcome # "ok"
  BY <1>2, <1>3, Session DEF Fresh, Cleared, OwnerOK
<1>6. QED
  BY <1>2, <1>3, <1>4, <1>5, Session, QuietStep

\* A session ends, with an outcome, from where its row is accounted for.
LEMMA EndStep ==
  ASSUME IInv, NEW s \in Sessions, NEW outcome \in Outcomes \ {"none"},
         owner' = [owner EXCEPT ![s] = Ends(outcome)],
         UNCHANGED <<row, live, beat, writer, overtaken, intruded, cancels, faults, failed>>,
         owner[s].pc \in {"acquire", "backout", "release"},
         Cleared(owner[s]) \/ owner[s].call = "error",
         outcome = "cancelled" => cancels[s] > 0,
         outcome = "ok" => owner[s].pc = "release" /\ owner[s].call = "true"
  PROVE  IInv'
<1>1. PICK x \in Owner : x = Ends(outcome)
  BY EndsRecord
<1>2. /\ x.pc = "over" /\ x.op = "none" /\ x.call = "none" /\ ~x.cancelled
      /\ x.exc = "none" /\ ~x.lost /\ ~x.requested
      /\ x.cancelling = 0 /\ x.outcome = outcome
  BY <1>1, EndsRecord
<1>3. OwnerOK(x, beat[s], cancels[s])
  BY <1>2, Session DEF OwnerOK
<1>4. ~Fresh(x)
  BY <1>2 DEF Fresh
<1>5. QED
  BY <1>1, <1>2, <1>3, <1>4, Session, QuietStep

LEMMA EnteredStep ==
  ASSUME IInv, NEW s \in Sessions, Entered(s)
  PROVE  IInv'
<1>1. UNCHANGED <<row, live, writer, overtaken, intruded, cancels, faults, failed>>
  BY DEF Entered
<1>2. /\ owner[s] \in Owner /\ beat[s] \in Beat /\ owner[s].pc = "acquire" /\ ~owner[s].cancelled
      /\ OwnerOK(owner[s], beat[s], cancels[s]) /\ owner[s].cancelling \in Nat
      /\ cancels[s] \in Nat
  BY Session DEF Entered, Returns
<1>3. CASE owner[s].call = "true"
  <2>1. PICK x : x = [owner[s] EXCEPT !.pc = "body", !.op = "none", !.call = "none"]
    OBVIOUS
  <2>2. PICK b : b = [beat[s] EXCEPT !.pc = "asleep"]
    OBVIOUS
  <2>3. x \in Owner /\ b \in Beat
    BY <1>2, <2>1, <2>2 DEF Owner, Beat, Reply
  <2>4. owner' = [owner EXCEPT ![s] = x] /\ beat' = [beat EXCEPT ![s] = b]
    BY <1>3, <2>1, <2>2 DEF Entered, Returns
  <2>5. /\ x.pc = "body" /\ x.op = "none" /\ x.call = "none" /\ ~x.cancelled
        /\ x.exc = owner[s].exc /\ x.lost = owner[s].lost /\ x.requested = owner[s].requested
        /\ x.cancelling = owner[s].cancelling /\ x.outcome = owner[s].outcome
    BY <1>2, <2>1 DEF Owner
  <2>6. OwnerOK(x, b, cancels[s])
    BY <1>2, <2>5 DEF OwnerOK
  <2>7. ~Fresh(x) /\ ~Cleared(x) /\ x.outcome # "ok"
    BY <1>2, <2>5 DEF Fresh, Cleared, OwnerOK
  <2>8. QED
    BY <1>1, <2>3, <2>4, <2>5, <2>6, <2>7, QuietStep
<1>4. CASE owner[s].call = "false"
  <2>1. owner' = [owner EXCEPT ![s] = Ends("busy")] /\ beat' = beat
    BY <1>4 DEF Entered, Returns
  <2>2. QED
    BY <1>1, <1>2, <1>4, <2>1, EndStep DEF Cleared, Outcomes
<1>5. CASE owner[s].call = "error"
  <2>1. owner' = [owner EXCEPT ![s] = Ends("error")] /\ beat' = beat
    BY <1>5 DEF Entered, Returns
  <2>2. QED
    BY <1>1, <1>2, <1>5, <2>1, EndStep DEF Outcomes
<1>6. QED
  BY <1>3, <1>4, <1>5 DEF Entered, Returns

LEMMA EnterCancelledStep ==
  ASSUME IInv, NEW s \in Sessions, EnterCancelled(s)
  PROVE  IInv'
<1>1. PICK x \in Owner : x = Sends(owner[s], "backout", "release")
  BY Session, SendsRecord DEF Places, Operations
<1>2. /\ x.pc = "backout" /\ x.op = "release" /\ x.call = "sent" /\ ~x.cancelled
      /\ x.exc = owner[s].exc /\ x.lost = owner[s].lost /\ x.requested = owner[s].requested
      /\ x.cancelling = owner[s].cancelling /\ x.outcome = owner[s].outcome
  BY <1>1, Session, SendsRecord DEF Places, Operations
<1>3. /\ owner' = [owner EXCEPT ![s] = x] /\ owner[s].pc = "acquire" /\ owner[s].cancelled
      /\ UNCHANGED <<row, live, beat, writer, overtaken, intruded, cancels, faults, failed>>
  BY <1>1 DEF EnterCancelled, AfterCancelledAcquire, Raises
<1>4. OwnerOK(x, beat[s], cancels[s])
  BY <1>2, <1>3, Session DEF OwnerOK
<1>5. ~Fresh(x) /\ ~Cleared(x) /\ x.outcome # "ok"
  BY <1>2, <1>3, Session DEF Fresh, Cleared, OwnerOK
<1>6. QED
  BY <1>2, <1>3, <1>4, <1>5, Session, QuietStep

LEMMA BackedOutStep ==
  ASSUME IInv, NEW s \in Sessions, BackedOut(s)
  PROVE  IInv'
<1>1. owner[s].pc = "backout" /\ (Cleared(owner[s]) \/ owner[s].call = "error")
  BY DEF BackedOut, Settled, Cleared
<1>2. cancels[s] > 0
  BY <1>1, Session DEF OwnerOK
<1>3. QED
  BY <1>1, <1>2, EndStep DEF BackedOut, Outcomes

LEMMA FinishStep ==
  ASSUME IInv, NEW s \in Sessions, Finish(s)
  PROVE  IInv'
<1>1. PICK exc \in {"none", "error"} : Leave(s, owner[s], exc)
  BY DEF Finish
<1>2. exc \in Exceptions /\ exc # "cancelled"
  BY DEF Exceptions
<1>3. QED
  BY <1>1, <1>2, Session, LeaveStep DEF Finish, OwnerOK

LEMMA CallSteps ==
  ASSUME IInv, NEW s \in Sessions, Write(s) \/ Check(s)
  PROVE  IInv'
<1>1. PICK pc \in Places, op \in Operations :
        /\ owner' = [owner EXCEPT ![s] = Sends(owner[s], pc, op)]
        /\ (pc = "commit" /\ op = "commit") \/ (pc = "check" /\ op = "renew")
  <2>1. CASE Write(s)
    BY <2>1 DEF Write, Places, Operations
  <2>2. CASE Check(s)
    BY <2>2 DEF Check, Places, Operations
  <2>3. QED
    BY <2>1, <2>2
<1>2. PICK x \in Owner : x = Sends(owner[s], pc, op)
  BY Session, SendsRecord
<1>3. /\ x.pc = pc /\ x.op = op /\ x.call = "sent" /\ ~x.cancelled
      /\ x.exc = owner[s].exc /\ x.lost = owner[s].lost /\ x.requested = owner[s].requested
      /\ x.cancelling = owner[s].cancelling /\ x.outcome = owner[s].outcome
  BY <1>2, Session, SendsRecord
<1>4. /\ owner' = [owner EXCEPT ![s] = x] /\ owner[s].pc = "body"
      /\ UNCHANGED <<row, live, beat, writer, overtaken, intruded, cancels, faults, failed>>
  BY <1>1, <1>2 DEF Write, Check
<1>5. OwnerOK(x, beat[s], cancels[s])
  BY <1>1, <1>3, <1>4, Session DEF OwnerOK
<1>6. ~Fresh(x) /\ ~Cleared(x) /\ x.outcome # "ok"
  BY <1>1, <1>3, <1>4, Session DEF Fresh, Cleared, OwnerOK
<1>7. QED
  BY <1>1, <1>3, <1>4, <1>5, <1>6, Session, QuietStep

LEMMA ContinueStep ==
  ASSUME IInv, NEW s \in Sessions, Continue(s)
  PROVE  IInv'
<1>1. /\ owner[s].pc \in {"commit", "check"} /\ ~owner[s].cancelled
      /\ UNCHANGED <<row, live, writer, overtaken, intruded, cancels, faults, failed>>
  BY DEF Continue
<1>2. /\ owner[s] \in Owner /\ OwnerOK(owner[s], beat[s], cancels[s])
      /\ cancels[s] \in Nat /\ cancels \in [Sessions -> 0..MaxCancels]
      /\ owner[s].cancelling \in Nat
  BY Session
<1>3. CASE owner[s].call = "true"
  <2>1. PICK x : x = [owner[s] EXCEPT !.pc = "body", !.op = "none", !.call = "none"]
    OBVIOUS
  <2>2. x \in Owner
    BY <1>2, <2>1 DEF Owner, Reply
  <2>3. owner' = [owner EXCEPT ![s] = x] /\ beat' = [beat EXCEPT ![s] = beat[s]]
    BY <1>3, <2>1, Session DEF Continue
  <2>4. /\ x.pc = "body" /\ x.op = "none" /\ x.call = "none" /\ ~x.cancelled
        /\ x.exc = owner[s].exc /\ x.lost = owner[s].lost /\ x.requested = owner[s].requested
        /\ x.cancelling = owner[s].cancelling /\ x.outcome = owner[s].outcome
    BY <1>1, <1>2, <2>1 DEF Owner
  <2>5. OwnerOK(x, beat[s], cancels[s])
    BY <1>1, <1>2, <2>4 DEF OwnerOK
  <2>6. ~Fresh(x) /\ ~Cleared(x) /\ x.outcome # "ok"
    BY <1>1, <1>2, <2>4 DEF Fresh, Cleared, OwnerOK
  <2>7. QED
    BY <1>1, <2>2, <2>3, <2>4, <2>5, <2>6, Session, QuietStep
<1>4. CASE owner[s].call # "true"
  <2>1. PICK lost \in BOOLEAN :
          lost = (owner[s].lost \/ (owner[s].pc = "check" /\ owner[s].call = "false"))
    BY <1>2 DEF Owner
  <2>2. PICK x : x = [owner[s] EXCEPT !.lost = lost]
    OBVIOUS
  <2>3. /\ x \in Owner /\ x.lost = lost /\ x.outcome = owner[s].outcome
        /\ x.requested = owner[s].requested /\ x.cancelling = owner[s].cancelling
    BY <1>2, <2>2 DEF Owner
  <2>4. Leave(s, x, "error")
    BY <1>4, <2>1, <2>2 DEF Continue
  <2>5. x.requested => x.lost
    BY <1>2, <2>1, <2>3 DEF OwnerOK
  <2>6. x.cancelling <= cancels[s] + 1 /\ (~x.requested => x.cancelling <= cancels[s])
    BY <1>2, <2>3 DEF OwnerOK
  <2>7. QED
    BY <1>1, <1>2, <2>3, <2>4, <2>5, <2>6, LeaveStep DEF Exceptions
<1>5. QED
  BY <1>3, <1>4

LEMMA InterruptedStep ==
  ASSUME IInv, NEW s \in Sessions, Interrupted(s)
  PROVE  IInv'
<1>1. /\ owner[s].pc \in {"commit", "check"} /\ owner[s].cancelled
      /\ Leave(s, owner[s], "cancelled")
      /\ UNCHANGED <<row, live, writer, overtaken, intruded, cancels, faults, failed>>
  BY DEF Interrupted, Raises
<1>2. cancels[s] > 0 \/ owner[s].requested
  BY <1>1, Session DEF OwnerOK
<1>3. QED
  BY <1>1, <1>2, Session, LeaveStep DEF OwnerOK, Exceptions

LEMMA ReleaseStep ==
  ASSUME IInv, NEW s \in Sessions, Release(s)
  PROVE  IInv'
<1>1. PICK x \in Owner : x = Sends(owner[s], "release", "release")
  BY Session, SendsRecord DEF Places, Operations
<1>2. /\ x.pc = "release" /\ x.op = "release" /\ x.call = "sent" /\ ~x.cancelled
      /\ x.exc = owner[s].exc /\ x.lost = owner[s].lost /\ x.requested = owner[s].requested
      /\ x.cancelling = owner[s].cancelling /\ x.outcome = owner[s].outcome
  BY <1>1, Session, SendsRecord DEF Places, Operations
<1>3. /\ owner' = [owner EXCEPT ![s] = x] /\ owner[s].pc = "settle" /\ beat[s].pc = "over"
      /\ UNCHANGED <<row, live, beat, writer, overtaken, intruded, cancels, faults, failed>>
  BY <1>1 DEF Release
<1>4. OwnerOK(x, beat[s], cancels[s])
  BY <1>2, <1>3, Session DEF OwnerOK
<1>5. ~Fresh(x) /\ ~Cleared(x) /\ x.outcome # "ok"
  BY <1>2, <1>3, Session DEF Fresh, Cleared, OwnerOK
<1>6. QED
  BY <1>2, <1>3, <1>4, <1>5, Session, QuietStep

\* A clean outcome takes a release that found its row; a cancelled one, a
\* cancellation that is not the lease's own.
LEMMA ExitStep ==
  ASSUME IInv, NEW s \in Sessions, Exit(s)
  PROVE  IInv'
<1>1. owner[s].pc = "release" /\ (Cleared(owner[s]) \/ owner[s].call = "error")
  BY DEF Exit, Settled, Cleared
<1>2. PICK outcome : outcome = Outcome(owner[s])
  OBVIOUS
<1>3. outcome \in Outcomes \ {"none"}
  BY <1>2 DEF Outcome, Outcomes
<1>4. /\ owner[s].exc \in Exceptions /\ owner[s].cancelling \in Nat /\ cancels[s] \in Nat
      /\ OwnerOK(owner[s], beat[s], cancels[s])
  BY Session DEF Owner, Exceptions
<1>5. outcome = "cancelled" => cancels[s] > 0
  <2>1. CASE owner[s].cancelled
    BY <1>1, <1>4, <2>1 DEF OwnerOK
  <2>2. CASE owner[s].exc = "cancelled" /\ (~owner[s].requested \/ owner[s].cancelling > 1)
    BY <1>4, <2>2 DEF OwnerOK
  <2>3. CASE /\ ~owner[s].cancelled
             /\ ~(owner[s].exc = "cancelled" /\ (~owner[s].requested \/ owner[s].cancelling > 1))
    BY <1>2, <2>3 DEF Outcome
  <2>4. QED
    BY <2>1, <2>2, <2>3
<1>6. outcome = "ok" => owner[s].call = "true"
  <2>1. CASE owner[s].exc = "none"
    BY <1>2, <2>1 DEF Outcome
  <2>2. CASE owner[s].exc = "error"
    BY <1>2, <2>2 DEF Outcome
  <2>3. CASE owner[s].exc = "cancelled"
    BY <1>2, <1>4, <2>3 DEF Outcome, OwnerOK
  <2>4. QED
    BY <1>4, <2>1, <2>2, <2>3 DEF Exceptions
<1>7. owner' = [owner EXCEPT ![s] = Ends(outcome)]
  BY <1>2 DEF Exit
<1>8. UNCHANGED <<row, live, beat, writer, overtaken, intruded, cancels, faults, failed>>
  BY DEF Exit
<1>9. QED
  BY <1>1, <1>3, <1>5, <1>6, <1>7, <1>8, EndStep

-----------------------------------------------------------------------------
(* The heartbeat, the client, the process.                                 *)

\* A heartbeat that is running moves, or ends, and leaves its owner alone.
LEMMA BeatMoves ==
  ASSUME IInv, NEW s \in Sessions, NEW b \in Beat, beat[s].pc \in {"asleep", "renew"},
         b.pc \in {"asleep", "renew", "over"}, beat' = [beat EXCEPT ![s] = b],
         UNCHANGED <<row, live, owner, writer, overtaken, intruded, cancels, faults, failed>>
  PROVE  IInv'
<1>1. OwnerOK(owner[s], b, cancels[s])
  BY Session DEF OwnerOK
<1>2. owner[s].outcome # "ok"
  BY Session DEF OwnerOK
<1>3. QED
  BY <1>1, <1>2, Session, QuietStep

LEMMA BeatSteps ==
  ASSUME IInv, NEW s \in Sessions, Tick(s) \/ Renewed(s) \/ BeatEnds(s)
  PROVE  IInv'
<1>1. beat[s] \in Beat
  BY Session
<1>2. CASE Tick(s)
  <2>1. PICK b : b = [beat[s] EXCEPT !.pc = "renew", !.call = "sent"]
    OBVIOUS
  <2>2. b \in Beat /\ b.pc = "renew"
    BY <1>1, <2>1 DEF Beat, Reply
  <2>3. beat' = [beat EXCEPT ![s] = b]
    BY <1>2, <2>1 DEF Tick
  <2>4. QED
    BY <1>2, <2>2, <2>3, BeatMoves DEF Tick
<1>3. CASE Renewed(s)
  <2>1. PICK b : b = [beat[s] EXCEPT !.pc = "asleep", !.call = "none"]
    OBVIOUS
  <2>2. b \in Beat /\ b.pc = "asleep"
    BY <1>1, <2>1 DEF Beat, Reply
  <2>3. beat' = [beat EXCEPT ![s] = b]
    BY <1>3, <2>1 DEF Renewed
  <2>4. QED
    BY <1>3, <2>2, <2>3, BeatMoves DEF Renewed
<1>4. CASE BeatEnds(s)
  <2>1. PICK b : b = [pc |-> "over", call |-> "none", cancelled |-> FALSE]
    OBVIOUS
  <2>2. b \in Beat /\ b.pc = "over"
    BY <2>1 DEF Beat, Reply
  <2>3. beat' = [beat EXCEPT ![s] = b]
    BY <1>4, <2>1 DEF BeatEnds
  <2>4. QED
    BY <1>4, <2>2, <2>3, BeatMoves DEF BeatEnds
<1>5. QED
  BY <1>2, <1>3, <1>4

\* The heartbeat has not cancelled before, so its cancellation is the first.
LEMMA LoseStep ==
  ASSUME IInv, NEW s \in Sessions, Lose(s)
  PROVE  IInv'
<1>1. /\ owner[s] \in Owner /\ beat[s] \in Beat /\ OwnerOK(owner[s], beat[s], cancels[s])
      /\ cancels[s] \in Nat /\ owner[s].cancelling \in Nat /\ beat[s].pc = "renew"
      /\ UNCHANGED <<row, live, writer, overtaken, intruded, cancels, faults, failed>>
  BY Session DEF Lose
<1>2. ~owner[s].requested /\ owner[s].pc \notin {"new", "acquire", "backout", "release", "over"}
  BY <1>1 DEF OwnerOK
<1>3. PICK b : b = [beat[s] EXCEPT !.pc = "over", !.call = "none"]
  OBVIOUS
<1>4. b \in Beat /\ b.pc = "over"
  BY <1>1, <1>3 DEF Beat, Reply
<1>5. PICK c \in Nat : c = owner[s].cancelling + 1
  BY <1>1
<1>6. PICK o : o = [owner[s] EXCEPT !.lost = TRUE, !.requested = TRUE, !.cancelling = c]
  OBVIOUS
<1>7. /\ o \in Owner /\ o.lost /\ o.requested /\ o.cancelling = c
      /\ o.pc = owner[s].pc /\ o.op = owner[s].op /\ o.call = owner[s].call
      /\ o.exc = owner[s].exc /\ o.outcome = owner[s].outcome
  BY <1>1, <1>6 DEF Owner
<1>8. CASE owner[s].pc = "body"
  <2>1. PICK y \in Owner : y = Sends(o, "release", "release")
    BY <1>7, SendsRecord DEF Places, Operations
  <2>2. /\ y.pc = "release" /\ y.op = "release" /\ y.call = "sent" /\ ~y.cancelled
        /\ y.lost /\ y.requested /\ y.cancelling = c /\ y.outcome = owner[s].outcome
    BY <1>7, <2>1, SendsRecord DEF Places, Operations
  <2>3. PICK x : x = [y EXCEPT !.exc = "cancelled"]
    OBVIOUS
  <2>4. /\ x \in Owner /\ x.pc = "release" /\ x.op = "release" /\ x.call = "sent" /\ ~x.cancelled
        /\ x.lost /\ x.requested /\ x.cancelling = c /\ x.outcome = owner[s].outcome
    BY <2>2, <2>3 DEF Owner
  <2>5. LosingOwner(s) = x
    BY <1>5, <1>6, <1>7, <1>8, <2>1, <2>3 DEF LosingOwner
  <2>6. owner' = [owner EXCEPT ![s] = x] /\ beat' = [beat EXCEPT ![s] = b]
    BY <1>3, <2>5 DEF Lose
  <2>7. OwnerOK(x, b, cancels[s])
    BY <1>1, <1>2, <1>4, <1>5, <1>8, <2>4 DEF OwnerOK
  <2>8. ~Fresh(x) /\ ~Cleared(x) /\ x.outcome # "ok"
    BY <1>1, <1>8, <2>4 DEF Fresh, Cleared, OwnerOK
  <2>9. QED
    BY <1>1, <1>4, <2>4, <2>6, <2>7, <2>8, QuietStep
<1>9. CASE owner[s].pc # "body"
  <2>1. PICK x : x = [o EXCEPT !.cancelled = TRUE]
    OBVIOUS
  <2>2. /\ x \in Owner /\ x.lost /\ x.requested /\ x.cancelling = c
        /\ x.pc = owner[s].pc /\ x.op = owner[s].op /\ x.call = owner[s].call
        /\ x.exc = owner[s].exc /\ x.outcome = owner[s].outcome
    BY <1>7, <2>1 DEF Owner
  <2>3. LosingOwner(s) = x
    BY <1>5, <1>6, <1>7, <1>9, <2>1 DEF LosingOwner
  <2>4. owner' = [owner EXCEPT ![s] = x] /\ beat' = [beat EXCEPT ![s] = b]
    BY <1>3, <2>3 DEF Lose
  <2>5. OwnerOK(x, b, cancels[s])
    BY <1>1, <1>2, <1>4, <1>5, <1>9, <2>2 DEF OwnerOK
  <2>6. /\ Fresh(x) => Fresh(owner[s])
        /\ Cleared(x) => Cleared(owner[s])
        /\ x.outcome # "ok"
    BY <1>1, <1>2, <2>2 DEF Fresh, Cleared, OwnerOK
  <2>7. QED
    BY <1>1, <1>2, <1>4, <2>2, <2>4, <2>5, <2>6, QuietStep
<1>10. QED
  BY <1>8, <1>9

LEMMA ClientCancelStep ==
  ASSUME IInv, NEW s \in Sessions, ClientCancel(s)
  PROVE  IInv'
<1>1. /\ owner[s] \in Owner /\ OwnerOK(owner[s], beat[s], cancels[s]) /\ beat[s] \in Beat
      /\ cancels[s] \in Nat /\ owner[s].cancelling \in Nat /\ cancels[s] < MaxCancels
      /\ owner[s].pc \notin {"new", "over", "dead"} /\ faults \in 0..MaxFaults
      /\ UNCHANGED <<row, live, writer, overtaken, intruded, faults, failed>>
  BY Session DEF ClientCancel
<1>2. /\ cancels' \in [Sessions -> 0..MaxCancels] /\ cancels'[s] = cancels[s] + 1
      /\ \A t \in Sessions \ {s} : cancels'[t] = cancels[t]
  <2>1. PICK n \in 0..MaxCancels : n = cancels[s] + 1
    BY <1>1, BoundsAssumption
  <2>2. cancels' = [cancels EXCEPT ![s] = n]
    BY <2>1 DEF ClientCancel
  <2>3. QED
    BY <2>1, <2>2, Session
<1>3. PICK c \in Nat : c = owner[s].cancelling + 1
  BY <1>1
<1>4. PICK o : o = [owner[s] EXCEPT !.cancelling = c]
  OBVIOUS
<1>5. /\ o \in Owner /\ o.cancelling = c /\ o.lost = owner[s].lost /\ o.requested = owner[s].requested
      /\ o.pc = owner[s].pc /\ o.op = owner[s].op /\ o.call = owner[s].call
      /\ o.exc = owner[s].exc /\ o.outcome = owner[s].outcome
  BY <1>1, <1>4 DEF Owner
<1>6. CASE owner[s].pc = "body"
  <2>1. Leave(s, o, "cancelled")
    BY <1>3, <1>4, <1>5, <1>6 DEF ClientCancel
  <2>2. o.requested => o.lost
    BY <1>1, <1>5 DEF OwnerOK
  <2>3. /\ cancels[s] <= cancels'[s] /\ cancels'[s] > 0
        /\ o.cancelling <= cancels'[s] + 1 /\ (~o.requested => o.cancelling <= cancels'[s])
    BY <1>1, <1>2, <1>3, <1>5 DEF OwnerOK
  <2>4. QED
    BY <1>1, <1>2, <1>5, <1>6, <2>1, <2>2, <2>3, LeaveStep DEF Exceptions
<1>7. CASE owner[s].pc # "body"
  <2>1. PICK settling \in BOOLEAN : settling = (owner[s].pc # "settle")
    OBVIOUS
  <2>2. PICK x : x = [o EXCEPT !.cancelled = settling]
    OBVIOUS
  <2>3. /\ x \in Owner /\ x.cancelling = c /\ x.lost = owner[s].lost
        /\ x.requested = owner[s].requested /\ x.pc = owner[s].pc /\ x.op = owner[s].op
        /\ x.call = owner[s].call /\ x.exc = owner[s].exc /\ x.outcome = owner[s].outcome
    BY <1>5, <2>2 DEF Owner
  <2>4. owner' = [owner EXCEPT ![s] = x] /\ beat' = [beat EXCEPT ![s] = beat[s]]
    BY <1>3, <1>4, <1>5, <1>7, <2>1, <2>2, Session DEF ClientCancel
  <2>5. OwnerOK(x, beat[s], cancels'[s])
    BY <1>1, <1>2, <1>3, <2>3 DEF OwnerOK
  <2>6. /\ Fresh(x) => Fresh(owner[s])
        /\ Cleared(x) => Cleared(owner[s])
        /\ x.outcome # "ok"
    BY <1>1, <2>3 DEF Fresh, Cleared, OwnerOK
  <2>7. QED
    BY <1>1, <1>2, <2>3, <2>4, <2>5, <2>6, OwnStep
<1>8. QED
  BY <1>6, <1>7

LEMMA DieStep ==
  ASSUME IInv, NEW s \in Sessions, Die(s)
  PROVE  IInv'
<1>1. /\ owner[s] \in Owner /\ beat[s] \in Beat /\ cancels[s] \in Nat
      /\ cancels \in [Sessions -> 0..MaxCancels]
      /\ UNCHANGED <<row, live, writer, overtaken, intruded, cancels>>
      /\ failed' = failed \cup {s}
  BY Session DEF Die
<1>2. faults' \in 0..MaxFaults
  BY Session, BoundsAssumption DEF Die
<1>3. PICK x : x = [NewOwner EXCEPT !.pc = "dead", !.op = owner[s].op, !.call = owner[s].call]
  OBVIOUS
<1>4. /\ x \in Owner /\ x.pc = "dead" /\ x.op = owner[s].op /\ x.call = owner[s].call
      /\ ~x.requested /\ x.cancelling = 0 /\ x.exc = "none" /\ x.outcome = "none"
  BY <1>1, <1>3, NewRecord DEF Owner
<1>5. PICK b : b = [beat[s] EXCEPT !.pc = "dead", !.cancelled = FALSE]
  OBVIOUS
<1>6. b \in Beat /\ b.pc = "dead"
  BY <1>1, <1>5 DEF Beat
<1>7. owner' = [owner EXCEPT ![s] = x] /\ beat' = [beat EXCEPT ![s] = b]
  BY <1>3, <1>5 DEF Die
<1>8. OwnerOK(x, b, cancels[s])
  BY <1>1, <1>4, <1>6 DEF OwnerOK
<1>9. (Fresh(x) => Fresh(owner[s])) /\ ~Cleared(x)
  BY <1>4 DEF Fresh, Cleared
<1>10. QED
  BY <1>1, <1>2, <1>4, <1>6, <1>7, <1>8, <1>9, OwnStep

-----------------------------------------------------------------------------
(* The database.                                                           *)

\* What a call of a session does to the row, to itself and to the others.
LEMMA Executed ==
  ASSUME IInv, NEW s \in Sessions, NEW op \in Operations,
         op = "acquire" => Fresh(owner[s]),
         \/ Execute(op, s)
         \/ UNCHANGED <<row, live, writer, overtaken, intruded>>
  PROVE  /\ row' \in Sessions \cup {NoSession} /\ live' \in BOOLEAN
         /\ writer' \in Sessions \cup {NoSession}
         /\ overtaken' \subseteq Sessions /\ intruded' \subseteq Sessions
         /\ writer' \notin overtaken'
         /\ row' = row \/ row' = NoSession \/ (row' = s /\ op = "acquire")
         /\ s \in overtaken' <=> s \in overtaken
         /\ s \in intruded' <=> s \in intruded
         /\ s \in overtaken \cup intruded => row' # s
         /\ \A t \in Sessions \ {s} :
              /\ row' = t => row = t
              /\ writer' = t => writer = t
              /\ t \in overtaken' => t \in overtaken \/ (writer = t /\ row' # t)
              /\ t \in intruded' => t \in intruded \/ (Inside(t) /\ row' # t)
<1>1. /\ row \in Sessions \cup {NoSession} /\ live \in BOOLEAN
      /\ writer \in Sessions \cup {NoSession}
      /\ overtaken \subseteq Sessions /\ intruded \subseteq Sessions
      /\ writer \notin overtaken /\ RowOK(s, owner[s]) /\ NoSession \notin Sessions
  BY SessionsAssumption DEF IInv, TypeOK, WritesDoNotInterleave
<1>2. CASE UNCHANGED <<row, live, writer, overtaken, intruded>>
  BY <1>1, <1>2 DEF RowOK
<1>3. CASE Execute(op, s) /\ ~Answer(op, s)
  BY <1>1, <1>3 DEF RowOK, Execute
<1>4. CASE Execute(op, s) /\ Answer(op, s) /\ op = "acquire"
  <2>1. /\ row' = s /\ live' = TRUE /\ writer' = writer /\ overtaken' = overtaken
        /\ intruded' = intruded \cup {t \in Sessions \ {s} : Inside(t)}
    BY <1>4 DEF Execute
  <2>2. s \notin overtaken /\ s \notin intruded
    BY <1>1, <1>4 DEF RowOK
  <2>3. QED
    BY <1>1, <1>4, <2>1, <2>2
<1>5. CASE Execute(op, s) /\ Answer(op, s) /\ op = "commit"
  <2>1. /\ row' = row /\ live' = live /\ writer' = s /\ intruded' = intruded
        /\ overtaken' = overtaken \cup {t \in Sessions \ {s} : writer = t}
    BY <1>5 DEF Execute
  <2>2. row = s /\ s \notin overtaken
    BY <1>1, <1>5 DEF Answer, Held, RowOK
  <2>3. QED
    BY <1>1, <1>5, <2>1, <2>2 DEF RowOK
<1>6. CASE Execute(op, s) /\ Answer(op, s) /\ op \notin {"acquire", "commit"}
  <2>1. /\ row' \in {row, NoSession} /\ live' \in BOOLEAN /\ writer' = writer
        /\ overtaken' = overtaken /\ intruded' = intruded
    BY <1>6 DEF Execute
  <2>2. QED
    BY <1>1, <2>1 DEF RowOK
<1>7. QED
  BY <1>2, <1>3, <1>4, <1>5, <1>6

\* The others cannot tell, unless they lose the row by it.
LEMMA OthersKeep ==
  ASSUME IInv, NEW s \in Sessions, NEW op \in Operations,
         op = "acquire" => Fresh(owner[s]),
         \/ Execute(op, s)
         \/ UNCHANGED <<row, live, writer, overtaken, intruded>>,
         failed \subseteq failed',
         NEW t \in Sessions \ {s}, owner'[t] = owner[t]
  PROVE  RowOK(t, owner[t])'
<1>1. /\ row' = t => row = t
      /\ writer' = t => writer = t
      /\ t \in overtaken' => t \in overtaken \/ (writer = t /\ row' # t)
      /\ t \in intruded' => t \in intruded \/ (Inside(t) /\ row' # t)
  BY Executed
<1>2. RowOK(t, owner[t]) /\ OwnerOK(owner[t], beat[t], cancels[t])
  BY Session
<1>3. Fresh(owner[t]) => ~Inside(t)
  BY <1>2 DEF Fresh, Inside, OwnerOK
<1>4. owner[t].pc = "release" /\ owner[t].call = "true" => ~Inside(t)
  BY DEF Inside
<1>5. owner[t].outcome = "ok" => ~Inside(t)
  BY <1>2 DEF Inside, OwnerOK
<1>6. QED
  BY <1>1, <1>2, <1>3, <1>4, <1>5 DEF RowOK

LEMMA ServeOwnerStep ==
  ASSUME IInv, NEW s \in Sessions, ServeOwner(s)
  PROVE  IInv'
<1>1. PICK reply \in Reply :
        /\ Serve(owner[s].op, s, reply)
        /\ owner' = [owner EXCEPT ![s].call = reply]
  BY DEF ServeOwner
<1>2. /\ owner[s] \in Owner /\ owner[s].call = "sent" /\ owner[s].op \in Operations
      /\ OwnerOK(owner[s], beat[s], cancels[s]) /\ RowOK(s, owner[s])
      /\ faults \in 0..MaxFaults /\ failed \subseteq Sessions /\ UNCHANGED <<beat, cancels>>
  BY Session DEF ServeOwner, Owner, Operations
<1>3. PICK x : x = [owner[s] EXCEPT !.call = reply]
  OBVIOUS
<1>4. /\ x \in Owner /\ x.call = reply /\ x.pc = owner[s].pc /\ x.op = owner[s].op
      /\ x.cancelled = owner[s].cancelled /\ x.exc = owner[s].exc /\ x.lost = owner[s].lost
      /\ x.requested = owner[s].requested /\ x.cancelling = owner[s].cancelling
      /\ x.outcome = owner[s].outcome
  BY <1>2, <1>3 DEF Owner
<1>5. /\ owner' \in [Sessions -> Owner] /\ owner'[s] = x
      /\ \A t \in Sessions \ {s} : owner'[t] = owner[t]
  BY <1>1, <1>3, <1>4 DEF IInv, TypeOK
<1>6. /\ faults' \in 0..MaxFaults /\ failed' \subseteq Sessions /\ failed \subseteq failed'
      /\ reply = "error" => s \in failed'
      /\ reply \in {"true", "false", "error"}
      /\ \/ Execute(owner[s].op, s)
         \/ UNCHANGED <<row, live, writer, overtaken, intruded>>
      /\ reply = "true" => Execute(owner[s].op, s) /\ Answer(owner[s].op, s)
      /\ reply = "false" => Execute(owner[s].op, s) /\ ~Answer(owner[s].op, s)
  BY <1>1, <1>2, BoundsAssumption DEF Serve
<1>7. owner[s].op = "acquire" => Fresh(owner[s])
  BY <1>2 DEF Fresh
<1>8. /\ row' \in Sessions \cup {NoSession} /\ live' \in BOOLEAN
      /\ writer' \in Sessions \cup {NoSession}
      /\ overtaken' \subseteq Sessions /\ intruded' \subseteq Sessions
      /\ writer' \notin overtaken'
      /\ s \in overtaken' <=> s \in overtaken
      /\ s \in intruded' <=> s \in intruded
      /\ s \in overtaken \cup intruded => row' # s
  BY <1>2, <1>6, <1>7, Executed
<1>9. OwnerOK(x, beat[s], cancels[s])
  BY <1>2, <1>4 DEF OwnerOK
<1>10. TypeOK'
  BY <1>2, <1>5, <1>6, <1>8, <1>9 DEF IInv, TypeOK, OwnerOK
<1>11. (\A t \in Sessions : OwnerOK(owner[t], beat[t], cancels[t]))'
  BY <1>2, <1>5, <1>9 DEF IInv
<1>12. RowOK(s, owner[s])'
  <2>1. ~Fresh(x) /\ x.outcome # "ok"
    BY <1>2, <1>4, <1>6 DEF Fresh, OwnerOK
  <2>2. x.pc = "release" /\ x.call = "true" => s \notin intruded
    BY <1>2, <1>4, <1>6 DEF OwnerOK, Answer, Deletable, RowOK
  <2>3. ASSUME Cleared(x) PROVE row' # s \/ s \in failed'
    <3>1. CASE reply = "error"
      BY <1>6, <3>1
    <3>2. CASE x.pc \in {"backout", "release"} /\ reply = "true"
      BY <1>2, <1>4, <1>6, <3>2, SessionsAssumption DEF OwnerOK, Execute
    <3>3. CASE x.pc \in {"backout", "release"} /\ reply = "false"
      BY <1>2, <1>4, <1>6, <3>3 DEF OwnerOK, Execute, Answer, Deletable
    <3>4. CASE x.pc = "acquire" /\ reply = "false"
      <4>1. row # s
        BY <1>2, <1>4, <1>7, <3>4 DEF OwnerOK, RowOK
      <4>2. QED
        BY <1>2, <1>4, <1>6, <3>4, <4>1 DEF OwnerOK, Execute
    <3>5. x.pc # "over"
      BY <1>2, <1>4 DEF OwnerOK
    <3>6. QED
      BY <1>4, <2>3, <3>1, <3>2, <3>3, <3>4, <3>5 DEF Cleared
  <2>4. QED
    BY <1>4, <1>5, <1>6, <1>8, <2>1, <2>2, <2>3 DEF RowOK
<1>13. \A t \in Sessions \ {s} : RowOK(t, owner[t])'
  BY <1>2, <1>5, <1>6, <1>7, OthersKeep
<1>14. QED
  BY <1>8, <1>10, <1>11, <1>12, <1>13 DEF IInv, WritesDoNotInterleave

LEMMA ServeBeatStep ==
  ASSUME IInv, NEW s \in Sessions, ServeBeat(s)
  PROVE  IInv'
<1>1. PICK reply \in Reply :
        /\ Serve("renew", s, reply)
        /\ beat' = [beat EXCEPT ![s].call = reply]
  BY DEF ServeBeat
<1>2. /\ beat[s] \in Beat /\ OwnerOK(owner[s], beat[s], cancels[s]) /\ RowOK(s, owner[s])
      /\ faults \in 0..MaxFaults /\ failed \subseteq Sessions /\ UNCHANGED <<owner, cancels>>
      /\ "renew" \in Operations
  BY Session DEF ServeBeat, Operations
<1>3. /\ beat' \in [Sessions -> Beat] /\ beat'[s].pc = beat[s].pc
      /\ \A t \in Sessions \ {s} : beat'[t] = beat[t]
  BY <1>1, <1>2 DEF IInv, TypeOK, Beat
<1>4. /\ faults' \in 0..MaxFaults /\ failed' \subseteq Sessions /\ failed \subseteq failed'
      /\ \/ Execute("renew", s)
         \/ UNCHANGED <<row, live, writer, overtaken, intruded>>
  BY <1>1, <1>2, BoundsAssumption DEF Serve
<1>5. /\ row' \in Sessions \cup {NoSession} /\ live' \in BOOLEAN
      /\ writer' = writer /\ overtaken' = overtaken /\ intruded' = intruded /\ row' = row
  BY <1>4 DEF IInv, TypeOK, Execute
<1>6. TypeOK'
  BY <1>2, <1>3, <1>4, <1>5 DEF IInv, TypeOK
<1>7. (\A t \in Sessions : OwnerOK(owner[t], beat[t], cancels[t]))'
  BY <1>2, <1>3 DEF IInv, OwnerOK
<1>8. (\A t \in Sessions : RowOK(t, owner[t]))'
  BY <1>2, <1>4, <1>5 DEF IInv, RowOK
<1>9. QED
  BY <1>5, <1>6, <1>7, <1>8 DEF IInv, WritesDoNotInterleave

LEMMA LapseStep ==
  ASSUME IInv, Lapse
  PROVE  IInv'
<1>1. /\ live' = FALSE /\ faults' \in 0..MaxFaults
      /\ UNCHANGED <<row, owner, beat, cancels, writer, overtaken, intruded, failed>>
  BY BoundsAssumption DEF IInv, TypeOK, Lapse
<1>2. TypeOK'
  BY <1>1 DEF IInv, TypeOK
<1>3. (\A t \in Sessions : RowOK(t, owner[t]))'
  BY <1>1 DEF IInv, RowOK
<1>4. QED
  BY <1>1, <1>2, <1>3 DEF IInv, WritesDoNotInterleave

-----------------------------------------------------------------------------
(* The invariant, and what follows from it.                                *)

LEMMA Initially ==
  ASSUME Init
  PROVE  IInv
<1>1. PICK off : off = [pc |-> "off", call |-> "none", cancelled |-> FALSE]
  OBVIOUS
<1>2. /\ owner = [s \in Sessions |-> NewOwner] /\ beat = [s \in Sessions |-> off]
      /\ cancels = [s \in Sessions |-> 0]
  BY <1>1 DEF Init
<1>3. TypeOK
  <2>1. off \in Beat
    BY <1>1 DEF Beat, Reply
  <2>2. owner \in [Sessions -> Owner] /\ beat \in [Sessions -> Beat]
    BY <1>2, <2>1, NewRecord
  <2>3. cancels \in [Sessions -> 0..MaxCancels] /\ faults \in 0..MaxFaults
    BY <1>2, BoundsAssumption DEF Init
  <2>4. \A s \in Sessions : owner[s].pc = "new" /\ beat[s].pc = "off"
    BY <1>1, <1>2, NewRecord
  <2>5. QED
    BY <2>2, <2>3, <2>4 DEF Init, TypeOK
<1>4. \A s \in Sessions : OwnerOK(owner[s], beat[s], cancels[s])
  <2>1. SUFFICES ASSUME NEW s \in Sessions PROVE OwnerOK(owner[s], beat[s], cancels[s])
    OBVIOUS
  <2>2. owner[s] = NewOwner /\ beat[s].pc = "off" /\ cancels[s] = 0
    BY <1>1, <1>2
  <2>3. QED
    BY <2>2, NewRecord DEF OwnerOK
<1>5. \A s \in Sessions : RowOK(s, owner[s])
  BY <1>2, NewRecord, SessionsAssumption DEF Init, RowOK, Cleared
<1>6. QED
  BY <1>3, <1>4, <1>5 DEF IInv, Init, WritesDoNotInterleave

LEMMA SessionStep ==
  ASSUME IInv, NEW s \in Sessions,
         Run(s) \/ Heartbeat(s) \/ Database(s) \/ ClientCancel(s) \/ Die(s)
  PROVE  IInv'
<1>1. CASE Enter(s)
  BY <1>1, EnterStep
<1>2. CASE Entered(s)
  BY <1>2, EnteredStep
<1>3. CASE EnterCancelled(s)
  BY <1>3, EnterCancelledStep
<1>4. CASE BackedOut(s)
  BY <1>4, BackedOutStep
<1>5. CASE Finish(s)
  BY <1>5, FinishStep
<1>6. CASE Write(s) \/ Check(s)
  BY <1>6, CallSteps
<1>7. CASE Continue(s)
  BY <1>7, ContinueStep
<1>8. CASE Interrupted(s)
  BY <1>8, InterruptedStep
<1>9. CASE Release(s)
  BY <1>9, ReleaseStep
<1>10. CASE Exit(s)
  BY <1>10, ExitStep
<1>11. CASE Tick(s) \/ Renewed(s) \/ BeatEnds(s)
  BY <1>11, BeatSteps
<1>12. CASE Lose(s)
  BY <1>12, LoseStep
<1>13. CASE ServeOwner(s)
  BY <1>13, ServeOwnerStep
<1>14. CASE ServeBeat(s)
  BY <1>14, ServeBeatStep
<1>15. CASE ClientCancel(s)
  BY <1>15, ClientCancelStep
<1>16. CASE Die(s)
  BY <1>16, DieStep
<1>17. QED
  BY <1>1, <1>2, <1>3, <1>4, <1>5, <1>6, <1>7, <1>8, <1>9, <1>10, <1>11, <1>12, <1>13, <1>14,
     <1>15, <1>16 DEF Run, Heartbeat, Database

LEMMA Stutters ==
  ASSUME IInv, UNCHANGED vars
  PROVE  IInv'
<1>1. TypeOK'
  BY DEF IInv, TypeOK, vars
<1>2. (\A s \in Sessions : OwnerOK(owner[s], beat[s], cancels[s]))'
  BY DEF IInv, vars
<1>3. (\A s \in Sessions : RowOK(s, owner[s]))'
  BY DEF IInv, RowOK, vars
<1>4. QED
  BY <1>1, <1>2, <1>3 DEF IInv, WritesDoNotInterleave, vars

\* The inductive invariant holds for ever.
THEOREM Invariance == Spec => []IInv
<1>1. Init => IInv
  BY Initially
<1>2. IInv /\ [Next]_vars => IInv'
  BY SessionStep, LapseStep, Stutters DEF Next
<1>3. QED
  BY <1>1, <1>2, PTL DEF Spec

\* The two tasks of every session, the row and the counters keep their types,
\* and the heartbeat runs only between the grant and the release.
THEOREM TypeCorrect == Spec => []TypeOK
<1>1. IInv => TypeOK
  BY DEF IInv
<1>2. QED
  BY <1>1, Invariance, PTL

\* A turn whose __aexit__ raises nothing was alone while it held the lease.
THEOREM CleanExits == Spec => []CleanExitWasExclusive
<1>1. IInv => CleanExitWasExclusive
  BY DEF IInv, RowOK, CleanExitWasExclusive
<1>2. QED
  BY <1>1, Invariance, PTL

\* The writes of two turns of an owner are never interleaved, whatever stalls,
\* and whichever request executes late.
THEOREM WritesApart == Spec => []WritesDoNotInterleave
<1>1. IInv => WritesDoNotInterleave
  BY DEF IInv
<1>2. QED
  BY <1>1, Invariance, PTL

\* A session that is over has left no row, unless a call of its own failed.
THEOREM NothingStranded == Spec => []NoStrandedLease
<1>1. IInv => NoStrandedLease
  BY DEF IInv, RowOK, Cleared, NoStrandedLease
<1>2. QED
  BY <1>1, Invariance, PTL

\* The heartbeat's own cancellation is never taken for the client's.
THEOREM CancelledByClient == Spec => []OnlyAClientCancels
<1>1. IInv => OnlyAClientCancels
  BY DEF IInv, OwnerOK, OnlyAClientCancels
<1>2. QED
  BY <1>1, Invariance, PTL

\* No renewal is under way once __aexit__ is over.
THEOREM QuietAfterExit == Spec => []NothingRunsAfterExit
<1>1. IInv => NothingRunsAfterExit
  BY DEF IInv, OwnerOK, NothingRunsAfterExit
<1>2. QED
  BY <1>1, Invariance, PTL

\* Exclusion: clean exits were alone, and overtaken turns write no more.
THEOREM Exclusion == Spec => []TurnsExclude
<1>1. CleanExitWasExclusive /\ WritesDoNotInterleave => TurnsExclude
  BY DEF TurnsExclude
<1>2. QED
  BY <1>1, CleanExits, WritesApart, PTL

\* How a session ends: cancelled only by a client, with nothing left running.
THEOREM CleanEnds == Spec => []ExitsAreClean
<1>1. OnlyAClientCancels /\ NothingRunsAfterExit => ExitsAreClean
  BY DEF ExitsAreClean
<1>2. QED
  BY <1>1, CancelledByClient, QuietAfterExit, PTL
=============================================================================
